------------------------------- MODULE PathList -------------------------------
(***************************************************************************)
(* The paths a relation keeps: add_path, add_partial_path, their prechecks *)
(* and set_cheapest of optimizer/util/pathnode.c, and the searches of a    *)
(* path list in optimizer/path/pathkeys.c.  Sizes replaced by the          *)
(* card-replace anchor reach the plan only through what is kept here.      *)
(*                                                                         *)
(* Costs are integers.  A fuzz factor is a fraction <<n, d>>, so that c is *)
(* over b * n/d when c * d > b * n.  1.0000000001 is <<1, 1>>: between     *)
(* integers below 10^10 it makes no difference.  A visit of the loop over  *)
(* the list is one step; whether memory of a discarded path is freed       *)
(* (an IndexPath is not) is left out.                                      *)
(***************************************************************************)
EXTENDS Integers, Sequences, SequencesExt, FiniteSets

CONSTANTS
  Paths,            \* the paths that may be offered
  STD_FUZZ_FACTOR,  \* <<101, 100>>
  MaxOffers,        \* bound on the paths offered to one relation
  Null

Lists == {"pathlist", "partial_pathlist"}
PathKeys == UNION {ToSet(p.pathkeys) : p \in Paths}
Outers == UNION {p.required_outer : p \in Paths}

ASSUME FuzzAssumption ==
  /\ STD_FUZZ_FACTOR \in (Nat \ {0}) \X (Nat \ {0})
  /\ STD_FUZZ_FACTOR[1] >= STD_FUZZ_FACTOR[2]
ASSUME PathsAssumption ==
  /\ Paths \subseteq [startup_cost : Nat, total_cost : Nat, rows : Nat, parallel_safe : BOOLEAN,
                      pathkeys : Seq(PathKeys), required_outer : SUBSET Outers]
  /\ \A p \in Paths : p.startup_cost <= p.total_cost
\* Paths of one parameterisation have one row count: get_parameterized_*_size.
ASSUME RowsAssumption ==
  \A p, q \in Paths : p.required_outer = q.required_outer => p.rows = q.rows
\* A scan of a list by add_path: the place it visits and the one after which it will insert.
Scans == [list : Lists, new_path : Paths, at : Nat \ {0}, insert_at : Nat]
ASSUME BoundAssumption == MaxOffers \in Nat /\ Null \notin Paths /\ Null \notin Scans

VARIABLES
  consider_startup,
  consider_param_startup,
  rel,        \* the two lists of the RelOptInfo
  scan,       \* add_path under way: [list, new_path, at, insert_at], or Null
  cheapest,   \* what set_cheapest has filled in, or Null
  offers,     \* paths offered so far
  offered,    \* ghost: what was offered to either list
  slack       \* ghost: one fuzz factor for each path removed from a list or turned away

vars == <<consider_startup, consider_param_startup, rel, scan, cheapest, offers, offered, slack>>

------------------------------------------------------------------------------
(* Comparisons *)

Exact == <<1, 1>>
Over(c, b, fuzz) == c * fuzz[2] > b * fuzz[1]

\* Pathkeys: the longer list is better if the shorter one is its beginning.
compare_pathkeys(keys1, keys2) ==
  CASE keys1 = keys2              -> "equal"
    [] IsStrictPrefix(keys2, keys1) -> "better1"
    [] IsStrictPrefix(keys1, keys2) -> "better2"
    [] OTHER                      -> "different"

pathkeys_contained_in(keys1, keys2) == compare_pathkeys(keys1, keys2) \in {"equal", "better2"}

\* -1, 0 or 1 of path1 against path2: by one cost, then by the other.
compare_path_costs(path1, path2, criterion) ==
  LET s == path1.startup_cost - path2.startup_cost
      t == path1.total_cost - path2.total_cost
      d == IF criterion = "STARTUP_COST" THEN (IF s # 0 THEN s ELSE t)
                                         ELSE (IF t # 0 THEN t ELSE s)
  IN CASE d < 0 -> -1 [] d > 0 -> 1 [] OTHER -> 0

\* Cost of fetching the fraction n/d of the rows.
compare_fractional_path_costs(path1, path2, fraction) ==
  LET cost(p) == p.startup_cost * fraction[2] + fraction[1] * (p.total_cost - p.startup_cost)
      d == cost(path1) - cost(path2)
  IN IF fraction[1] <= 0 \/ fraction[1] >= fraction[2]
     THEN compare_path_costs(path1, path2, "TOTAL_COST")
     ELSE CASE d < 0 -> -1 [] d > 0 -> 1 [] OTHER -> 0

CONSIDER_PATH_STARTUP_COST(p) ==
  IF p.required_outer = {} THEN consider_startup ELSE consider_param_startup

compare_path_costs_fuzzily(path1, path2, fuzz) ==
  LET Dearer(p, q)  == Over(p.total_cost, q.total_cost, fuzz)
      Later(p, q)   == Over(p.startup_cost, q.startup_cost, fuzz)
      Redeemed(p, q) == CONSIDER_PATH_STARTUP_COST(p) /\ Later(q, p)
  IN IF Dearer(path1, path2) THEN (IF Redeemed(path1, path2) THEN "different" ELSE "better2")
     ELSE IF Dearer(path2, path1) THEN (IF Redeemed(path2, path1) THEN "different" ELSE "better1")
     ELSE IF Later(path1, path2) THEN "better2"
     ELSE IF Later(path2, path1) THEN "better1"
     ELSE "equal"

------------------------------------------------------------------------------
(* What the loop of add_path decides of one path already in the list *)

\* Parameterised paths count as unordered.
EffectiveKeys(p) == IF p.required_outer = {} THEN p.pathkeys ELSE <<>>

NoMoreDemanding(p, q) == p.rows <= q.rows /\ (q.parallel_safe => p.parallel_safe)

\* Costs, order and parameterisation are the same.
TieBreak(p, q) ==
  IF p.parallel_safe # q.parallel_safe THEN p.parallel_safe
  ELSE IF p.rows # q.rows THEN p.rows < q.rows
  ELSE compare_path_costs_fuzzily(p, q, Exact) = "better1"

Flip(cmp) == CASE cmp = "better1" -> "better2" [] cmp = "better2" -> "better1" [] OTHER -> cmp

\* p, compared with q, is at least as good in every respect.
Dominates_AnyRows(p, q, costs, keys) ==
  /\ keys # "different" /\ p.required_outer \subseteq q.required_outer
  /\ \/ costs = "better1" /\ keys # "better2"
     \/ costs = "equal" /\ keys = "better1"
     \/ costs = "equal" /\ keys = "equal" /\ p.required_outer # q.required_outer
Dominates(p, q, costs, keys) ==
  /\ keys # "different" /\ p.required_outer \subseteq q.required_outer
  /\ NoMoreDemanding(p, q)
  /\ \/ costs = "better1" /\ keys # "better2"
     \/ costs = "equal" /\ keys = "better1"
     \/ costs = "equal" /\ keys = "equal" /\ p.required_outer # q.required_outer

FullTie(p, q, costs, keys) ==
  costs = "equal" /\ keys = "equal" /\ p.required_outer = q.required_outer

remove_old(new_path, old_path) ==
  LET costs == compare_path_costs_fuzzily(new_path, old_path, STD_FUZZ_FACTOR)
      keys  == compare_pathkeys(EffectiveKeys(new_path), EffectiveKeys(old_path))
  IN \/ Dominates(new_path, old_path, costs, keys)
     \/ /\ FullTie(new_path, old_path, costs, keys)
        /\ TieBreak(new_path, old_path)

reject_new(new_path, old_path) ==
  LET costs == compare_path_costs_fuzzily(new_path, old_path, STD_FUZZ_FACTOR)
      keys  == compare_pathkeys(EffectiveKeys(new_path), EffectiveKeys(old_path))
  IN \/ Dominates(old_path, new_path, Flip(costs), Flip(keys))
     \/ /\ FullTie(new_path, old_path, costs, keys)
        /\ ~TieBreak(new_path, old_path)

\* The same for add_partial_path, which looks at order and total cost only.
PartialCosts(p, q) ==
  CASE Over(p.total_cost, q.total_cost, STD_FUZZ_FACTOR) -> "better2"
    [] Over(q.total_cost, p.total_cost, STD_FUZZ_FACTOR) -> "better1"
    [] OTHER                                             -> "equal"

partial_remove_old(new_path, old_path) ==
  LET costs == PartialCosts(new_path, old_path)
      keys  == compare_pathkeys(new_path.pathkeys, old_path.pathkeys)
  IN /\ keys # "different"
     /\ \/ costs = "better1" /\ keys # "better2"
        \/ costs = "equal" /\ keys = "better1"
        \/ /\ costs = "equal" /\ keys = "equal"
           /\ Over(old_path.total_cost, new_path.total_cost, Exact)

partial_reject_new(new_path, old_path) ==
  LET costs == PartialCosts(new_path, old_path)
      keys  == compare_pathkeys(new_path.pathkeys, old_path.pathkeys)
  IN /\ keys # "different"
     /\ \/ costs = "better2" /\ keys # "better1"
        \/ costs = "equal" /\ keys = "better2"
        \/ /\ costs = "equal" /\ keys = "equal"
           /\ ~Over(old_path.total_cost, new_path.total_cost, Exact)

Removes(list, new, old) ==
  IF list = "pathlist" THEN remove_old(new, old) ELSE partial_remove_old(new, old)
Rejects(list, new, old) ==
  IF list = "pathlist" THEN reject_new(new, old) ELSE partial_reject_new(new, old)

------------------------------------------------------------------------------
(* add_path and add_partial_path *)

Old == rel[scan.list][scan.at]

Offer(list, p) ==
  /\ scan = Null /\ cheapest = Null /\ offers < MaxOffers
  /\ list = "partial_pathlist" => p.parallel_safe /\ p.required_outer = {}
  /\ scan' = [list |-> list, new_path |-> p, at |-> 1, insert_at |-> 0]
  /\ offers' = offers + 1
  /\ offered' = [offered EXCEPT ![list] = @ \cup {p}]
  /\ UNCHANGED <<consider_startup, consider_param_startup, rel, cheapest, slack>>

Scanning == scan # Null /\ UNCHANGED <<consider_startup, consider_param_startup, cheapest, offers, offered>>
AddFuzz == slack' = [slack EXCEPT ![scan.list] = <<@[1] * STD_FUZZ_FACTOR[1], @[2] * STD_FUZZ_FACTOR[2]>>]

RemoveOld ==
  /\ Scanning /\ scan.at \in DOMAIN rel[scan.list]
  /\ Removes(scan.list, scan.new_path, Old)
  /\ rel' = [rel EXCEPT ![scan.list] = RemoveAt(@, scan.at)]
  /\ scan' = scan /\ AddFuzz

\* A new path goes after the last kept one that costs no more.
InsertAfter_ByStartup(new_path, old_path) == new_path.startup_cost >= old_path.startup_cost
InsertAfter(new_path, old_path) == new_path.total_cost >= old_path.total_cost

KeepOld ==
  /\ Scanning /\ scan.at \in DOMAIN rel[scan.list]
  /\ ~Removes(scan.list, scan.new_path, Old) /\ ~Rejects(scan.list, scan.new_path, Old)
  /\ scan' = [scan EXCEPT !.at = @ + 1,
                          !.insert_at = IF InsertAfter(scan.new_path, Old) THEN scan.at ELSE @]
  /\ UNCHANGED <<rel, slack>>

RejectNew ==
  /\ Scanning /\ scan.at \in DOMAIN rel[scan.list]
  /\ ~Removes(scan.list, scan.new_path, Old) /\ Rejects(scan.list, scan.new_path, Old)
  /\ scan' = Null /\ AddFuzz
  /\ UNCHANGED rel

AcceptNew ==
  /\ Scanning /\ scan.at \notin DOMAIN rel[scan.list]
  /\ rel' = [rel EXCEPT ![scan.list] = InsertAt(@, scan.insert_at + 1, scan.new_path)]
  /\ scan' = Null
  /\ UNCHANGED slack

------------------------------------------------------------------------------
(* The prechecks, called with lower bounds of a path's costs *)

\* An existing path makes the proposed one hopeless.
Hopeless_AnyStartup(p, old) ==
  /\ pathkeys_contained_in(EffectiveKeys(p), EffectiveKeys(old))
  /\ p.required_outer = old.required_outer
Hopeless(p, old) ==
  /\ \/ Over(p.startup_cost, old.startup_cost, STD_FUZZ_FACTOR)
     \/ ~CONSIDER_PATH_STARTUP_COST(p)
  /\ pathkeys_contained_in(EffectiveKeys(p), EffectiveKeys(old))
  /\ p.required_outer = old.required_outer

\* The loop ends at the first path that is not fuzzily cheaper.
add_path_precheck(p) ==
  LET list == rel["pathlist"]
      stop == SelectInSeq(list, LAMBDA old : ~Over(p.total_cost, old.total_cost, STD_FUZZ_FACTOR))
      seen == IF stop = 0 THEN DOMAIN list ELSE 1..stop - 1
  IN \A i \in seen : ~Hopeless(p, list[i])

\* The first path that decides; if none does, the serial paths do.
add_partial_path_precheck(p) ==
  LET list == rel["partial_pathlist"]
      keys(old) == compare_pathkeys(p.pathkeys, old.pathkeys)
      Worse(old)  == PartialCosts(p, old) = "better2" /\ keys(old) \notin {"different", "better1"}
      Better(old) == PartialCosts(p, old) = "better1" /\ keys(old) \notin {"different", "better2"}
      stop == SelectInSeq(list, LAMBDA old : Worse(old) \/ Better(old))
  IN IF stop # 0 THEN Better(list[stop])
     ELSE add_path_precheck([p EXCEPT !.startup_cost = p.total_cost])

------------------------------------------------------------------------------
(* Choosing from the list *)

bms_subset_compare(a, b) ==
  IF a = b THEN "equal" ELSE IF a \subseteq b THEN "subset1" ELSE IF b \subseteq a THEN "subset2"
  ELSE "different"

\* A path replaces the best one so far if it is cheaper, or as cheap and better ordered.
Supersedes(path, best, criterion) ==
  LET cmp == compare_path_costs(best, path, criterion)
  IN cmp > 0 \/ (cmp = 0 /\ compare_pathkeys(best.pathkeys, path.pathkeys) = "better2")

\* Among parameterised paths fewer outer relations come before cost.
BetterParam_ByCost(path, best) ==
  best = Null \/ compare_path_costs(path, best, "TOTAL_COST") < 0
BetterParam(path, best) ==
  IF best = Null THEN TRUE
  ELSE LET outers == bms_subset_compare(path.required_outer, best.required_outer)
       IN \/ outers = "subset1"
          \/ outers = "equal" /\ compare_path_costs(path, best, "TOTAL_COST") < 0

\* One turn of the loop: what has been chosen so far, c, and the next path.
Visit(c, path) ==
  IF path.required_outer # {}
  THEN [c EXCEPT !.params = Append(@, path),
                 !.best_param = IF c.total = Null /\ BetterParam(path, @) THEN path ELSE @]
  ELSE [c EXCEPT !.startup = IF @ = Null \/ Supersedes(path, @, "STARTUP_COST") THEN path ELSE @,
                 !.total   = IF @ = Null \/ Supersedes(path, @, "TOTAL_COST") THEN path ELSE @]

set_cheapest(pathlist) ==
  LET visited[i \in 0..Len(pathlist)] ==
        IF i = 0 THEN [startup |-> Null, total |-> Null, best_param |-> Null, params |-> <<>>]
                 ELSE Visit(visited[i - 1], pathlist[i])
      c == visited[Len(pathlist)]
  IN [cheapest_startup_path |-> c.startup,
      cheapest_total_path |-> IF c.total = Null THEN c.best_param ELSE c.total,
      cheapest_parameterized_paths |-> IF c.total = Null THEN c.params ELSE <<c.total>> \o c.params]

SetCheapest ==
  /\ scan = Null /\ cheapest = Null /\ rel["pathlist"] # <<>>
  /\ cheapest' = set_cheapest(rel["pathlist"])
  /\ UNCHANGED <<consider_startup, consider_param_startup, rel, scan, offers, offered, slack>>

Qualifies(path, keys, outer, safe) ==
  /\ safe => path.parallel_safe
  /\ pathkeys_contained_in(keys, path.pathkeys)
  /\ path.required_outer \subseteq outer

\* A path that does not qualify may be passed over for its cost first.
Search(paths, NotDearer(_, _), Test(_)) ==
  LET matched[i \in 0..Len(paths)] ==
        IF i = 0 THEN Null
        ELSE IF matched[i - 1] # Null /\ NotDearer(matched[i - 1], paths[i]) THEN matched[i - 1]
        ELSE IF Test(paths[i]) THEN paths[i] ELSE matched[i - 1]
  IN matched[Len(paths)]

get_cheapest_path_for_pathkeys(paths, keys, outer, criterion, safe) ==
  Search(paths, LAMBDA matched, path : compare_path_costs(matched, path, criterion) <= 0,
         LAMBDA path : Qualifies(path, keys, outer, safe))

get_cheapest_fractional_path_for_pathkeys(paths, keys, outer, fraction) ==
  Search(paths, LAMBDA matched, path : compare_fractional_path_costs(matched, path, fraction) <= 0,
         LAMBDA path : Qualifies(path, keys, outer, FALSE))

\* The first one found: the list is taken to be sorted.
get_cheapest_parallel_safe_total_inner(paths) ==
  LET i == SelectInSeq(paths, LAMBDA p : p.parallel_safe /\ p.required_outer = {})
  IN IF i = 0 THEN Null ELSE paths[i]

------------------------------------------------------------------------------
Init ==
  /\ consider_startup \in BOOLEAN /\ consider_param_startup \in BOOLEAN
  /\ rel = [l \in Lists |-> <<>>] /\ offered = [l \in Lists |-> {}]
  /\ scan = Null /\ cheapest = Null /\ offers = 0 /\ slack = [l \in Lists |-> <<1, 1>>]

Next ==
  \/ \E list \in Lists, p \in Paths : Offer(list, p)
  \/ RemoveOld \/ KeepOld \/ RejectNew \/ AcceptNew \/ SetCheapest

Spec == Init /\ [][Next]_vars

------------------------------------------------------------------------------
(* Properties *)

TypeOK ==
  /\ consider_startup \in BOOLEAN /\ consider_param_startup \in BOOLEAN
  /\ rel \in [Lists -> Seq(Paths)]
  /\ scan = Null \/ /\ scan \in Scans
                    /\ scan.insert_at < scan.at /\ scan.at <= Len(rel[scan.list]) + 1
  /\ offers \in 0..MaxOffers
  /\ offered \in [Lists -> SUBSET Paths]
  /\ slack \in [Lists -> (Nat \ {0}) \X (Nat \ {0})]
  /\ \A l \in Lists : slack[l][1] >= slack[l][2]

\* The order add_path_precheck and get_cheapest_parallel_safe_total_inner rely on, also
\* in the middle of a scan that has removed paths.
SortedByTotal ==
  \A l \in Lists : \A i, j \in DOMAIN rel[l] :
    i < j => rel[l][i].total_cost <= rel[l][j].total_cost

\* Where the scan stands: the paths up to insert_at cost no more than the new one,
\* those it has passed since cost more.
InsertedInOrder ==
  scan # Null =>
    \A i \in 1..scan.at - 1 :
      IF i <= scan.insert_at THEN rel[scan.list][i].total_cost <= scan.new_path.total_cost
                             ELSE rel[scan.list][i].total_cost > scan.new_path.total_cost

\* Startup cost counts for p all along: what replaces it may be unparameterised.
StartupCounts(p) ==
  consider_startup /\ (p.required_outer # {} => consider_param_startup)

\* kept is as good as p in every respect, up to the fuzz.
Matches(list, kept, p, fuzz) ==
  /\ ~Over(kept.total_cost, p.total_cost, fuzz)
  /\ IF list = "partial_pathlist" THEN IsPrefix(p.pathkeys, kept.pathkeys)
     ELSE /\ kept.required_outer \subseteq p.required_outer
          /\ IsPrefix(EffectiveKeys(p), EffectiveKeys(kept))
          /\ NoMoreDemanding(kept, p)
          /\ StartupCounts(p) => ~Over(kept.startup_cost, p.startup_cost, fuzz)

\* The paths of a list, and the one add_path holds.
Held(list) ==
  ToSet(rel[list]) \cup (IF scan # Null /\ scan.list = list THEN {scan.new_path} ELSE {})

\* Every path ever offered is matched by one that is in the list or under way.
OfferedHeld ==
  \A list \in Lists : \A p \in offered[list] :
    \E kept \in Held(list) : Matches(list, kept, p, slack[list])

\* Nothing worth having is lost: every path ever offered has a path in the list that
\* is as good in every respect, up to one fuzz factor for each path that was removed or
\* turned away.  A path may go for one that is turned away itself in the same scan, and
\* dominance is not transitive.
OfferedMatched ==
  scan = Null =>
    \A list \in Lists : \A p \in offered[list] :
      \E kept \in ToSet(rel[list]) : Matches(list, kept, p, slack[list])

\* The prechecks turn away only what add_path or add_partial_path would, whatever the
\* real costs above the bounds are; and leaving the loop early changes no answer.  They
\* do not know whether the path is parallel safe.
PrecheckSound ==
  scan = Null =>
    LET kept == ToSet(rel["pathlist"])
        partial == ToSet(rel["partial_pathlist"])
        CouldBe(q, p) == /\ q.startup_cost >= p.startup_cost /\ q.total_cost >= p.total_cost
                         /\ q.pathkeys = p.pathkeys /\ q.required_outer = p.required_outer
                         /\ \A k \in kept : q.parallel_safe => k.parallel_safe
        Hopes == {p \in Paths : add_path_precheck(p)}
    IN \A p \in Paths :
         /\ p \in Hopes <=>
              ~\E k \in kept : Over(p.total_cost, k.total_cost, STD_FUZZ_FACTOR) /\ Hopeless(p, k)
         /\ p \notin Hopes =>
              \A q \in Paths : CouldBe(q, p) => \E k \in kept : reject_new(q, k)
         /\ (p.parallel_safe /\ p.required_outer = {} /\ ~add_partial_path_precheck(p)) =>
              \/ \E k \in partial : partial_reject_new(p, k)
              \/ \E k \in kept : k.total_cost < p.total_cost /\ IsPrefix(p.pathkeys, k.pathkeys)

\* What set_cheapest leaves is the least of the list by either cost, or a cheapest path
\* of a least parameterisation if all are parameterised.
CheapestRight ==
  cheapest # Null =>
    LET kept   == ToSet(rel["pathlist"])
        plain  == {p \in kept : p.required_outer = {}}
        total  == cheapest.cheapest_total_path
        Less(p, q, criterion) == compare_path_costs(p, q, criterion) < 0
    IN /\ total \in kept
       /\ ToSet(cheapest.cheapest_parameterized_paths) = (kept \ plain) \cup (plain \cap {total})
       /\ IF plain # {}
          THEN /\ total \in plain /\ cheapest.cheapest_startup_path \in plain
               /\ cheapest.cheapest_parameterized_paths[1] = total
               /\ \A p \in plain : /\ ~Less(p, total, "TOTAL_COST")
                                   /\ ~Less(p, cheapest.cheapest_startup_path, "STARTUP_COST")
          ELSE /\ cheapest.cheapest_startup_path = Null
               /\ \A p \in kept : /\ ~(p.required_outer \subseteq total.required_outer /\ p.required_outer # total.required_outer)
                                  /\ p.required_outer = total.required_outer => ~Less(p, total, "TOTAL_COST")

\* The searches of the list return a least path of those that qualify, if there is one.
LookupRight ==
  cheapest # Null =>
    LET list == rel["pathlist"]
        Fit(keys, outer, safe) ==
          {q \in ToSet(list) : /\ IsPrefix(keys, q.pathkeys) /\ q.required_outer \subseteq outer
                               /\ safe => q.parallel_safe}
        Least(found, qualified, Compare(_, _)) ==
          IF qualified = {} THEN found = Null
          ELSE found \in qualified /\ \A p \in qualified : Compare(found, p) <= 0
        inner == get_cheapest_parallel_safe_total_inner(list)
        plain == {p \in ToSet(list) : p.parallel_safe /\ p.required_outer = {}}
    IN /\ \A keys \in {p.pathkeys : p \in Paths}, outer \in {p.required_outer : p \in Paths} :
            /\ \A criterion \in {"STARTUP_COST", "TOTAL_COST"}, safe \in BOOLEAN :
                 Least(get_cheapest_path_for_pathkeys(list, keys, outer, criterion, safe),
                       Fit(keys, outer, safe),
                       LAMBDA p, q : compare_path_costs(p, q, criterion))
            /\ Least(get_cheapest_fractional_path_for_pathkeys(list, keys, outer, <<1, 2>>),
                     Fit(keys, outer, FALSE),
                     LAMBDA p, q : compare_fractional_path_costs(p, q, <<1, 2>>))
       /\ IF plain = {} THEN inner = Null
          ELSE inner \in plain /\ \A p \in plain : inner.total_cost <= p.total_cost

\* The lists are well formed and sorted.
ListsSorted == TypeOK /\ SortedByTotal

\* What a scan relies on when it goes on from a visit.
ScanInv == ListsSorted /\ InsertedInOrder /\ OfferedHeld

\* Every choice made from a list, by set_cheapest or by a search, is a least path.
ChoicesRight == CheapestRight /\ LookupRight
===============================================================================
