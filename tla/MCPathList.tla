------------------------------ MODULE MCPathList ------------------------------
(***************************************************************************)
(* Paths to model-check PathList with: total costs one per cent apart, so  *)
(* that the least and the greatest differ and neighbours do not.           *)
(***************************************************************************)
EXTENDS PathList

Fuzz == <<101, 100>>

\* Two outer relations yield more rows than the first alone: the case the rule of
\* thumb in add_path's comment does not cover.
RowsOf == ({} :> 3) @@ ({1} :> 1) @@ ({1, 2} :> 2)

\* Order, parameterisation and parallel safety of a path.
Shapes ==
  {<<<<>>, {}, TRUE>>, <<<<"a">>, {}, TRUE>>, <<<<"b">>, {}, FALSE>>,
   <<<<"a">>, {1}, TRUE>>, <<<<>>, {1}, FALSE>>, <<<<>>, {1, 2}, TRUE>>}

\* Startup and total costs; the path that is best in both would end most runs at once.
Costs == ({1, 2} \X {100, 101, 102}) \ {<<1, 100>>}

SomePaths ==
  {[startup_cost |-> c[1], total_cost |-> c[2], pathkeys |-> h[1], required_outer |-> h[2],
    parallel_safe |-> h[3], rows |-> RowsOf[h[2]]] : c \in Costs, h \in Shapes}
===============================================================================
