------------------------- MODULE MCConcurrentFixpoint -------------------------
(****************************************************************************)
(* The concurrent iterator on small functions.  The orders are those that   *)
(* the model of WpoBuilder constructs.                                      *)
(****************************************************************************)
EXTENDS ConcurrentFixpointInv, SmallPrograms

(* Equal to f; f @@ <<>> makes TLC tabulate the function once.              *)
Table(f) == f @@ <<>>
Tabulated(w) ==
  [type |-> Table(w.type), node |-> Table(w.node), size |-> Table(w.size),
   succ |-> Table(w.succ), pred |-> Table(w.pred),
   outer |-> Table([x \in DOMAIN w.outer |-> Table(w.outer[x])]),
   comp |-> Table(w.comp), postDfn |-> Table(w.postDfn)]

GraphCfgs   == Table([p \in GraphPrograms |-> p.cfg])
GraphOrders == Table([p \in GraphPrograms |-> Tabulated(BuildWpo(p.cfg))])

(* TLC evaluates a definition once, but not one that a constant is given.   *)
MCGraphPrograms == GraphPrograms
MCCfgOf == GraphCfgs
MCWpoOf == GraphOrders

Symmetry == Permutations(Workers)
==============================================================================
