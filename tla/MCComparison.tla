----------------------------- MODULE MCComparison -----------------------------
(****************************************************************************)
(* The comparison of the two iterators on small functions, with the graphs  *)
(* that the front end builds.                                               *)
(****************************************************************************)
EXTENDS MCConcurrentFixpoint, Comparison

ComparedPrograms ==
  {SplitProgram(p) : p \in
     ThreeBlockPrograms \cup
     {Fork(Mixed, TRUE), Loops(Apart), Nested(Mixed, TRUE), Nested(Mixed, FALSE),
      Sequence(Apart), Irreducible(Mixed),
      Reentered(Mixed, {<<5, 2, 3>>}), Reentered(Apart, {}), Sneaky(Apart)}}

W == INSTANCE Wto

ComparedCfgs == Table([p \in ComparedPrograms |-> p.cfg])
ComparedWpos == Table([p \in ComparedPrograms |-> Tabulated(BuildWpo(p.cfg))])
ComparedWtos == Table([p \in ComparedPrograms |-> W!BuildWto(p.cfg)])

MCComparedPrograms == ComparedPrograms
MCComparedCfgOf == ComparedCfgs
MCComparedWpoOf == ComparedWpos
MCComparedWtoOf == ComparedWtos
==============================================================================
