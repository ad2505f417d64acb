----------------------------- MODULE SmallPrograms -----------------------------
(****************************************************************************)
(* Small functions and a small abstract domain, for model checking.         *)
(*                                                                          *)
(* The domain is the chain of the upper bounds of one counter: 0 is bottom, *)
(* MaxValue is no bound.  A block may increment the counter, an edge may    *)
(* guard it with a bound.  Widening loses the bound, narrowing finds it     *)
(* again, so results depend on when a loop widens.                          *)
(****************************************************************************)
EXTENDS WpoConstruction, SmallGraphs

CONSTANT MaxValue      \* bound: the top of the chain of values

(* A program: its graph, the partitions of its blocks, the blocks that      *)
(* increment, the guarded edges, the heads with a widening hint, and        *)
(* whether its domain narrows.                                              *)
Program(succ, parts, incs, guards, hints, narrows) ==
  [cfg |-> Graph(succ), parts |-> parts, incs |-> incs, guards |-> guards,
   hints |-> hints, narrows |-> narrows]

(* Three branches that join.                                                *)
Diamond(parts) ==
  Program(<< <<2, 3, 4>>, <<5>>, <<5>>, <<5>>, <<>> >>, parts,
          {1, 3}, {<<4, 5, 1>>}, {}, TRUE)
(* A loop with two branches in its body.                                    *)
Fork(parts, narrows) ==
  Program(<< <<2>>, <<3, 4>>, <<5>>, <<5>>, <<2, 6>>, <<>> >>, parts,
          {3}, {<<5, 2, 3>>}, {}, narrows)
(* Two loops side by side.                                                  *)
Loops(parts) ==
  Program(<< <<2, 3>>, <<2, 4>>, <<3, 4>>, <<>> >>, parts,
          {2, 3}, {<<2, 2, 2>>, <<3, 3, 3>>}, {3}, TRUE)
(* A self-loop in a loop.                                                   *)
Nested(parts, narrows) ==
  Program(<< <<2>>, <<3, 4>>, <<3, 2>>, <<>> >>, parts,
          {3}, {<<3, 3, 3>>, <<3, 2, 2>>}, {2}, narrows)
(* A loop after a loop.                                                     *)
Sequence(parts) ==
  Program(<< <<2>>, <<2, 3>>, <<4>>, <<3, 5>>, <<>> >>, parts,
          {2, 4}, {<<2, 2, 2>>}, {}, TRUE)
(* A loop that is entered at both of its blocks.                            *)
Irreducible(parts) ==
  Program(<< <<2, 3>>, <<3>>, <<2, 4>>, <<>> >>, parts,
          {3}, {<<3, 2, 3>>}, {}, TRUE)
(* A loop with two branches, that is also entered where they join.          *)
Shortcut(parts) ==
  Program(<< <<2, 6>>, <<3, 4>>, <<5>>, <<5>>, <<2, 7>>, <<5>>, <<>> >>, parts,
          {3, 6}, {<<5, 2, 3>>}, {2}, TRUE)
(* Nested loops that are entered in the middle, with branches.              *)
Sneaky(parts) ==
  Program(<< <<2, 3, 5>>, <<4>>, <<5>>, <<5, 2>>, <<4, 6>>, <<>> >>, parts,
          {4}, {<<5, 4, 2>>, <<4, 2, 3>>}, {}, TRUE)

(* A loop in a loop, bounded or not, where the precision of the inner one   *)
(* depends on what it is entered with.                                      *)
Reentered(parts, guards) ==
  Program(<< <<2>>, <<3, 6>>, <<4, 5>>, <<3>>, <<2>>, <<>> >>, parts,
          {2}, guards, IF guards = {} THEN {2} ELSE {}, TRUE)

Apart == <<1, 2, 3, 4, 5, 6, 7>>      \* every block in a partition of its own
Mixed == <<1, 1, 2, 0, 1, 2, 1>>      \* two partitions, and a block in none

NamedPrograms ==
  UNION {{Diamond(p), Fork(p, TRUE), Fork(p, FALSE), Loops(p), Nested(p, TRUE),
          Nested(p, FALSE), Sequence(p), Irreducible(p), Shortcut(p), Sneaky(p)} :
            p \in {Apart, Mixed}}

(* Small graphs, all blocks apart: the greatest parallelism.                *)
ProgramOf(g) ==
  LET n == Len(g.succ)
  IN  [cfg |-> g, parts |-> Apart, incs |-> {2, n}, guards |-> {<<n, 2, 2>>},
       hints |-> {}, narrows |-> TRUE]

(* The graphs with a loop that is entered elsewhere than at its head.       *)
EnteredTwice(g) ==
  LET w == BuildWpo(g)
  IN  \E x \in DOMAIN w.outer : DOMAIN w.outer[x] # {HeadOfExit(x)}

ThreeBlockPrograms == {ProgramOf(g) : g \in GraphsOf(3)}
IrreduciblePrograms == {ProgramOf(g) : g \in {h \in GraphsOf(4) : EnteredTwice(h)}}
GraphPrograms == ThreeBlockPrograms \cup IrreduciblePrograms \cup NamedPrograms

(* Program p with a block on every critical edge, guarded as the edge was.  *)
SplitProgram(p) ==
  LET g   == SplitEdges(p.cfg)
      old == Len(p.cfg.succ)
      On(m, n) == IF <<m, n>> \in Critical(p.cfg)
                  THEN CHOOSE b \in CfgSucc(g, m) : b > old /\ g.succ[b] = <<n>>
                  ELSE n
  IN  [p EXCEPT !.cfg = g,
                !.parts = [b \in g.node |-> IF b <= old THEN @[b] ELSE 2 + b] @@ <<>>,
                !.guards = {<<e[1], On(e[1], e[2]), e[3]>> : e \in @}]

MCPartition(p, n) == p.parts[n]
MCHasHint(p, n) == n \in p.hints
MCHasNarrowing(p) == p.narrows

MCValue == 0..MaxValue
MCLeq(a, b) == a <= b
MCJoin(a, b) == Max({a, b})
MCWiden(a, b) == IF b <= a THEN a ELSE MaxValue
MCWidenThreshold(p, n, a, b) ==
  IF b <= a THEN a ELSE IF b < MaxValue THEN MaxValue - 1 ELSE MaxValue
MCNarrow(a, b) == IF a = MaxValue THEN b ELSE a

MCAnalyzeNode(p, n, v) ==
  IF v = 0 \/ n \notin p.incs THEN v ELSE Min({v + 1, MaxValue})
MCAnalyzeEdge(p, m, n, v) ==
  Min({v} \cup {e[3] : e \in {d \in p.guards : d[1] = m /\ d[2] = n}})
==============================================================================
