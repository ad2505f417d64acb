------------------------------ MODULE SmallGraphs ------------------------------
(****************************************************************************)
(* All small control flow graphs, for model checking: n blocks, at most two *)
(* successors per block, block 1 the entry, which no edge enters (as in     *)
(* LLVM), and every block reachable (ikos-pp removes the others).  Blocks   *)
(* are numbered in breadth-first order, so that every such graph occurs     *)
(* once whatever its blocks are called.                                     *)
(****************************************************************************)
EXTENDS Integers, Sequences, FiniteSets, FiniteSetsExt, TLC

Graph(succ) == [node |-> DOMAIN succ, entry |-> 1, succ |-> succ]

Targets(n) ==
  {<<>>} \cup {<<a>> : a \in 2..n}
         \cup {s \in (2..n) \X (2..n) : s[1] # s[2]}

(* Where block b is first named in the list of all successors.              *)
Mentions(succ, b) ==
  {2 * m + i : <<m, i>> \in
     {e \in (DOMAIN succ) \X {0, 1} : e[2] < Len(succ[e[1]]) /\ succ[e[1]][e[2] + 1] = b}}

BreadthFirst(succ) ==
  \A b \in 2..Len(succ) :
     /\ Mentions(succ, b) # {}
     /\ Min(Mentions(succ, b)) < 2 * b
     /\ b > 2 => Min(Mentions(succ, b - 1)) < Min(Mentions(succ, b))

GraphsOf(n) == {Graph(s) : s \in {t \in [1..n -> Targets(n)] : BreadthFirst(t)}}
------------------------------------------------------------------------------
(* The graphs that the LLVM front end builds have no edge from a block with *)
(* several successors to a block with several predecessors: every branch,   *)
(* comparison or invoke gets output blocks of its own                       *)
(* (BasicBlockTranslation, frontend/llvm/src/import/function.cpp), and      *)
(* simplify-cfg only merges a block into its single predecessor.            *)

Critical(g) ==
  {e \in g.node \X g.node :
     /\ Len(g.succ[e[1]]) > 1 /\ \E i \in 1..Len(g.succ[e[1]]) : g.succ[e[1]][i] = e[2]
     /\ \E p \in g.node \ {e[1]} : \E i \in 1..Len(g.succ[p]) : g.succ[p][i] = e[2]}

(* The graph g with a block on every such edge.                             *)
SplitEdges(g) ==
  LET C    == Critical(g)
      New(e) == Len(g.succ) + Cardinality({d \in C : d[1] < e[1] \/ (d[1] = e[1] /\ d[2] <= e[2])})
      On(b)  == CHOOSE e \in C : New(e) = b
      To(b, m) == IF <<b, m>> \in C THEN New(<<b, m>>) ELSE m
  IN  Graph([b \in 1..(Len(g.succ) + Cardinality(C)) |->
               IF b > Len(g.succ) THEN <<On(b)[2]>>
               ELSE [i \in 1..Len(g.succ[b]) |-> To(b, g.succ[b][i])] @@ <<>>] @@ <<>>)
==============================================================================
