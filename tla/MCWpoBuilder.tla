----------------------------- MODULE MCWpoBuilder -----------------------------
(****************************************************************************)
(* The control flow graphs on which TLC checks the construction of the weak *)
(* partial order and compares it with the weak topological order: all small *)
(* ones, larger ones with nested and irreducible loops, and all of these    *)
(* with a block on every critical edge.  The smallest are then profiled     *)
(* with blocks that are light or heavy, and a diamond, a loop and nested    *)
(* loops with calls, for each limit and number of threads.                  *)
(****************************************************************************)
EXTENDS FunctionOrder

CONSTANTS
  MaxBlocks,    \* bound: number of blocks of the small graphs
  MaxSplit,     \* bound: number of blocks of a graph without critical edges
  MaxProfiled   \* bound: number of blocks of a function with heavy blocks

CallGraphs == {
  Graph(<< <<2, 3>>, <<4>>, <<4>>, <<>> >>),
  Graph(<< <<2>>, <<3, 4>>, <<2>>, <<5>>, <<4, 6>>, <<>> >>),
  Graph(<< <<2>>, <<3, 5>>, <<4>>, <<3, 2>>, <<>> >>)}

LargerGraphs == CallGraphs \cup {
  \* a loop in a loop in a loop, left from the innermost
  Graph(<< <<2>>, <<3>>, <<4>>, <<4, 5>>, <<3, 2>> >>),
  \* nested loops that are entered in the middle, at each level
  Graph(<< <<2, 3, 5>>, <<4>>, <<5>>, <<5, 2>>, <<4, 6>>, <<>> >>),
  Graph(<< <<2, 5>>, <<3>>, <<4, 5>>, <<5>>, <<4, 3, 2>> >>),
  Graph(<< <<2, 4, 6>>, <<3>>, <<4>>, <<5, 3>>, <<6, 2>>, <<5>> >>),
  \* cross edges between the branches of a loop, and out of it
  Graph(<< <<2>>, <<3, 4>>, <<5>>, <<3, 5>>, <<2, 6>>, <<>> >>),
  Graph(<< <<2, 3>>, <<2, 4>>, <<3, 4>>, <<5>>, <<4>> >>)}

(* Bound: the well-formedness of an order is exponential in its cells.      *)
MCInputGraphs ==
  LET graphs == UNION {GraphsOf(n) : n \in 1..MaxBlocks} \cup LargerGraphs
  IN  graphs \cup {g \in {SplitEdges(h) : h \in graphs} : Len(g.succ) <= MaxSplit}
------------------------------------------------------------------------------
Block(size, calls) == [size |-> size, calls |-> calls]

Chain == [f |-> Block(2, <<"g", "g">>), g |-> Block(1, <<"h", "external">>), h |-> Block(3, <<>>)]
Loop  == [f |-> Block(2, <<"f", "g">>), g |-> Block(1, <<"indirect">>), h |-> Block(0, <<>>)]
Ring  == [f |-> Block(1, <<"g">>), g |-> Block(4, <<"f", "h">>), h |-> Block(1, <<"f">>)]

PlainInput(w, block, threads) ==
  [wpo |-> w, block |-> block, body |-> Chain, mutual |-> FALSE, limit |-> 0, threads |-> threads]

PlainInputs(g, w) ==
  {PlainInput(w, [n \in g.node |-> Block(IF n \in H THEN 5 ELSE 1, <<>>)], 2)
     : H \in SUBSET g.node}

CallInputs(g, w) ==
  {[wpo |-> w,
    block |-> [n \in g.node |-> Block(1, CASE n = 1 -> <<>>
                                           [] n \in {2, 5} -> <<"f", "h">>
                                           [] n = 3 -> <<"g", "indirect">>
                                           [] OTHER -> <<"h">>)],
    body |-> b, mutual |-> (b = Ring), limit |-> l, threads |-> t]
     : b \in {Chain, Loop, Ring}, l \in 0..3, t \in 0..3}

MCProfileInputs(g, w) ==
  (IF Cardinality(g.node) <= MaxProfiled THEN PlainInputs(g, w) ELSE {})
    \cup (IF g \in CallGraphs THEN CallInputs(g, w) ELSE {})

ASSUME GraphsAreEntered == GraphsEntered
==============================================================================
