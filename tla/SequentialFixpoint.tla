-------------------------- MODULE SequentialFixpoint --------------------------
(****************************************************************************)
(* The sequential forward fixpoint iterator: classes                        *)
(* InterleavedFwdFixpointIterator and WtoIterator                           *)
(* (core/include/ikos/core/fixpoint/fwd_fixpoint_iterator.hpp), which the   *)
(* concurrent iterator is compared with.                                    *)
(*                                                                          *)
(* A visitor runs through the components of the weak topological order; a   *)
(* cycle is visited until its head is stable.  A step visits one item of    *)
(* the order (module Wto).  The constants are those of ConcurrentFixpoint.  *)
(****************************************************************************)
EXTENDS Wpo, Wto

CONSTANTS
  Programs, CfgOf,
  WtoOf,                      \* weak topological orders of the functions
  Value, Bottom, InitValue,
  Leq(_, _), Join(_, _), JoinIter(_, _), JoinLoop(_, _),
  Widen(_, _), Narrow(_, _),
  HasHint(_, _), WidenThreshold(_, _, _, _), HasNarrowing(_),
  AnalyzeEdge(_, _, _, _), AnalyzeNode(_, _, _)

VARIABLES
  prog, cfg,     \* the function under analysis, its control flow graph (_cfg)
  wto,           \* and its weak topological order (_wto)
  at,            \* the next item of the order
  pre, post,     \* invariants before and after each block (_pre, _post)
  kind,          \* kind and iteration of the cycle of each head: locals of
  iteration      \* visit, that start afresh whenever the cycle is entered

input == <<prog, cfg, wto>>
vars == <<input, at, pre, post, kind, iteration>>

items == wto.items
nesting == wto.nesting
item == items[at]
Node == cfg.node

Init ==
  /\ prog \in Programs /\ cfg = CfgOf[prog] /\ wto = WtoOf[prog]
  /\ at = 1
  /\ pre = [n \in Node |-> IF n = cfg.entry THEN InitValue ELSE Bottom]
  /\ post = [n \in Node |-> Bottom]
  /\ kind = [h \in HeadsOf(items) |-> "increasing"]
  /\ iteration = [h \in HeadsOf(items) |-> 0]

------------------------------------------------------------------------------
(* What a cycle reads before its first iteration, and what comes back.      *)

(* Faulty: the nestings are compared the other way round.                   *)
InputsFaulty(h) == {p \in CfgPred(cfg, h) : LeqNesting(nesting[h], nesting[p])}

Inputs(h) == {p \in CfgPred(cfg, h) : LeqNesting(nesting[p], nesting[h])}
BackEdges(h) == {p \in CfgPred(cfg, h) : GtNesting(nesting[p], nesting[h])}

(* The join of the invariants of some predecessors of n, in the order of    *)
(* the blocks.                                                              *)
JoinPosts(n, preds, start) ==
  LET upTo[p \in {0} \cup Node] ==
        IF p = 0 THEN start
        ELSE LET v == upTo[p - 1]
             IN  IF p \in preds THEN Join(v, AnalyzeEdge(prog, p, n, post[p])) ELSE v
  IN  upTo[Cardinality(Node)]

(* The invariants of n after its block has been analyzed with v.            *)
Analyze(n, v) ==
  /\ pre' = [pre EXCEPT ![n] = v]
  /\ post' = [post EXCEPT ![n] = AnalyzeNode(prog, n, v)]

(* visit(WtoVertex)                                                         *)
VisitVertex ==
  /\ at <= Len(items) /\ item.type = "vertex"
  /\ LET n == item.node
     IN  Analyze(n, JoinPosts(n, CfgPred(cfg, n), IF n = cfg.entry THEN pre[n] ELSE Bottom))
  /\ at' = at + 1
  /\ UNCHANGED <<input, kind, iteration>>

(* visit(WtoCycle), up to the components of the cycle in iteration 1        *)
EnterCycle ==
  /\ at <= Len(items) /\ item.type = "head"
  /\ Analyze(item.node, JoinPosts(item.node, Inputs(item.node), Bottom))
  /\ kind' = [kind EXCEPT ![item.node] = "increasing"]
  /\ iteration' = [iteration EXCEPT ![item.node] = 1]
  /\ at' = at + 1
  /\ UNCHANGED input

(* FunctionFixpoint::extrapolate, is_decreasing_iterations_fixpoint         *)
Extrapolate(head, i, before, after) ==
  IF i <= 1 THEN JoinIter(before, after)
  ELSE IF i = 2 /\ HasHint(prog, head) THEN WidenThreshold(prog, head, before, after)
  ELSE Widen(before, after)

DecreasingFixpoint(before, after) == HasNarrowing(prog) => Leq(before, after)

(* ++iteration.  Bound: iterations from the third on are not told apart.    *)
LaterIteration == 3

NextIteration(i) == IF i < LaterIteration THEN i + 1 ELSE i

(* visit(WtoCycle), after the components: the cycle is visited again from   *)
(* its head, or left.                                                       *)
EndCycle ==
  LET h        == item.node
      new      == JoinLoop(JoinPosts(h, Inputs(h), Bottom), JoinPosts(h, BackEdges(h), Bottom))
      widening == kind[h] = "increasing" /\ ~ Leq(new, pre[h])
      turn     == IF kind[h] = "increasing" THEN 1 ELSE iteration[h]
      refined  == Narrow(pre[h], new)
      stable   == ~ widening /\ DecreasingFixpoint(pre[h], refined)
  IN  /\ at <= Len(items) /\ item.type = "end"
      /\ \/ /\ widening
            /\ Analyze(h, Extrapolate(h, iteration[h], pre[h], new))
            /\ iteration' = [iteration EXCEPT ![h] = NextIteration(@)]
            /\ at' = PositionOf(items, h) + 1
            /\ UNCHANGED kind
         \/ /\ ~ widening /\ ~ stable
            /\ Analyze(h, refined)
            /\ kind' = [kind EXCEPT ![h] = "decreasing"]
            /\ iteration' = [iteration EXCEPT ![h] = NextIteration(turn)]
            /\ at' = PositionOf(items, h) + 1
         \/ /\ stable
            /\ pre' = [pre EXCEPT ![h] = refined]
            /\ kind' = [kind EXCEPT ![h] = "decreasing"]
            /\ at' = at + 1
            /\ UNCHANGED <<post, iteration>>
      /\ UNCHANGED input

Ended == at > Len(items)

Next == VisitVertex \/ EnterCycle \/ EndCycle

Spec == Init /\ [][Next]_vars
------------------------------------------------------------------------------
(* Properties.                                                              *)

(* The result is a post-fixpoint of the equations of the program: "This     *)
(* class computes a fixpoint on a control flow graph".                      *)
PostFixpoint ==
  Ended =>
    /\ Leq(InitValue, pre[cfg.entry])
    /\ \A n \in Node :
         /\ Leq(AnalyzeNode(prog, n, pre[n]), post[n])
         /\ \A p \in CfgPred(cfg, n) : Leq(AnalyzeEdge(prog, p, n, post[p]), pre[n])
==============================================================================
