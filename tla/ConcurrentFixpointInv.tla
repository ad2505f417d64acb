------------------------- MODULE ConcurrentFixpointInv -------------------------
(****************************************************************************)
(* The inductive invariants of the concurrent iterator.  That of the        *)
(* scheduler says why the counters are exact: the cells that have run are   *)
(* closed under the scheduling constraints, a cell is scheduled only when   *)
(* all of its predecessors have run and told so, and while the counters of  *)
(* a component are restored nothing else happens in it.  That of the values *)
(* says why the result is a post-fixpoint: what has run is covered, and a   *)
(* refinement uncovers nothing.                                             *)
(****************************************************************************)
EXTENDS ConcurrentFixpoint

(* The graph and its order never change.                                    *)
InputFixed == prog \in Programs /\ cfg = CfgOf[prog] /\ wpo = WpoOf[prog]

(* What the locals of a worker are at each place of Body::operator().       *)
LocalOK(w) ==
  /\ pc[w] = "idle" => wl[w] = <<>>
  /\ pc[w] \notin {"loop", "restore"} => todo[w] = {}
  /\ pc[w] = "loop" => todo[w] \subseteq Succ(cur[w])
  /\ pc[w] = "analyze" => Type(cur[w]) # "exit"
  /\ pc[w] = "unstable" => Type(cur[w]) = "exit"
  /\ pc[w] \in {"read", "reset", "unstable"} /\ Type(cur[w]) = "exit" => cell[w] = cur[w]
  /\ pc[w] = "restore" =>
       /\ cell[w] \in Exits(wpo)
       /\ cur[w] = HeadOfExit(cell[w])
       /\ todo[w] \subseteq DOMAIN wpo.outer[cell[w]]

LocalsOK == \A w \in Workers : LocalOK(w)

(* What has run is closed under the constraints.                            *)
DoneClosed == \A c \in done : Pred(c) \subseteq done

(* A cell that is scheduled or runs has not run yet, its predecessors have, *)
(* and all of them have told so.                                            *)
ActiveReady ==
  \A c \in Cell : Active(c) => c \notin done /\ Notified(c) = Pred(c)

(* A cell that is still to be told waits, and each of its predecessors      *)
(* tells it once.                                                           *)
PendingOnce ==
  /\ \A w \in Workers : pc[w] = "loop" /\ todo[w] # {} => cur[w] \in done
  /\ \A w \in Workers : pc[w] = "loop" =>
       \A s \in todo[w] : s \notin done /\ ~ Active(s)
  /\ \A v, w \in Workers :
       /\ pc[v] = "loop" /\ pc[w] = "loop" /\ cur[v] = cur[w]
       /\ todo[v] # {} /\ todo[w] # {}
       => v = w

(* While worker w restores the counters of a component nothing of it has    *)
(* run, is scheduled or is told, except for its head, which w runs next;    *)
(* and all that its cells wait for outside of it has run.                   *)
ComponentQuiet ==
  \A w \in Workers : pc[w] = "restore" =>
    LET x == cell[w]
    IN  \A c \in Comp(x) :
          /\ c \notin done
          /\ c # HeadOfExit(x) => ~ Active(c)
          /\ Pred(c) \ Comp(x) \subseteq done
          /\ \A v \in Workers : pc[v] = "loop" => c \notin todo[v]

(* A loop that is left is as if it had never been entered.                  *)
LoopsFresh ==
  \A x \in Exits(wpo) :
    x \in done \/ (\E w \in Workers : pc[w] = "reset" /\ cur[w] = x)
      => kind[HeadOfExit(x)] = "increasing" /\ count[HeadOfExit(x)] = 0

(* When parallel_do has returned nothing is scheduled and nobody runs.      *)
FinishedQuiet ==
  finished => /\ \A c \in Cell : pool[c] = 0
              /\ \A w \in Workers : pc[w] = "idle"

(* The inductive invariant of the scheduler.                                *)
SchedulerInv ==
  /\ InputFixed
  /\ TypeOK
  /\ LocalsOK
  /\ DoneClosed
  /\ ActiveReady
  /\ PendingOnce
  /\ ComponentQuiet
  /\ LoopsFresh
  /\ FinishedQuiet
  /\ Exclusive
  /\ CountersExact
------------------------------------------------------------------------------
(* What the values need.                                                    *)

(* Leq is the inclusion of abstract values, the joins and the extrapolation *)
(* cover both of their arguments, and the narrowing refines its first       *)
(* argument and covers a second one that is below it                        *)
(* (core/domain/abstract_domain.hpp).                                       *)
ASSUME DomainLaws ==
  /\ \A a \in Value : Leq(a, a)
  /\ \A a, b, c \in Value : Leq(a, b) /\ Leq(b, c) => Leq(a, c)
  /\ \A a, b \in Value :
       /\ Leq(a, Join(a, b)) /\ Leq(b, Join(a, b))
       /\ Leq(a, JoinLoop(a, b)) /\ Leq(b, JoinLoop(a, b))
       /\ Leq(a, JoinIter(a, b)) /\ Leq(b, JoinIter(a, b))
       /\ Leq(a, Widen(a, b)) /\ Leq(b, Widen(a, b))
       /\ Leq(Narrow(a, b), a)
       /\ Leq(b, a) => Leq(b, Narrow(a, b))
       /\ \A p \in Programs : \A n \in CfgOf[p].node :
            /\ Leq(a, WidenThreshold(p, n, a, b))
            /\ Leq(b, WidenThreshold(p, n, a, b))

(* The domain is a lattice: the joins are least upper bounds.               *)
ASSUME JoinsLeast ==
  /\ \A a \in Value : Leq(Bottom, a)
  /\ \A a, b, c \in Value :
       Leq(a, c) /\ Leq(b, c) => Leq(Join(a, b), c) /\ Leq(JoinLoop(a, b), c)

(* The transfer functions of edges are monotone: exec_edge takes the normal *)
(* or the exceptional part of a value (numerical.hpp) and inlines nothing.  *)
ASSUME EdgesMonotone ==
  \A p \in Programs : \A m, n \in CfgOf[p].node : \A a, b \in Value :
    Leq(a, b) => Leq(AnalyzeEdge(p, m, n, a), AnalyzeEdge(p, m, n, b))

(* The transfer function of block n is monotone.  That of a block that      *)
(* calls need not be: it contains fixpoints of callees, with widenings.     *)
NodeMonotone(n) ==
  \A a, b \in Value : Leq(a, b) => Leq(AnalyzeNode(prog, n, a), AnalyzeNode(prog, n, b))

(* The blocks whose invariant may be refined have monotone transfer         *)
(* functions: the heads, once their loop is stable, and in a domain that    *)
(* iterates its narrowing all blocks of the loops.                          *)
RefinedMonotone ==
  \A x \in Exits(wpo) : \A c \in Comp(x) :
    HasNarrowing(prog) \/ c = HeadOfExit(x) => NodeMonotone(Block(c))

(* The edge from block p to block n, and block n.                           *)
EdgeValue(p, n) == AnalyzeEdge(prog, p, n, post[p])
EdgesCovered(n) == \A p \in CfgPred(cfg, n) : Leq(EdgeValue(p, n), pre[n])
NodeCovered(n)  == Leq(AnalyzeNode(prog, n, pre[n]), post[n])

(* The initial state is below the invariant of the entry, also while the    *)
(* inputs of the entry are joined.                                          *)
EntryCovered ==
  /\ Leq(InitValue, pre[cfg.entry])
  /\ \A w \in Workers :
       pc[w] = "read" /\ Type(cur[w]) = "plain" /\ Block(cur[w]) = cfg.entry
         => Leq(InitValue, acc[w].in)

(* A worker that reads has joined all but the unread inputs.                *)
ReadsCovered ==
  \A w \in Workers : pc[w] = "read" =>
    LET n == Block(cur[w])
    IN  /\ unread[w] \subseteq Inputs(cur[w])
        /\ \A p \in CfgPred(cfg, n) \ unread[w] :
             /\ Type(cur[w]) = "plain" => Leq(EdgeValue(p, n), acc[w].in)
             /\ Type(cur[w]) = "exit" => \/ Leq(EdgeValue(p, n), acc[w].in)
                                        \/ Leq(EdgeValue(p, n), acc[w].back)

(* The rule of worker w has set the invariant of the block of a plain cell, *)
(* or of a loop that it leaves.                                             *)
HasJoined(w) ==
  \/ pc[w] = "analyze" /\ Type(cur[w]) = "plain"
  \/ pc[w] = "reset" /\ Type(cur[w]) # "head"

(* The invariant of a block covers its inputs when its plain cell, or the   *)
(* exit of its loop, has run, or is run and has set it.                     *)
InputsCovered ==
  /\ \A c \in done : Type(c) # "head" => EdgesCovered(Block(c))
  /\ \A w \in Workers : HasJoined(w) => EdgesCovered(Block(cur[w]))

(* The invariants of a block that has been analyzed cover the block, but    *)
(* for the head of a loop that is about to be repeated.                     *)
NodesCovered ==
  /\ \A c \in done : \/ Type(c) = "exit"
                     \/ \E w \in Workers : pc[w] = "unstable" /\ Block(cur[w]) = Block(c)
                     \/ NodeCovered(Block(c))
  /\ \A w \in Workers : pc[w] = "reset" /\ Type(cur[w]) # "exit"
       => NodeCovered(Block(cur[w]))

(* A loop decreases after its first iteration only, and with a narrowing    *)
(* only.                                                                    *)
DecreasesLater ==
  /\ \A x \in Exits(wpo) : kind[HeadOfExit(x)] = "decreasing" =>
       count[HeadOfExit(x)] # 0 /\ HasNarrowing(prog)
  /\ \A w \in Workers : pc[w] = "read" /\ Type(cur[w]) = "head" => count[cur[w]] = 0

(* A loop without loops inside.                                             *)
Innermost(x) == \A c \in Comp(x) \ {x, HeadOfExit(x)} : Type(c) = "plain"

(* Worker w has read all the inputs of exit x in a decreasing iteration,    *)
(* and what it has joined is below the invariant that it refines.           *)
Refines(w, x) == /\ pc[w] = "read" /\ unread[w] = {} /\ cur[w] = x
                 /\ kind[HeadOfExit(x)] = "decreasing"
Descends(w, x) == Leq(JoinLoop(acc[w].in, acc[w].back), pre[Block(x)])

OuterRefinementsDescend ==
  \A w \in Workers : \A x \in Exits(wpo) :
    Refines(w, x) /\ ~ Innermost(x) => Descends(w, x)

(* While an innermost loop is refined, its blocks stay covered, and what    *)
(* has run before the loop stays.                                           *)
LoopsDescend ==
  \A x \in Exits(wpo) :
    Innermost(x) /\ kind[HeadOfExit(x)] = "decreasing" =>
      /\ \A c \in Comp(x) : Pred(c) \ Comp(x) \subseteq done
      /\ \A c \in Comp(x) \ {x} : NodeCovered(Block(c)) /\ EdgesCovered(Block(c))
      /\ \A w \in Workers : pc[w] = "read" /\ cur[w] \in Comp(x) =>
           Leq(acc[w].in, pre[Block(cur[w])]) /\ Leq(acc[w].back, pre[Block(cur[w])])

(* The inductive invariant of the values, next to SchedulerInv and          *)
(* DecreasesLater, as long as the refinements of outer loops descend.       *)
ValuesInv ==
  /\ EntryCovered
  /\ ReadsCovered
  /\ InputsCovered
  /\ NodesCovered
  /\ LoopsDescend

(* While the iterator runs, the invariants cover what has run: the initial  *)
(* state, the edges into a block once its cell or the exit of its loop has  *)
(* run, the block once it is analyzed, and the blocks of an innermost loop  *)
(* while it is refined; and what a refinement joins is below what it        *)
(* refines (process_pre, process_post, refine).                             *)
InvariantsCover == DecreasesLater /\ OuterRefinementsDescend /\ ValuesInv
==============================================================================
