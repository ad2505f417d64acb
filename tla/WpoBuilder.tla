------------------------------ MODULE WpoBuilder ------------------------------
(****************************************************************************)
(* The construction of the weak partial order as a state machine: one       *)
(* action per turn of the loops of construct_auxilary and construct_wpo     *)
(* (core/include/ikos/core/fixpoint/wpo.hpp), so that what holds between    *)
(* the turns can be stated.                                                 *)
(****************************************************************************)
EXTENDS WpoConstruction

CONSTANT InputGraphs     \* the control flow graphs under construction

(* The successors of a block are blocks of the same function.               *)
ASSUME GraphsFinite ==
  \A g \in InputGraphs :
    /\ IsFiniteSet(g.node) /\ g.entry \in g.node
    /\ g.succ \in [g.node -> Seq(g.node)]

VARIABLES
  cfg,    \* the graph whose order is constructed
  dfs,    \* state of construct_auxilary: the depth-first search
  scc,    \* state of construct_wpo: the components found so far
  wpo,    \* the finished order
  phase   \* "dfs", "scc", "toplevel", "outer" or "done", afterwards "profile"

vars == <<cfg, dfs, scc, wpo, phase>>

None == [none |-> TRUE]      \* a variable of a phase that has not begun

------------------------------------------------------------------------------
(* The construction as a state machine.                                     *)

Init ==
  /\ cfg \in InputGraphs
  /\ scc = None
  /\ IF IsSingleton(cfg)
     THEN dfs = None /\ wpo = Singleton(cfg) /\ phase = "done"
     ELSE dfs = InitDfs(cfg) /\ wpo = None /\ phase = "dfs"

Top == Head(dfs.stack)

SearchFinish ==
  /\ phase = "dfs" /\ dfs.stack # <<>> /\ Top.finished
  /\ dfs' = FinishVertex(dfs)
  /\ UNCHANGED <<cfg, scc, wpo, phase>>

SearchSkip ==
  /\ phase = "dfs" /\ dfs.stack # <<>> /\ ~ Top.finished
  /\ dfs.dfn[Top.vertex] # 0
  /\ dfs' = SkipForward(dfs)
  /\ UNCHANGED <<cfg, scc, wpo, phase>>

SearchDiscover ==
  /\ phase = "dfs" /\ dfs.stack # <<>> /\ ~ Top.finished
  /\ dfs.dfn[Top.vertex] = 0
  /\ dfs' = DiscoverVertex(cfg, dfs)
  /\ UNCHANGED <<cfg, scc, wpo, phase>>

SearchEnd ==
  /\ phase = "dfs" /\ dfs.stack = <<>>
  /\ scc' = InitScc(dfs)
  /\ phase' = "scc"
  /\ UNCHANGED <<cfg, dfs, wpo>>

NextHead ==
  /\ phase = "scc"
  /\ scc' = SccStep(dfs, scc)
  /\ phase' = IF scc'.h = 0 THEN "toplevel" ELSE "scc"
  /\ UNCHANGED <<cfg, dfs, wpo>>

OrderToplevel ==
  /\ phase = "toplevel"
  /\ scc' = Toplevel(scc)
  /\ phase' = "outer"
  /\ UNCHANGED <<cfg, dfs, wpo>>

CountOuterPreds ==
  /\ phase = "outer"
  /\ wpo' = Finished(cfg, dfs, scc)
  /\ phase' = "done"
  /\ UNCHANGED <<cfg, dfs, scc>>

Next ==
  \/ SearchFinish \/ SearchSkip \/ SearchDiscover \/ SearchEnd
  \/ NextHead \/ OrderToplevel \/ CountOuterPreds

Spec == Init /\ [][Next]_vars

------------------------------------------------------------------------------
(* Properties.                                                              *)

Vertices == 1..NumBlocks(cfg)
Edges == {e \in Vertices \X Vertices :
            \E m \in cfg.node : \E n \in CfgSucc(cfg, m) :
               dfs.dfn[m] = e[1] /\ dfs.dfn[n] = e[2]}

(* The strongly connected component of v among the vertices from h upwards. *)
SccFrom(h, v) ==
  LET V    == {u \in Vertices : u >= h}
      succ == [u \in V |-> {t \in V : <<u, t>> \in Edges}]
      pred == [u \in V |-> {t \in V : <<t, u>> \in Edges}]
  IN  Reach(succ, {v}) \cap Reach(pred, {v})

(* Before a head is tried, the vertices after it are grouped into the       *)
(* strongly connected components of the subgraph that they span, each       *)
(* represented by its first vertex; the restored cross edges are as good as *)
(* the whole graph (construct_wpo, the loop over h).                        *)
PartitionExact ==
  phase \in {"scc", "toplevel", "outer"} =>
    \A v \in Vertices :
      scc.rep[v] = IF v <= scc.h THEN v ELSE Min(SccFrom(scc.h + 1, v))

(* The finished order is what the iterators rely on: acyclic, its           *)
(* components entered at the head and left at the exit, its outer           *)
(* predecessors counted exactly, its data dependencies ordered.             *)
WpoWellFormed == phase = "done" => WellFormed(wpo, cfg)

(* The blocks of a component are the strongly connected component of its    *)
(* head among the vertices discovered from the head on, and the blocks      *)
(* outside of all components lie on no cycle.                               *)
ComponentsAreSccs ==
  phase = "done" /\ dfs # None =>
    LET Numbers(C) == {dfs.dfn[wpo.node[c]] : c \in C}
    IN  /\ \A x \in Exits(wpo) :
             LET h == dfs.dfn[wpo.node[x]]
             IN  Numbers(wpo.comp[x]) = SccFrom(h, h)
        /\ \A e \in Edges :
             e[1] \in SccFrom(1, e[2]) =>
               \E x \in Exits(wpo) : {e[1], e[2]} \subseteq Numbers(wpo.comp[x])

(* The test the iterators use to tell the inputs of a loop from its back    *)
(* edges, a comparison of post-order numbers, tells whether the predecessor *)
(* lies in the component of the head.                                       *)
OutsideExact ==
  phase = "done" =>
    \A h \in Heads(wpo) : \A p \in CfgPred(cfg, wpo.node[h]) :
      IsFromOutside(wpo, wpo.node[h], p)
        <=> CellOf(wpo, p) \notin wpo.comp[ExitOfHead(h)]

(* The graphs that theorems about the whole order are limited to: each      *)
(* block can be reached from the entry, and, as in LLVM, none leads to it.  *)
AllReached(g) ==
  \A S \in SUBSET g.node :
    g.entry \in S /\ (\A m \in S : CfgSucc(g, m) \subseteq S) => S = g.node
EntryUntargeted(g) == \A m \in g.node : g.entry \notin CfgSucc(g, m)
GraphsEntered == \A g \in InputGraphs : AllReached(g) /\ EntryUntargeted(g)
==============================================================================
