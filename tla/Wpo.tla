--------------------------------- MODULE Wpo ---------------------------------
(****************************************************************************)
(* The weak partial order (WPO) of a control flow graph, as the fixpoint    *)
(* iterators see it through the accessors of classes WpoNode and Wpo        *)
(* (core/include/ikos/core/fixpoint/wpo.hpp).                               *)
(*                                                                          *)
(* A control flow graph is a record                                         *)
(*   node   the set of basic blocks                                         *)
(*   entry  the entry block                                                 *)
(*   succ   for each block the sequence of its successors (the order of     *)
(*          GraphTrait::successor_begin decides the depth-first search)     *)
(*                                                                          *)
(* A WPO is a record of functions on its cells 0 .. size-1                  *)
(*   type   "plain", "head" or "exit"                                       *)
(*   node   the block of the cell (of its head, for an exit)                *)
(*   size   number of cells of the maximal component of a head or an exit   *)
(*   succ   scheduling constraints, and pred, the same constraints reversed *)
(*   outer  for an exit, a map from the cells of its component that have    *)
(*          predecessors outside of it to the number of those predecessors  *)
(*   comp   for an exit, the set of cells of its component (auxiliary: the  *)
(*          code stores only its size)                                      *)
(* and postDfn, a function on blocks.                                       *)
(****************************************************************************)
EXTENDS Integers, FiniteSets, Sequences

------------------------------------------------------------------------------
(* The control flow graph.                                                  *)

CfgSucc(g, n) == {g.succ[n][i] : i \in 1..Len(g.succ[n])}
CfgPred(g, n) == {m \in g.node : n \in CfgSucc(g, m)}

------------------------------------------------------------------------------
(* Accessors of class Wpo.                                                  *)

Cells(w)        == DOMAIN w.type
Heads(w)        == {c \in Cells(w) : w.type[c] = "head"}
Exits(w)        == {c \in Cells(w) : w.type[c] = "exit"}
GetEntry(w)     == Cardinality(Cells(w)) - 1
HeadOfExit(x)   == x + 1
ExitOfHead(h)   == h - 1
NumPreds(w, c)  == Cardinality(w.pred[c])

(* Faulty: <= takes the self-loop of a head for one of its inputs.          *)
IsFromOutsideFaulty(w, head, pred) == w.postDfn[head] <= w.postDfn[pred]

IsFromOutside(w, head, pred) == w.postDfn[head] < w.postDfn[pred]

(* The plain or head cell of block n: node_to_idx of the iterator's run.    *)
CellOf(w, n) == CHOOSE c \in Cells(w) : w.node[c] = n /\ w.type[c] # "exit"

------------------------------------------------------------------------------
(* The order that the scheduling constraints induce.  A set of cells is     *)
(* closed when it holds the predecessors of its members; what must have run *)
(* before c is what every closed set with the predecessors of c contains.   *)

ClosedSets(w) == {S \in SUBSET Cells(w) : \A c \in S : w.pred[c] \subseteq S}

Before(w) ==
  LET closed == ClosedSets(w)
  IN  [c \in Cells(w) |->
         LET after == {S \in closed : w.pred[c] \subseteq S}
         IN  {b \in Cells(w) : \A S \in after : b \in S}]

(* The cells of the component that exit x closes: those between its head    *)
(* and x.                                                                   *)
Component(w, x) ==
  LET h == HeadOfExit(x)
      before == Before(w)
  IN  {c \in Cells(w) : /\ c = h \/ h \in before[c]
                        /\ c = x \/ c \in before[x]}

------------------------------------------------------------------------------
(* What the iterators rely on.  Each part is one sentence of the contract   *)
(* between the construction of the WPO and its users.                       *)

(* The cells are the indices of an array of plain, head and exit cells.     *)
CellsNumbered(w) ==
  /\ IsFiniteSet(Cells(w))
  /\ Cells(w) = 0..GetEntry(w)
  /\ \A c \in Cells(w) : w.type[c] \in {"plain", "head", "exit"}

(* The constraints are stored consistently at both of their ends.           *)
ConstraintsPaired(w) ==
  \A c \in Cells(w) :
     /\ w.succ[c] \subseteq Cells(w)
     /\ w.pred[c] \subseteq Cells(w)
     /\ \A s \in Cells(w) : s \in w.succ[c] <=> c \in w.pred[s]

(* Running a cell after its predecessors, as long as possible, runs all of  *)
(* the cells: the constraints have no cycle.                                *)
ConstraintsWellFounded(w) ==
  \A S \in SUBSET Cells(w) :
     (\A c \in Cells(w) : w.pred[c] \subseteq S => c \in S) => S = Cells(w)

(* The entry of the order is the cell of the entry block, it has no         *)
(* predecessor, and every other cell has one.                               *)
EntryFirst(w, g) ==
  /\ GetEntry(w) \in Cells(w)
  /\ w.node[GetEntry(w)] = g.entry
  /\ w.type[GetEntry(w)] = "plain"
  /\ \A c \in Cells(w) : w.pred[c] = {} <=> c = GetEntry(w)

(* Exits and heads are neighbours in the array of cells, and a component    *)
(* is entered at its head first and left through its exit only.             *)
ComponentsNested(w) ==
  /\ \A h \in Heads(w) : ExitOfHead(h) \in Exits(w)
  /\ \A x \in Exits(w) :
        LET h == HeadOfExit(x)  C == w.comp[x]
        IN  /\ h \in Heads(w)
            /\ C = Component(w, x)
            /\ w.node[h] = w.node[x]
            /\ w.size[h] = Cardinality(C) /\ w.size[x] = Cardinality(C)
            /\ h \in C /\ x \in C
            /\ w.pred[x] \subseteq C \ {x}
            /\ w.pred[h] \cap C = {}
            /\ \A c \in C \ {h} : w.pred[c] \cap C # {}
            /\ \A c \in C \ {x} : w.succ[c] \subseteq C

(* An exit knows the cells of its component that wait for cells outside of  *)
(* it, and for how many.                                                    *)
OuterPredsExact(w) ==
  \A x \in Exits(w) :
     LET C == w.comp[x]
     IN  /\ DOMAIN w.outer[x] = {c \in C : w.pred[c] \ C # {}}
         /\ \A c \in DOMAIN w.outer[x] :
               w.outer[x][c] = Cardinality(w.pred[c] \ C)

(* Every block has one plain or head cell.                                  *)
BlocksCovered(w, g) ==
  /\ \A c \in Cells(w) : w.node[c] \in g.node
  /\ \A n \in g.node :
        /\ CellOf(w, n) \in Cells(w) \ Exits(w)
        /\ w.node[CellOf(w, n)] = n
        /\ \A c \in Cells(w) \ Exits(w) : w.node[c] = n => c = CellOf(w, n)

(* A cell reads the values of control flow predecessors that ran before it: *)
(* a plain cell of all of them, a head of those outside of its component,   *)
(* an exit of all the predecessors of its head.                             *)
DataOrdered(w, g) ==
  LET before == Before(w)
  IN  \A c \in Cells(w) : \A p \in CfgPred(g, w.node[c]) :
        \/ CellOf(w, p) \in before[c]
        \/ w.type[c] = "head" /\ ~ IsFromOutside(w, w.node[c], p)

WellFormed(w, g) ==
  /\ CellsNumbered(w)
  /\ ConstraintsPaired(w)
  /\ ConstraintsWellFounded(w)
  /\ EntryFirst(w, g)
  /\ ComponentsNested(w)
  /\ OuterPredsExact(w)
  /\ BlocksCovered(w, g)
  /\ DataOrdered(w, g)
==============================================================================
