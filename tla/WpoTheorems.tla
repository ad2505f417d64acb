------------------------------ MODULE WpoTheorems ------------------------------
(****************************************************************************)
(* What follows from the contract WellFormed between the construction of a  *)
(* weak partial order and the iterators, for every order: the facts on      *)
(* which the proofs about the iterators rest.                               *)
(****************************************************************************)
EXTENDS Wpo, FiniteSetTheorems, TLAPS

(* The cells are finitely many numbers, each of one of three types and at a *)
(* block of the graph, and the entry is one of them.                        *)
LEMMA CellFacts ==
  ASSUME NEW w, NEW g, WellFormed(w, g)
  PROVE  /\ IsFiniteSet(Cells(w)) /\ Cells(w) \subseteq Nat
         /\ GetEntry(w) \in Cells(w)
         /\ \A c \in Cells(w) : /\ w.type[c] \in {"plain", "head", "exit"}
                                /\ w.node[c] \in g.node
         /\ w.type[GetEntry(w)] = "plain"
         /\ w.node[GetEntry(w)] = g.entry
         /\ w.pred[GetEntry(w)] = {}
         /\ \A c \in Cells(w) : c # GetEntry(w) => w.pred[c] # {}
  BY DEF WellFormed, CellsNumbered, EntryFirst, BlocksCovered

(* The constraints link cells, and no cell waits for itself.                *)
LEMMA ConstraintFacts ==
  ASSUME NEW w, NEW g, WellFormed(w, g)
  PROVE  /\ \A c \in Cells(w) : w.succ[c] \subseteq Cells(w) /\ w.pred[c] \subseteq Cells(w)
         /\ \A c, s \in Cells(w) : s \in w.succ[c] <=> c \in w.pred[s]
  BY DEF WellFormed, ConstraintsPaired

(* The number of the predecessors of a cell is a number.                    *)
LEMMA PredsFinite ==
  ASSUME NEW w, NEW g, WellFormed(w, g), NEW c \in Cells(w)
  PROVE  IsFiniteSet(w.pred[c]) /\ NumPreds(w, c) \in Nat
<1>1. IsFiniteSet(w.pred[c])
  BY CellFacts, ConstraintFacts, FS_Subset
<1> QED  BY <1>1, FS_CardinalityType DEF NumPreds

(* A set that holds every cell whose predecessors it holds is all of them.  *)
LEMMA AllCells ==
  ASSUME NEW w, NEW g, WellFormed(w, g), NEW S \in SUBSET Cells(w),
         \A c \in Cells(w) : w.pred[c] \subseteq S => c \in S
  PROVE  S = Cells(w)
  BY DEF WellFormed, ConstraintsWellFounded

(* The shape of a component.                                                *)
LEMMA ComponentFacts ==
  ASSUME NEW w, NEW g, WellFormed(w, g), NEW x \in Exits(w)
  PROVE  LET h == HeadOfExit(x)  C == w.comp[x]
         IN  /\ C \subseteq Cells(w)
             /\ h \in Heads(w) /\ h \in Cells(w) /\ h # x
             /\ w.type[h] = "head" /\ w.type[x] = "exit"
             /\ w.node[h] = w.node[x]
             /\ h \in C /\ x \in C /\ x \in Cells(w)
             /\ w.pred[h] \cap C = {}
             /\ \A c \in C \ {h} : w.pred[c] \cap C # {}
             /\ \A c \in C \ {x} : w.succ[c] \subseteq C
<1>1. w.comp[x] = Component(w, x)
  BY DEF WellFormed, ComponentsNested
<1>2. w.comp[x] \subseteq Cells(w)
  BY <1>1 DEF Component
<1>3. x \in Cells(w) /\ w.type[x] = "exit"
  BY DEF Exits
<1>4. HeadOfExit(x) \in Heads(w)
  BY DEF WellFormed, ComponentsNested
<1>5. HeadOfExit(x) \in Cells(w) /\ w.type[HeadOfExit(x)] = "head"
  BY <1>4 DEF Heads
<1>6. HeadOfExit(x) # x
  BY <1>3, <1>5
<1> QED  BY <1>2, <1>3, <1>4, <1>5, <1>6 DEF WellFormed, ComponentsNested

(* When everything an exit waits for has run, its whole component has.      *)
LEMMA ComponentBeforeExit ==
  ASSUME NEW w, NEW g, WellFormed(w, g), NEW x \in Exits(w),
         NEW D \in SUBSET Cells(w), \A c \in D : w.pred[c] \subseteq D,
         w.pred[x] \subseteq D
  PROVE  w.comp[x] \ {x} \subseteq D
<1>1. w.comp[x] = Component(w, x)
  BY DEF WellFormed, ComponentsNested
<1>2. D \in ClosedSets(w)
  BY DEF ClosedSets
<1>3. x \in Cells(w)
  BY DEF Exits
<1> DEFINE after == {S \in ClosedSets(w) : w.pred[x] \subseteq S}
<1>4. Before(w)[x] = {b \in Cells(w) : \A S \in after : b \in S}
  BY <1>3 DEF Before
<1>5. D \in after
  BY <1>2
<1>6. \A c \in w.comp[x] : c = x \/ c \in Before(w)[x]
  BY <1>1 DEF Component
<1> QED  BY <1>4, <1>5, <1>6

(* What an exit knows of the outer predecessors of its component.           *)
LEMMA OuterFacts ==
  ASSUME NEW w, NEW g, WellFormed(w, g), NEW x \in Exits(w)
  PROVE  /\ DOMAIN w.outer[x] \subseteq w.comp[x]
         /\ \A c \in w.comp[x] : c \in DOMAIN w.outer[x] <=> w.pred[c] \ w.comp[x] # {}
         /\ \A c \in DOMAIN w.outer[x] :
              /\ w.outer[x][c] = Cardinality(w.pred[c] \ w.comp[x])
              /\ w.outer[x][c] \in Nat
<1>1. DOMAIN w.outer[x] = {c \in w.comp[x] : w.pred[c] \ w.comp[x] # {}}
  BY DEF WellFormed, OuterPredsExact
<1>2. \A c \in DOMAIN w.outer[x] : w.outer[x][c] = Cardinality(w.pred[c] \ w.comp[x])
  BY DEF WellFormed, OuterPredsExact
<1>3. ASSUME NEW c \in DOMAIN w.outer[x]
      PROVE  w.outer[x][c] \in Nat
  <2>1. c \in Cells(w)
    BY <1>1, ComponentFacts
  <2>2. IsFiniteSet(w.pred[c] \ w.comp[x])
    BY <2>1, PredsFinite, FS_Subset
  <2> QED  BY <1>2, <2>2, FS_CardinalityType
<1> QED  BY <1>1, <1>2, <1>3

(* Cells at the same block are one cell, or a head and its exit.            *)
LEMMA SameBlock ==
  ASSUME NEW w, NEW g, WellFormed(w, g),
         NEW c \in Cells(w), NEW d \in Cells(w), w.node[c] = w.node[d]
  PROVE  \/ c = d
         \/ c \in Exits(w) /\ d = HeadOfExit(c)
         \/ d \in Exits(w) /\ c = HeadOfExit(d)
<1>1. \A a, b \in Cells(w) \ Exits(w) : w.node[a] = w.node[b] => a = b
  BY DEF WellFormed, BlocksCovered
<1>2. \A x \in Exits(w) : /\ HeadOfExit(x) \in Cells(w) \ Exits(w)
                          /\ w.node[HeadOfExit(x)] = w.node[x]
  BY ComponentFacts DEF Exits
<1>3. \A x, y \in Exits(w) : HeadOfExit(x) = HeadOfExit(y) => x = y
  BY CellFacts DEF HeadOfExit, Exits
<1> QED  BY <1>1, <1>2, <1>3

(* A set closed under the constraints that holds what cell c waits for      *)
(* holds the cell of every block whose invariant c reads.                   *)
LEMMA InputsBefore ==
  ASSUME NEW w, NEW g, WellFormed(w, g), NEW c \in Cells(w),
         NEW D \in SUBSET Cells(w), \A d \in D : w.pred[d] \subseteq D,
         w.pred[c] \subseteq D,
         NEW p \in CfgPred(g, w.node[c]),
         w.type[c] = "head" => IsFromOutside(w, w.node[c], p)
  PROVE  CellOf(w, p) \in D
<1>1. CellOf(w, p) \in Before(w)[c]
  BY DEF WellFormed, DataOrdered
<1>2. D \in ClosedSets(w)
  BY DEF ClosedSets
<1> DEFINE after == {S \in ClosedSets(w) : w.pred[c] \subseteq S}
<1>3. Before(w)[c] = {b \in Cells(w) : \A S \in after : b \in S}
  BY DEF Before
<1> QED  BY <1>1, <1>2, <1>3

(* The cell of a plain or head cell's block is that cell.                   *)
LEMMA CellOfBlock ==
  ASSUME NEW w, NEW g, WellFormed(w, g), NEW c \in Cells(w), w.type[c] # "exit"
  PROVE  CellOf(w, w.node[c]) = c
  BY DEF WellFormed, BlocksCovered, Exits
==============================================================================
