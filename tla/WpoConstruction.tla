--------------------------- MODULE WpoConstruction ---------------------------
(****************************************************************************)
(* The construction of the weak partial order of a control flow graph:      *)
(* class WpoBuilder and the constructor of class Wpo                        *)
(* (core/include/ikos/core/fixpoint/wpo.hpp), with lift = false, the only   *)
(* value the iterator passes.                                               *)
(*                                                                          *)
(* The steps of the construction are operators on two records: the state d  *)
(* of the depth-first search and the state s of the search for components.  *)
(* BuildWpo iterates them; module WpoBuilder makes them actions.            *)
(*                                                                          *)
(* Vertices are named by their depth-first number (DFN), 1 .. NumBlocks(g). *)
(* The vectors of edges that the code only loops over are sets here.  A     *)
(* disjoint-set forest with a map on its representatives is the composed    *)
(* map: anc[v] stands for ancestor[dsets.find_set(v)], and rep[v] for       *)
(* rep[dsets.find_set(v)].                                                  *)
(****************************************************************************)
EXTENDS Wpo, FiniteSetsExt, SequencesExt

NumBlocks(g) == Cardinality(g.node)

(* What is reached from the set S along the edges v -> step[v], S included. *)
Reach(step, S) ==
  LET R[k \in Nat] == IF k = 0 THEN S
                      ELSE LET T == R[k - 1] IN T \cup UNION {step[v] : v \in T}
  IN  R[Cardinality(DOMAIN step)]

(* The elements of the sequence q that lie in S, in their order.            *)
Among(q, S) ==
  LET A[i \in 0..Len(q)] == IF i = 0 THEN <<>>
                             ELSE IF q[i] \in S THEN Append(A[i - 1], q[i]) ELSE A[i - 1]
  IN  A[Len(q)]

------------------------------------------------------------------------------
(* construct_auxilary: an iterative depth-first search.  The stack holds    *)
(* its top first.  Sets of vertices are merged into their parent when they  *)
(* are finished, so anc of a black vertex is its lowest common ancestor     *)
(* with the vertex being discovered (Tarjan's off-line algorithm).          *)

InitDfs(g) ==
  LET V == 1..NumBlocks(g)
  IN  [stack   |-> <<[vertex |-> g.entry, finished |-> FALSE, pred |-> 0]>>,
       next    |-> 1,
       dfn     |-> [n \in g.node |-> 0],
       nextPost|-> 1,
       post    |-> [n \in g.node |-> 0],
       black   |-> {},
       anc     |-> [v \in 0..NumBlocks(g) |-> v],
       cross   |-> [v \in V |-> {}],
       back    |-> [v \in V |-> {}],
       nonback |-> [v \in V |-> {}]]

(* All successors of the vertex on top are finished.                        *)
FinishVertex(d) ==
  LET top == Head(d.stack)
      v   == d.dfn[top.vertex]
  IN  [d EXCEPT !.stack    = Tail(@),
                !.post     = [@ EXCEPT ![top.vertex] = d.nextPost],
                !.nextPost = @ + 1,
                !.black    = @ \cup {v},
                !.anc      = [u \in DOMAIN @ |->
                                IF @[u] \in {@[v], @[top.pred]}
                                THEN top.pred ELSE @[u]]]

(* The vertex was discovered after it was pushed: a forward edge.           *)
SkipForward(d) == [d EXCEPT !.stack = Tail(@)]

(* A new vertex: classify its out-edges, and push the undiscovered ones.    *)
DiscoverVertex(g, d) ==
  LET top     == Head(d.stack)
      v       == d.next
      dfn     == [d.dfn EXCEPT ![top.vertex] = v]
      fresh   == Among(g.succ[top.vertex], {n \in g.node : dfn[n] = 0})
      old     == {dfn[n] : n \in CfgSucc(g, top.vertex)} \ {0}
      pushed  == [i \in 1..Len(fresh) |->
                    [vertex |-> fresh[i], finished |-> FALSE, pred |-> v]]
      waiting == [vertex |-> top.vertex, finished |-> TRUE, pred |-> top.pred]
  IN  [d EXCEPT !.stack   = pushed \o <<waiting>> \o Tail(@),
                !.next    = @ + 1,
                !.dfn     = dfn,
                !.cross   = [l \in DOMAIN @ |-> @[l] \cup
                               {<<v, u>> : u \in {t \in old \cap d.black :
                                                    d.anc[t] = l}}],
                !.back    = [u \in DOMAIN @ |->
                               IF u \in old \ d.black THEN @[u] \cup {v} ELSE @[u]],
                !.nonback = [u \in DOMAIN @ |->
                               IF u = v /\ top.pred # 0 THEN @[u] \cup {top.pred}
                                                        ELSE @[u]]]

DfsStep(g, d) ==
  LET top == Head(d.stack)
  IN  IF top.finished THEN FinishVertex(d)
      ELSE IF d.dfn[top.vertex] # 0 THEN SkipForward(d)
      ELSE DiscoverVertex(g, d)

------------------------------------------------------------------------------
(* construct_wpo: nested components, innermost first.                       *)
(*   h        the next head to try, in reverse depth-first order            *)
(*   rep      minimum DFN of the component a vertex was merged into         *)
(*   exit     DFN of the exit of a head, the vertex itself if it is trivial *)
(*   origin   the original non-back edges that now target a component       *)
(*   d2i      index of a DFN in space;  space  the cells, in order          *)
(*   links    the scheduling constraints; exit and outer say where the      *)
(*            construction found them (_for_outer_preds)                    *)

InitScc(d) ==
  LET V == DOMAIN d.back  N == Cardinality(V)
  IN  [h       |-> N,
       nonback |-> d.nonback,
       rep     |-> [v \in V |-> v],
       exit    |-> [v \in V |-> v],
       origin  |-> [v \in V |-> {<<u, v>> : u \in d.nonback[v]}],
       size    |-> [v \in V |-> 0],
       d2i     |-> [v \in 1..(2 * N) |-> 0],
       next    |-> N + 1,
       space   |-> <<>>,
       parent  |-> [i \in 0..(2 * N - 1) |-> 0],
       links   |-> {}]

(* add_node *)
AddNode(s, v, head, type, size) ==
  [s EXCEPT !.d2i   = [@ EXCEPT ![v] = Len(s.space)],
            !.space = Append(@, [vertex |-> head, type |-> type, size |-> size])]

(* add_successor, for a set of constraints: a constraint that exists is not *)
(* added again, nor counted again as an outer predecessor.                  *)
Link(s, from, to, exit, outer) ==
  [from |-> s.d2i[from], to |-> s.d2i[to], exit |-> s.d2i[exit], outer |-> outer]

AddSuccessors(s, ls) ==
  [s EXCEPT !.links = @ \cup
     {l \in ls : ~ \E k \in s.links : k.from = l.from /\ k.to = l.to}]

(* The constraints of the original edges into the component of v.           *)
EdgesInto(s, v) ==
  {Link(s, s.exit[s.rep[e[1]]], e[2], s.exit[v], s.exit[v] # v) :
     e \in s.origin[v]}

(* Faulty: only the constraints of a restored edge are kept, and the search *)
(* for the components that reach h does not follow it.                      *)
RestoreCrossFaulty(d, s) ==
  LET Into(v) == {e \in d.cross[s.h] : s.rep[e[2]] = v}
  IN  [s EXCEPT !.origin  = [v \in DOMAIN @ |-> @[v] \cup Into(v)]]

(* Cross edges whose lowest common ancestor is h enter the search now.      *)
RestoreCross(d, s) ==
  LET Into(v) == {e \in d.cross[s.h] : s.rep[e[2]] = v}
  IN  [s EXCEPT !.nonback = [v \in DOMAIN @ |-> @[v] \cup {e[1] : e \in Into(v)}],
                !.origin  = [v \in DOMAIN @ |-> @[v] \cup Into(v)]]

(* Faulty: a self-loop is the only back edge that is looked at.             *)
BackPredsFaulty(d, s) == {}

BackPreds(d, s) == {s.rep[v] : v \in d.back[s.h] \ {s.h}}

(* The components that reach a back edge of h without passing through h.    *)
NestedSccs(d, s) ==
  LET predsOf == [v \in DOMAIN s.rep |-> {s.rep[p] : p \in s.nonback[v]} \ {s.h}]
  IN  Reach(predsOf, BackPreds(d, s))

TrivialScc(s) ==
  LET t == AddNode(s, s.h, s.h, "plain", 1)
  IN  [t EXCEPT !.size = [@ EXCEPT ![s.h] = 1], !.h = @ - 1]

ComponentScc(d, s) ==
  LET h      == s.h
      x      == s.next
      nested == NestedSccs(d, s)
      size   == 2 + SumFunctionOnSet(s.size, nested)
      nodes  == AddNode(AddNode(s, x, h, "exit", size), h, h, "head", size)
      toExit == {Link(nodes, p, x, x, FALSE) :
                   p \in IF BackPreds(d, s) = {} THEN {h}
                         ELSE {s.exit[v] : v \in BackPreds(d, s)}}
      linked == AddSuccessors(AddSuccessors(nodes, toExit),
                              UNION {EdgesInto(nodes, v) : v \in nested})
  IN  [linked EXCEPT
         !.rep    = [v \in DOMAIN @ |-> IF @[v] \in nested THEN h ELSE @[v]],
         !.parent = [i \in DOMAIN @ |->
                       IF \E v \in nested : linked.d2i[v] = i
                       THEN linked.d2i[h] ELSE @[i]],
         !.exit   = [@ EXCEPT ![h] = x],
         !.size   = [@ EXCEPT ![h] = size],
         !.next   = @ + 1,
         !.h      = @ - 1]

(* One round of the loop over heads.                                        *)
SccStep(d, s) ==
  LET r == RestoreCross(d, s)
  IN  IF d.back[s.h] = {} THEN TrivialScc(r) ELSE ComponentScc(d, r)

(* The maximal components are ordered last.                                 *)
Toplevel(s) ==
  LET tops == {v \in DOMAIN s.rep : s.rep[v] = v}
      t    == AddSuccessors(s, UNION {EdgesInto(s, v) : v \in tops})
  IN  [t EXCEPT !.parent = [i \in DOMAIN @ |->
                              IF \E v \in tops : s.d2i[v] = i THEN i ELSE @[i]]]

(* Faulty: the exit of the innermost component of c only.                   *)
ExitsUpToFaulty(s, c, last) ==
  {(IF s.space[c + 1].type = "head" THEN c ELSE s.parent[c]) - 1}

(* The exits whose component gains c as a cell with an outer predecessor:   *)
(* from the innermost component of c outwards, up to exit last.             *)
ExitsUpTo(s, c, last) ==
  LET up[h \in DOMAIN s.parent] ==
        {h - 1} \cup IF h - 1 = last THEN {} ELSE up[s.parent[h]]
  IN  up[IF s.space[c + 1].type = "head" THEN c ELSE s.parent[c]]

(* The cells of the component that exit x closes: those that the parents    *)
(* lead from to its head.                                                   *)
Inside(s, x) ==
  LET headOf(c) == IF s.space[c + 1].type = "exit" THEN c + 1 ELSE c
      up[c \in DOMAIN s.parent] ==
        {c} \cup IF s.parent[c] = c THEN {} ELSE up[s.parent[c]]
  IN  {c \in 0..(Len(s.space) - 1) : HeadOfExit(x) \in up[headOf(c)]}

(* The finished order, with the outer predecessors counted.                 *)
Finished(g, d, s) ==
  LET C == 0..(Len(s.space) - 1)
      Cell(c) == s.space[c + 1]
      Block(v) == CHOOSE n \in g.node : d.dfn[n] = v
      Outer(x) == {l \in s.links : l.outer /\ x \in ExitsUpTo(s, l.to, l.exit)}
      X == {c \in C : Cell(c).type = "exit"}
  IN  [type    |-> [c \in C |-> Cell(c).type],
       node    |-> [c \in C |-> Block(Cell(c).vertex)],
       size    |-> [c \in C |-> Cell(c).size],
       succ    |-> [c \in C |-> {l.to : l \in {k \in s.links : k.from = c}}],
       pred    |-> [c \in C |-> {l.from : l \in {k \in s.links : k.to = c}}],
       outer   |-> [x \in X |->
                      [c \in {l.to : l \in Outer(x)} |->
                         Cardinality({l \in Outer(x) : l.to = c})]],
       comp    |-> [x \in X |-> Inside(s, x)],
       postDfn |-> d.post]

(* The constructor of Wpo treats a graph with one block apart.              *)
Singleton(g) ==
  LET Only(value) == [c \in {0} |-> value]
  IN  [type |-> Only("plain"), node |-> Only(g.entry), size |-> Only(1),
       succ |-> Only({}), pred |-> Only({}), outer |-> <<>>, comp |-> <<>>,
       postDfn |-> [n \in g.node |-> 0]]

------------------------------------------------------------------------------
(* The construction as a function: what the constructor of Wpo returns.     *)

IsSingleton(g) == g.succ[g.entry] = <<>>

(* Equal to d and s: with @@ TLC tabulates the functions in them once.      *)
TabulatedDfs(d) ==
  [d EXCEPT !.dfn = @ @@ <<>>, !.post = @ @@ <<>>, !.anc = @ @@ <<>>,
            !.cross = @ @@ <<>>, !.back = @ @@ <<>>, !.nonback = @ @@ <<>>]
TabulatedScc(s) ==
  [s EXCEPT !.nonback = @ @@ <<>>, !.rep = @ @@ <<>>, !.exit = @ @@ <<>>,
            !.origin = @ @@ <<>>, !.size = @ @@ <<>>, !.d2i = @ @@ <<>>,
            !.parent = @ @@ <<>>]

BuildWpo(g) ==
  LET edges == UNION {{n} \X CfgSucc(g, n) : n \in g.node}
      D[k \in Nat] == IF k = 0 THEN InitDfs(g)
                      ELSE LET d == TabulatedDfs(D[k - 1])
                           IN  IF d.stack = <<>> THEN d ELSE DfsStep(g, d)
      d0 == TabulatedDfs(D[1 + NumBlocks(g) + Cardinality(edges)])
      S[k \in Nat] == IF k = 0 THEN InitScc(d0)
                      ELSE LET s == TabulatedScc(S[k - 1]) IN SccStep(d0, s)
  IN  IF IsSingleton(g) THEN Singleton(g)
      ELSE Finished(g, d0, Toplevel(TabulatedScc(S[NumBlocks(g)])))
==============================================================================
