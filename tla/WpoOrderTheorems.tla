-------------------------- MODULE WpoOrderTheorems ---------------------------
(****************************************************************************)
(* The weak partial order that WpoBuilder returns keeps the contract of its *)
(* users.  The cells, their parents and their components after each turn of *)
(* construct_wpo, from the invariant of the search (WpoBuilderTheorems);    *)
(* what the components of the finished order are, what the post-order       *)
(* numbers tell, and between which cells there are constraints.             *)
(*                                                                          *)
(* LoopOf(g, d, k) is the strongly connected component of k among the       *)
(* vertices from k upwards.  Every component that construct_wpo finds is one*)
(* of these: a strongly connected component of the vertices from h upwards  *)
(* is that of its first vertex (SccOfFirst).  Hence the components are      *)
(* nested, and the one of the largest head below a vertex is the innermost. *)
(* A constraint comes from an edge, at the level of the innermost loop that *)
(* contains both of its ends (Meet).                                        *)
(****************************************************************************)
EXTENDS WpoBuilderTheorems

------------------------------------------------------------------------------
(* The post-order numbers of the depth-first search.                        *)

(* The entry has the number 1, once it is discovered.                       *)
RootOK(g, d) == IF d.next = 1 THEN d.stack[1].vertex = g.entry ELSE d.dfn[g.entry] = 1

(* A vertex is finished after its descendants, and before what is           *)
(* discovered later and is no descendant.                                   *)
PostOK(g, d) ==
  /\ \A n \in g.node : d.dfn[n] \in d.black => d.post[n] < d.nextPost
  /\ \A m, n \in g.node :
       d.dfn[m] \in d.black /\ d.dfn[n] \in d.black /\ d.dfn[m] < d.dfn[n] =>
         IF d.dfn[m] \in Up(d, d.dfn[n]) THEN d.post[n] < d.post[m] ELSE d.post[m] < d.post[n]

Posted(g, d) == RootOK(g, d) /\ PostOK(g, d)

(* The search keeps that: at its beginning, ...                             *)
LEMMA PostInit == ASSUME NEW g, IsGraph(g) PROVE Posted(g, InitDfs(g))
BY DEF InitDfs, Posted, RootOK, PostOK

(* ... when the top of the stack was discovered meanwhile, ...              *)
LEMMA PostSkip ==
  ASSUME NEW g, NEW d, IsGraph(g), SearchInv(g, d), Posted(g, d), d.stack # <<>>,
         ~ Head(d.stack).finished, d.dfn[Head(d.stack).vertex] # 0
  PROVE  Posted(g, SkipForward(d))
<1> DEFINE e == SkipForward(d)
<1>1. d \in SearchStates(g) /\ StackOK(g, d) /\ NumberingOK(g, d)
  BY DEF SearchInv
<1>2. /\ e.next = d.next /\ e.dfn = d.dfn /\ e.black = d.black /\ e.post = d.post
      /\ e.nextPost = d.nextPost /\ e.nonback = d.nonback
  BY <1>1 DEF SkipForward, SearchStates
<1> HIDE DEF e
<1>3. d.next # 1
  <2>1. Head(d.stack).vertex \in g.node /\ d.dfn \in [g.node -> 0..NumBlocks(g)]
        /\ NumBlocks(g) \in Nat
    BY <1>1, TopOfStack, SearchTypes
  <2>2. d.dfn[Head(d.stack).vertex] < d.next /\ d.dfn[Head(d.stack).vertex] \in Nat
    BY <1>1, <2>1 DEF NumberingOK
  <2> QED BY <2>2
<1> QED BY <1>2, <1>3 DEF Posted, RootOK, PostOK, Up, e

(* ... when a vertex is finished: its descendants are the last ones that    *)
(* were, ...                                                                *)
LEMMA PostFinish ==
  ASSUME NEW g, NEW d, IsGraph(g), SearchInv(g, d), Posted(g, d), d.stack # <<>>,
         Head(d.stack).finished
  PROVE  Posted(g, FinishVertex(d))
<1> DEFINE top == Head(d.stack)
           v == d.dfn[top.vertex]
           e == FinishVertex(d)
<1>1. d \in SearchStates(g) /\ OrderOK(d) /\ NumberingOK(g, d) /\ TreeOK(g, d)
  BY DEF SearchInv
<1>2. top.vertex \in g.node /\ v \in Gray(d) /\ v \in Seen(d)
  BY TopOfStack
<1>3. d.next \in Nat /\ d.nextPost \in Nat /\ d.post \in [g.node -> Nat]
      /\ d.dfn \in [g.node -> 0..NumBlocks(g)] /\ NumBlocks(g) \in Nat
  <2>1. d.next \in 1..(NumBlocks(g) + 1) /\ NumBlocks(g) \in Nat
    BY <1>1, SearchTypes
  <2> QED BY <1>1, <2>1 DEF SearchStates
<1>4. /\ e.next = d.next /\ e.dfn = d.dfn /\ e.black = d.black \cup {v}
      /\ e.post = [d.post EXCEPT ![top.vertex] = d.nextPost]
      /\ e.nextPost = d.nextPost + 1 /\ e.nonback = d.nonback
  BY <1>1 DEF FinishVertex, SearchStates
<1> HIDE DEF e
<1>5. d.next # 1 /\ v # 0 /\ v \notin d.black
  BY <1>2, <1>3 DEF Seen, Gray
<1>6. \A n \in g.node : d.dfn[n] = v => n = top.vertex
  BY <1>1, <1>2, <1>5 DEF NumberingOK
<1> HIDE DEF v, top
<1>7. RootOK(g, e)
  BY <1>4, <1>5 DEF Posted, RootOK
<1>8. \A u : Up(e, u) = Up(d, u)
  BY <1>4 DEF Up
<1>9. e.post[top.vertex] = d.nextPost
      /\ \A n \in g.node : n # top.vertex => e.post[n] = d.post[n]
  BY <1>2, <1>3, <1>4
<1>10. \A n \in g.node : /\ d.dfn[n] \in d.black => n # top.vertex
                         /\ d.dfn[n] \in e.black => n = top.vertex \/ d.dfn[n] \in d.black
                         /\ d.dfn[n] \in d.black => d.post[n] < d.nextPost
  <2>1. d.dfn[top.vertex] = v
    BY DEF v
  <2> QED BY <1>4, <1>5, <1>6, <2>1 DEF Posted, PostOK
<1>11. \A n \in g.node : d.dfn[n] \in e.black => e.post[n] < e.nextPost
  BY <1>3, <1>4, <1>9, <1>10
<1>12. ASSUME NEW m \in g.node, NEW n \in g.node, d.dfn[m] \in e.black, d.dfn[n] \in e.black,
              d.dfn[m] < d.dfn[n]
       PROVE  IF d.dfn[m] \in Up(d, d.dfn[n]) THEN e.post[n] < e.post[m]
                                              ELSE e.post[m] < e.post[n]
  <2>0. d.dfn[top.vertex] = v /\ d.dfn[m] \in Nat /\ d.dfn[n] \in Nat /\ v \in Nat
    BY <1>2, <1>3 DEF v
  <2>1. CASE n = top.vertex
    <3>1. d.dfn[m] \in d.black /\ m # top.vertex
      BY <1>10, <1>12, <2>0, <2>1
    <3>2. d.dfn[m] \notin Up(d, v)
      BY <1>1, <1>2, <3>1 DEF OrderOK, Gray
    <3> QED BY <1>9, <1>10, <2>0, <2>1, <3>1, <3>2
  <2>2. CASE n # top.vertex
    <3>1. d.dfn[n] \in d.black
      BY <1>10, <1>12, <2>2
    <3>2. CASE m = top.vertex
      <4>1. d.dfn[n] \in Seen(d)
        BY <1>1, <3>1 DEF TreeOK
      <4>2. v <= d.dfn[n]
        BY <1>12, <2>0, <3>2
      <4>3. d.dfn[m] \in Up(d, d.dfn[n])
        BY <1>1, <1>2, <2>0, <3>2, <4>1, <4>2 DEF OrderOK
      <4> QED BY <1>9, <1>10, <2>2, <3>1, <3>2, <4>3
    <3>3. CASE m # top.vertex
      <4>1. d.dfn[m] \in d.black
        BY <1>10, <1>12, <3>3
      <4> QED BY <1>9, <1>12, <2>2, <3>1, <3>3, <4>1 DEF Posted, PostOK
    <3> QED BY <3>2, <3>3
  <2> QED BY <2>1, <2>2
<1>13. PostOK(g, e)
  BY <1>4, <1>8, <1>11, <1>12 DEF PostOK
<1> QED BY <1>7, <1>13 DEF Posted, e

(* ... and when a vertex is discovered.                                     *)
LEMMA PostDiscover ==
  ASSUME NEW g, NEW d, CanDiscover(g, d), Posted(g, d)
  PROVE  Posted(g, DiscoverVertex(g, d))
<1> DEFINE e == DiscoverVertex(g, d)
<1>1. Discovered(g, d, e)
  BY DiscoverEffect
<1>2. PICK v, x, p : Grown(g, d, e, v, x, p)
  BY <1>1, DiscoverGrows
<1>3. IsGraph(g) /\ d \in SearchStates(g) /\ StackOK(g, d) /\ SearchInv(g, d) /\ TreeOK(g, d)
      /\ d.stack # <<>>
  BY DEF CanDiscover, SearchInv
<1>4. e.post = d.post /\ e.nextPost = d.nextPost
  BY <1>3 DEF DiscoverVertex, SearchStates
<1> HIDE DEF e
<1>5. e.next = v + 1 /\ e.black = d.black /\ v = d.next /\ x = Head(d.stack).vertex
      /\ v \in Nat /\ v >= 1
  BY <1>1, <1>2 DEF Discovered, Grown
<1>6. x = d.stack[1].vertex /\ x \in g.node
  BY <1>3, <1>5, TopOfStack
<1>7. RootOK(g, e)
  <2>1. CASE v = 1
    <3>1. x = g.entry
      BY <1>5, <1>6, <2>1 DEF Posted, RootOK
    <3> QED BY <1>2, <1>5, <2>1, <3>1 DEF RootOK, Grown
  <2>2. CASE v # 1
    <3>1. d.dfn[g.entry] = 1
      BY <1>5, <2>2 DEF Posted, RootOK
    <3>2. g.entry # x /\ g.entry \in g.node
      BY <1>2, <1>3, <3>1 DEF Grown, IsGraph
    <3>3. e.dfn[g.entry] = 1
      BY <1>2, <3>1, <3>2 DEF Grown
    <3> QED BY <1>5, <3>3 DEF RootOK
  <2> QED BY <2>1, <2>2
<1>8. \A n \in g.node : e.dfn[n] \in d.black => e.dfn[n] = d.dfn[n] /\ n # x
  <2>1. \A w \in d.black : w # v
    BY <1>2, <1>3 DEF TreeOK, Grown
  <2> QED BY <1>2, <2>1 DEF Grown
<1>9. \A w \in d.black : Up(e, w) = Up(d, w)
  BY <1>2, <1>3 DEF TreeOK, Grown
<1>10. PostOK(g, e)
  BY <1>4, <1>5, <1>8, <1>9 DEF Posted, PostOK
<1> QED BY <1>7, <1>10 DEF Posted, e

------------------------------------------------------------------------------
(* What construct_wpo stores of the components that it has found.           *)

(* Component k, with its head: what is strongly connected to k among the    *)
(* vertices from k upwards.  It is the vertex alone if k heads no loop.     *)
LoopOf(g, d, k) == Scc(g, d, k, k)
Cyclic(d) == {k \in DOMAIN d.back : d.back[k] # {}}

(* The cells by their index: vertex, kind, and the exit of a component.     *)
Indices(s) == 0..(Len(s.space) - 1)
VertexAt(s, c) == s.space[c + 1].vertex
TypeAt(s, c) == s.space[c + 1].type
LastOf(s, v) == s.d2i[s.exit[v]]
Within(g, d, s, k) == {c \in Indices(s) : VertexAt(s, c) \in LoopOf(g, d, k)}
CellSet(g) == [vertex : Numbers(g), type : {"plain", "head", "exit"}, size : Nat]

(* The types of the fields.                                                 *)
FieldsOK(g, s) ==
  LET N == NumBlocks(g)
  IN  /\ s.h \in 0..N
      /\ s.next \in (N + 1)..(2 * N + 1 - s.h)
      /\ s.space \in Seq(CellSet(g)) /\ Len(s.space) <= 2 * (N - s.h)
      /\ s.d2i \in [1..(2 * N) -> Nat]
      /\ s.exit \in [Numbers(g) -> 1..(2 * N)]
      /\ s.size \in [Numbers(g) -> Nat]
      /\ s.parent \in [0..(2 * N - 1) -> 0..(2 * N - 1)]
      /\ s.origin \in [Numbers(g) -> SUBSET (Numbers(g) \X Numbers(g))]

(* Each vertex from h + 1 upwards has its cells, and there are no others.   *)
(* The exit of a loop precedes its head; the last vertex has the last cell. *)
CellsOK(g, d, s) ==
  /\ \A v \in Numbers(g) : v <= s.h => s.exit[v] = v
  /\ \A v \in From(g, s.h + 1) :
       /\ s.d2i[v] \in Indices(s) /\ VertexAt(s, s.d2i[v]) = v
       /\ v \notin Cyclic(d) => s.exit[v] = v /\ TypeAt(s, s.d2i[v]) = "plain"
       /\ v \in Cyclic(d) =>
            /\ s.exit[v] \in (NumBlocks(g) + 1)..(s.next - 1) /\ TypeAt(s, s.d2i[v]) = "head"
            /\ LastOf(s, v) \in Indices(s) /\ LastOf(s, v) = s.d2i[v] - 1
            /\ VertexAt(s, LastOf(s, v)) = v /\ TypeAt(s, LastOf(s, v)) = "exit"
  /\ \A c \in Indices(s) :
       LET v == VertexAt(s, c)
       IN  /\ v \in From(g, s.h + 1)
           /\ (TypeAt(s, c) # "exit" /\ c = s.d2i[v]) \/ (v \in Cyclic(d) /\ c = LastOf(s, v))
  /\ s.h < NumBlocks(g) => s.d2i[s.h + 1] = Len(s.space) - 1

------------------------------------------------------------------------------
(* The fields after each step of construct_wpo.                             *)

(* add_successor compares the ends of constraints only.                     *)
SameKey(k, l) == k.from = l.from /\ k.to = l.to

(* new is old with the constraints ls that are not in old yet.              *)
Added(old, ls, new) ==
  /\ old \subseteq new /\ new \subseteq old \cup ls
  /\ \A l \in ls : \E k \in new : SameKey(k, l)
  /\ \A l \in new : l \in old \/ \A k \in old : ~ SameKey(k, l)

(* The constraints that a component adds: to its exit, and inside.          *)
ExitLinks(D, from, x) ==
  {[from |-> D[p], to |-> D[x], exit |-> D[x], outer |-> FALSE] : p \in from}

InnerLink(D, exit, rep, v, e) ==
  [from |-> D[exit[rep[e[1]]]], to |-> D[e[2]], exit |-> D[exit[v]], outer |-> exit[v] # v]

InnerLinks(D, exit, rep, origin, R) ==
  UNION {{InnerLink(D, exit, rep, v, e) : e \in origin[v]} : v \in R}

(* The origins with the cross edges restored at h.                          *)
AlsoInto(d, h, rep, origin) ==
  [v \in DOMAIN origin |-> origin[v] \cup {e \in d.cross[h] : rep[e[2]] = v}]

(* Adding constraints changes nothing else.                                 *)
LinksAdded(s, ls, t) ==
  /\ Added(s.links, ls, t.links) /\ IsScc(t)
  /\ t.h = s.h /\ t.nonback = s.nonback /\ t.rep = s.rep /\ t.exit = s.exit
  /\ t.origin = s.origin /\ t.size = s.size /\ t.d2i = s.d2i /\ t.next = s.next
  /\ t.space = s.space /\ t.parent = s.parent

LEMMA AddOnce == ASSUME NEW s, IsScc(s), NEW ls PROVE LinksAdded(s, ls, AddSuccessors(s, ls))
<1> DEFINE new == s.links \cup {l \in ls : ~ \E k \in s.links : k.from = l.from /\ k.to = l.to}
<1>1. AddSuccessors(s, ls) = [s EXCEPT !.links = new]
  BY DEF AddSuccessors
<1>2. Added(s.links, ls, new)
  <2>1. \A l \in ls : \E k \in new : SameKey(k, l)
    BY DEF SameKey
  <2> QED BY <2>1 DEF Added, SameKey
<1> HIDE DEF new
<1> QED BY <1>1, <1>2 DEF IsScc, SccFields, LinksAdded

(* Two additions are one.                                                   *)
LEMMA AddTwice ==
  ASSUME NEW old, NEW l1, NEW mid, NEW l2, NEW new, Added(old, l1, mid), Added(mid, l2, new)
  PROVE  Added(old, l1 \cup l2, new)
BY DEF Added, SameKey

(* A turn for a vertex that heads no loop.                                  *)
TrivialStep(d, s, t) ==
  /\ IsScc(t) /\ t.h = s.h - 1 /\ t.rep = s.rep /\ t.exit = s.exit /\ t.next = s.next
  /\ t.parent = s.parent /\ t.links = s.links
  /\ t.nonback = Restored(d, s.h, s.rep, s.nonback)
  /\ t.origin = AlsoInto(d, s.h, s.rep, s.origin)
  /\ t.size = [s.size EXCEPT ![s.h] = 1]
  /\ t.d2i = [s.d2i EXCEPT ![s.h] = Len(s.space)]
  /\ t.space = Append(s.space, [vertex |-> s.h, type |-> "plain", size |-> 1])

(* A turn for the head of a loop.                                           *)
ComponentStep(d, s, t) ==
  LET h  == s.h
      x  == s.next
      nonback == Restored(d, h, s.rep, s.nonback)
      origin  == AlsoInto(d, h, s.rep, s.origin)
      R  == Nested(d, h, s.rep, nonback)
      B  == Targets(d, h, s.rep)
      size == 2 + SumFunctionOnSet(s.size, R)
      D  == [[s.d2i EXCEPT ![x] = Len(s.space)] EXCEPT ![h] = Len(s.space) + 1]
      from == IF B = {} THEN {h} ELSE {s.exit[v] : v \in B}
  IN  /\ IsScc(t) /\ t.h = h - 1 /\ t.next = x + 1
      /\ t.rep = Merged(h, s.rep, R) /\ t.exit = [s.exit EXCEPT ![h] = x]
      /\ t.parent = [i \in DOMAIN s.parent |-> IF \E v \in R : D[v] = i THEN D[h] ELSE s.parent[i]]
      /\ Added(s.links, ExitLinks(D, from, x) \cup InnerLinks(D, s.exit, s.rep, origin, R), t.links)
      /\ t.nonback = nonback /\ t.origin = origin
      /\ t.size = [s.size EXCEPT ![h] = size] /\ t.d2i = D
      /\ t.space = Append(Append(s.space, [vertex |-> h, type |-> "exit", size |-> size]),
                          [vertex |-> h, type |-> "head", size |-> size])

(* The effect of add_node.                                                  *)
NodeAdded(s, v, head, type, size, t) ==
  /\ IsScc(t) /\ t.h = s.h /\ t.nonback = s.nonback /\ t.rep = s.rep /\ t.exit = s.exit
  /\ t.origin = s.origin /\ t.size = s.size /\ t.links = s.links /\ t.next = s.next
  /\ t.parent = s.parent /\ t.d2i = [s.d2i EXCEPT ![v] = Len(s.space)]
  /\ t.space = Append(s.space, [vertex |-> head, type |-> type, size |-> size])

LEMMA AddNodeEffect ==
  ASSUME NEW s, IsScc(s), NEW v, NEW head, NEW type, NEW size
  PROVE  NodeAdded(s, v, head, type, size, AddNode(s, v, head, type, size))
<1> DEFINE D == [s.d2i EXCEPT ![v] = Len(s.space)]
           more == Append(s.space, [vertex |-> head, type |-> type, size |-> size])
<1>1. AddNode(s, v, head, type, size) = [s EXCEPT !.d2i = D, !.space = more]
  BY DEF AddNode
<1> HIDE DEF D, more
<1>2. LET t == [s EXCEPT !.d2i = D, !.space = more]
         IN  /\ IsScc(t) /\ t.h = s.h /\ t.nonback = s.nonback /\ t.rep = s.rep /\ t.exit = s.exit
             /\ t.origin = s.origin /\ t.size = s.size /\ t.links = s.links /\ t.next = s.next
             /\ t.parent = s.parent /\ t.d2i = D /\ t.space = more
  BY DEF IsScc, SccFields
<1> QED BY <1>1, <1>2 DEF D, more, NodeAdded

LEMMA RestoreFields ==
  ASSUME NEW d, NEW s, IsScc(s)
  PROVE  LET r == RestoreCross(d, s)
         IN  /\ IsScc(r) /\ r.h = s.h /\ r.rep = s.rep /\ r.exit = s.exit /\ r.size = s.size
             /\ r.d2i = s.d2i /\ r.next = s.next /\ r.space = s.space /\ r.parent = s.parent
             /\ r.links = s.links /\ r.nonback = Restored(d, s.h, s.rep, s.nonback)
             /\ r.origin = AlsoInto(d, s.h, s.rep, s.origin)
<1> DEFINE Into(v) == {e \in d.cross[s.h] : s.rep[e[2]] = v}
           more == [v \in DOMAIN s.nonback |-> s.nonback[v] \cup {e[1] : e \in Into(v)}]
           orig == [v \in DOMAIN s.origin |-> s.origin[v] \cup Into(v)]
<1>1. RestoreCross(d, s) = [s EXCEPT !.nonback = more, !.origin = orig]
  BY DEF RestoreCross
<1>2. more = Restored(d, s.h, s.rep, s.nonback) /\ orig = AlsoInto(d, s.h, s.rep, s.origin)
  BY DEF Restored, AlsoInto
<1> HIDE DEF more, orig
<1> QED BY <1>1, <1>2 DEF IsScc, SccFields

LEMMA TrivialFields ==
  ASSUME NEW d, NEW s, IsScc(s), d.back[s.h] = {}
  PROVE  TrivialStep(d, s, SccStep(d, s))
<1> DEFINE r == RestoreCross(d, s)
           a == AddNode(r, r.h, r.h, "plain", 1)
           sizes == [a.size EXCEPT ![r.h] = 1]
<1>1. SccStep(d, s) = [a EXCEPT !.size = sizes, !.h = @ - 1]
  BY DEF SccStep, TrivialScc
<1>2. /\ IsScc(r) /\ r.h = s.h /\ r.rep = s.rep /\ r.exit = s.exit /\ r.size = s.size
      /\ r.d2i = s.d2i /\ r.next = s.next /\ r.space = s.space /\ r.parent = s.parent
      /\ r.links = s.links /\ r.nonback = Restored(d, s.h, s.rep, s.nonback)
      /\ r.origin = AlsoInto(d, s.h, s.rep, s.origin)
  BY RestoreFields
<1> HIDE DEF r
<1> DEFINE added == NodeAdded(r, r.h, r.h, "plain", 1, a)
<1>0. added
  BY <1>2, AddNodeEffect
<1>3. /\ IsScc(a) /\ a.h = r.h /\ a.nonback = r.nonback /\ a.rep = r.rep /\ a.exit = r.exit
      /\ a.origin = r.origin /\ a.size = r.size /\ a.links = r.links /\ a.next = r.next
      /\ a.parent = r.parent /\ a.d2i = [r.d2i EXCEPT ![r.h] = Len(r.space)]
      /\ a.space = Append(r.space, [vertex |-> r.h, type |-> "plain", size |-> 1])
  <2> HIDE DEF a
  <2> QED BY <1>0 DEF NodeAdded
<1>4. sizes = [s.size EXCEPT ![s.h] = 1]
  BY <1>2, <1>3
<1> HIDE DEF a, sizes
<1>5. LET t == SccStep(d, s)
      IN  /\ IsScc(t) /\ t.h = a.h - 1 /\ t.rep = a.rep /\ t.exit = a.exit /\ t.next = a.next
          /\ t.parent = a.parent /\ t.links = a.links /\ t.nonback = a.nonback
          /\ t.origin = a.origin /\ t.size = sizes /\ t.d2i = a.d2i /\ t.space = a.space
  BY <1>1, <1>3 DEF IsScc, SccFields
<1> QED BY <1>2, <1>3, <1>4, <1>5 DEF TrivialStep

LEMMA AppendLen ==
  ASSUME NEW X, NEW q \in Seq(X), NEW e
  PROVE  Len(Append(q, e)) = Len(q) + 1
<1>1. q \in Seq(X \cup {e})
  OBVIOUS
<1> QED BY <1>1, AppendProperties

LEMMA ComponentFields ==
  ASSUME NEW d, NEW s, IsScc(s), d.back[s.h] # {}, NEW X, s.space \in Seq(X)
  PROVE  ComponentStep(d, s, SccStep(d, s))
<1> DEFINE r == RestoreCross(d, s)
           h == r.h
           x == r.next
           nested == NestedSccs(d, r)
           size == 2 + SumFunctionOnSet(r.size, nested)
           first == AddNode(r, x, h, "exit", size)
           nodes == AddNode(first, h, h, "head", size)
           from == IF BackPreds(d, r) = {} THEN {h} ELSE {r.exit[v] : v \in BackPreds(d, r)}
           toExit == {Link(nodes, p, x, x, FALSE) : p \in from}
           into == UNION {EdgesInto(nodes, v) : v \in nested}
           some == AddSuccessors(nodes, toExit)
           linked == AddSuccessors(some, into)
           parents == [i \in DOMAIN linked.parent |->
                       IF \E v \in nested : linked.d2i[v] = i
                       THEN linked.d2i[h] ELSE linked.parent[i]]
           reps == [v \in DOMAIN linked.rep |-> IF linked.rep[v] \in nested THEN h ELSE linked.rep[v]]
           exits == [linked.exit EXCEPT ![h] = x]
           sizes == [linked.size EXCEPT ![h] = size]
           D == [[s.d2i EXCEPT ![x] = Len(s.space)] EXCEPT ![h] = Len(s.space) + 1]
           t == SccStep(d, s)
<1>1. SccStep(d, s) = [linked EXCEPT !.rep = reps, !.parent = parents, !.exit = exits,
                                     !.size = sizes, !.next = @ + 1, !.h = @ - 1]
  BY DEF SccStep, ComponentScc
<1>2. /\ IsScc(r) /\ r.h = s.h /\ r.rep = s.rep /\ r.exit = s.exit /\ r.size = s.size
      /\ r.d2i = s.d2i /\ r.next = s.next /\ r.space = s.space /\ r.parent = s.parent
      /\ r.links = s.links /\ r.nonback = Restored(d, s.h, s.rep, s.nonback)
      /\ r.origin = AlsoInto(d, s.h, s.rep, s.origin)
  BY RestoreFields
<1>3. nested = Nested(d, r.h, r.rep, r.nonback) /\ BackPreds(d, r) = Targets(d, r.h, r.rep)
  BY DEF NestedSccs, Nested, PredsOf, BackPreds, Targets
<1> HIDE DEF r, nested, size
<1>31. NodeAdded(r, x, h, "exit", size, first)
  BY <1>2, AddNodeEffect
<1> HIDE DEF first
<1>4. /\ IsScc(first) /\ first.h = r.h /\ first.nonback = r.nonback /\ first.rep = r.rep
      /\ first.exit = r.exit /\ first.origin = r.origin /\ first.size = r.size
      /\ first.links = r.links /\ first.next = r.next /\ first.parent = r.parent
      /\ first.d2i = [r.d2i EXCEPT ![x] = Len(r.space)]
      /\ first.space = Append(r.space, [vertex |-> h, type |-> "exit", size |-> size])
  BY <1>31 DEF NodeAdded
<1>41. NodeAdded(first, h, h, "head", size, nodes)
  BY <1>4, AddNodeEffect
<1> HIDE DEF nodes
<1>5. /\ IsScc(nodes) /\ nodes.h = first.h /\ nodes.nonback = first.nonback /\ nodes.rep = first.rep
      /\ nodes.exit = first.exit /\ nodes.origin = first.origin /\ nodes.size = first.size
      /\ nodes.links = first.links /\ nodes.next = first.next /\ nodes.parent = first.parent
      /\ nodes.d2i = [first.d2i EXCEPT ![h] = Len(first.space)]
      /\ nodes.space = Append(first.space, [vertex |-> h, type |-> "head", size |-> size])
  BY <1>41 DEF NodeAdded
<1> HIDE DEF toExit, into
<1>51. LinksAdded(nodes, toExit, some)
  BY <1>5, AddOnce
<1> HIDE DEF some
<1>6. /\ Added(nodes.links, toExit, some.links) /\ IsScc(some)
      /\ some.h = nodes.h /\ some.nonback = nodes.nonback /\ some.rep = nodes.rep
      /\ some.exit = nodes.exit /\ some.origin = nodes.origin /\ some.size = nodes.size
      /\ some.d2i = nodes.d2i /\ some.next = nodes.next
      /\ some.space = nodes.space /\ some.parent = nodes.parent
  BY <1>51 DEF LinksAdded
<1>61. LinksAdded(some, into, linked)
  BY <1>6, AddOnce
<1> HIDE DEF linked
<1>7. /\ Added(some.links, into, linked.links) /\ IsScc(linked)
      /\ linked.h = some.h /\ linked.nonback = some.nonback /\ linked.rep = some.rep
      /\ linked.exit = some.exit /\ linked.origin = some.origin /\ linked.size = some.size
      /\ linked.d2i = some.d2i /\ linked.next = some.next
      /\ linked.space = some.space /\ linked.parent = some.parent
  BY <1>61 DEF LinksAdded
<1> HIDE DEF reps, parents, exits, sizes
<1>8. Added(s.links, toExit \cup into, linked.links)
  BY <1>2, <1>4, <1>5, <1>6, <1>7, AddTwice
<1>9.     /\ IsScc(t) /\ t.h = linked.h - 1 /\ t.next = linked.next + 1 /\ t.rep = reps
          /\ t.exit = exits /\ t.parent = parents /\ t.links = linked.links
          /\ t.nonback = linked.nonback /\ t.origin = linked.origin /\ t.size = sizes
          /\ t.d2i = linked.d2i /\ t.space = linked.space
  BY <1>1, <1>7 DEF IsScc, SccFields
<1>10. nodes.d2i = [[s.d2i EXCEPT ![x] = Len(s.space)] EXCEPT ![h] = Len(first.space)]
       /\ nodes.exit = s.exit /\ nodes.rep = s.rep /\ nodes.origin = r.origin
  BY <1>2, <1>4, <1>5
<1>11. linked.d2i = nodes.d2i /\ linked.rep = s.rep /\ linked.parent = s.parent
       /\ linked.exit = s.exit /\ linked.size = s.size
  BY <1>2, <1>4, <1>5, <1>6, <1>7
<1>12. toExit = ExitLinks(nodes.d2i, from, x)
  <2>1. \A p \in from : Link(nodes, p, x, x, FALSE)
          = [from |-> nodes.d2i[p], to |-> nodes.d2i[x], exit |-> nodes.d2i[x], outer |-> FALSE]
    BY DEF Link
  <2> HIDE DEF from
  <2> QED BY <2>1 DEF toExit, ExitLinks
<1>13. into = InnerLinks(nodes.d2i, s.exit, s.rep, r.origin, nested)
  <2>1. \A v \in nested : EdgesInto(nodes, v)
          = {InnerLink(nodes.d2i, s.exit, s.rep, v, e) : e \in r.origin[v]}
    BY <1>10 DEF EdgesInto, Link, InnerLink
  <2> QED BY <2>1 DEF into, InnerLinks
<1>14. reps = Merged(s.h, s.rep, nested) /\ exits = [s.exit EXCEPT ![s.h] = s.next]
       /\ sizes = [s.size EXCEPT ![s.h] = size]
  BY <1>2, <1>11 DEF reps, exits, sizes, Merged
<1>15. parents = [i \in DOMAIN s.parent |-> IF \E v \in nested : nodes.d2i[v] = i
                                             THEN nodes.d2i[h] ELSE s.parent[i]]
  BY <1>11 DEF parents
<1>16. from = IF Targets(d, s.h, s.rep) = {} THEN {s.h}
              ELSE {s.exit[v] : v \in Targets(d, s.h, s.rep)}
  BY <1>2, <1>3
<1>17. Len(first.space) = Len(s.space) + 1
  BY <1>2, <1>4, AppendLen
<1>18. size = 2 + SumFunctionOnSet(s.size, nested)
  BY <1>2 DEF size
<1>19. nodes.d2i = D
  BY <1>2, <1>10, <1>17 DEF D
<1>20. nested = Nested(d, s.h, s.rep, Restored(d, s.h, s.rep, s.nonback))
  BY <1>2, <1>3
<1>21. t.space = Append(Append(s.space, [vertex |-> s.h, type |-> "exit", size |-> size]),
                        [vertex |-> s.h, type |-> "head", size |-> size])
  BY <1>2, <1>4, <1>5, <1>6, <1>7, <1>9
<1> HIDE DEF from, D, t
<1>22. t.parent = [i \in DOMAIN s.parent |-> IF \E v \in nested : D[v] = i
                                             THEN D[s.h] ELSE s.parent[i]]
  BY <1>2, <1>9, <1>15, <1>19
<1>23. Added(s.links, ExitLinks(D, from, s.next)
                        \cup InnerLinks(D, s.exit, s.rep, AlsoInto(d, s.h, s.rep, s.origin), nested),
             t.links)
  BY <1>2, <1>8, <1>9, <1>12, <1>13, <1>19
<1>24. /\ IsScc(t) /\ t.h = s.h - 1 /\ t.next = s.next + 1
       /\ t.rep = Merged(s.h, s.rep, nested) /\ t.exit = [s.exit EXCEPT ![s.h] = s.next]
       /\ t.nonback = Restored(d, s.h, s.rep, s.nonback)
       /\ t.origin = AlsoInto(d, s.h, s.rep, s.origin)
       /\ t.size = [s.size EXCEPT ![s.h] = size] /\ t.d2i = D
  <2>1. linked.h = s.h /\ linked.next = s.next /\ linked.nonback = r.nonback
        /\ linked.origin = r.origin
    BY <1>2, <1>4, <1>5, <1>6, <1>7
  <2> QED BY <1>2, <1>9, <1>11, <1>14, <1>19, <2>1
<1>25. D = [[s.d2i EXCEPT ![s.next] = Len(s.space)] EXCEPT ![s.h] = Len(s.space) + 1]
  BY <1>2 DEF D
<1> HIDE DEF h, x
<1>26. ComponentStep(d, s, t)
  <2> DEFINE N == Nested(d, s.h, s.rep, Restored(d, s.h, s.rep, s.nonback))
             B == Targets(d, s.h, s.rep)
             O == AlsoInto(d, s.h, s.rep, s.origin)
  <2>1. nested = N /\ size = 2 + SumFunctionOnSet(s.size, N)
    BY <1>18, <1>20
  <2>2. from = IF B = {} THEN {s.h} ELSE {s.exit[v] : v \in B}
    BY <1>16
  <2> HIDE DEF N, B, O
  <2>3. ComponentStep(d, s, t) <=>
          /\ IsScc(t) /\ t.h = s.h - 1 /\ t.next = s.next + 1
          /\ t.rep = Merged(s.h, s.rep, N) /\ t.exit = [s.exit EXCEPT ![s.h] = s.next]
          /\ t.parent = [i \in DOMAIN s.parent |-> IF \E v \in N : D[v] = i THEN D[s.h] ELSE s.parent[i]]
          /\ Added(s.links, ExitLinks(D, from, s.next) \cup InnerLinks(D, s.exit, s.rep, O, N), t.links)
          /\ t.nonback = Restored(d, s.h, s.rep, s.nonback) /\ t.origin = O
          /\ t.size = [s.size EXCEPT ![s.h] = size] /\ t.d2i = D
          /\ t.space = Append(Append(s.space, [vertex |-> s.h, type |-> "exit", size |-> size]),
                              [vertex |-> s.h, type |-> "head", size |-> size])
    BY <1>25, <2>1, <2>2 DEF ComponentStep, N, B, O
  <2> QED BY <1>21, <1>22, <1>23, <1>24, <2>1, <2>3 DEF O
<1> QED BY <1>26 DEF t

------------------------------------------------------------------------------
(* The components of the graph from a vertex upwards, of all levels.        *)

(* Whether the vertex below takes part makes no difference to a component   *)
(* that does not hold it.                                                   *)
LEMMA SccAbove ==
  ASSUME NEW g, IsGraph(g), NEW d, NEW h \in Numbers(g), NEW v \in From(g, h + 1),
         h \notin Scc(g, d, h, v)
  PROVE  Scc(g, d, h + 1, v) = Scc(g, d, h, v)
<1>1. h \in Nat /\ h + 1 \in Nat /\ h \in From(g, h) /\ v \in From(g, h) /\ v # h
  BY DEF Numbers, From
<1>2. ~ (Conn(g, d, h, v, h) /\ Conn(g, d, h, h, v))
  BY <1>1, Components
<1>3. \A x, y, z \in From(g, h) :
        Conn(g, d, h, x, y) /\ Conn(g, d, h, y, z) => Conn(g, d, h, x, z)
  BY <1>1, Connected
<1>4. ASSUME NEW t \in Scc(g, d, h, v) PROVE t \in Scc(g, d, h + 1, v)
  <2>1. t \in From(g, h) /\ Conn(g, d, h, v, t) /\ Conn(g, d, h, t, v)
    BY <1>1, Components
  <2>2. t # h
    BY <1>2, <2>1
  <2>3. t \in From(g, h + 1)
    BY <1>1, <2>1, <2>2 DEF From, Numbers
  <2>4. Conn(g, d, h + 1, v, t)
    <3>1. Conn(g, d, h + 1, v, t) \/ (Conn(g, d, h, v, h) /\ Conn(g, d, h, h, t))
      BY <2>1, ConnectedAbove
    <3> QED BY <1>1, <1>2, <1>3, <2>1, <3>1
  <2>5. Conn(g, d, h + 1, t, v)
    <3>1. Conn(g, d, h + 1, t, v) \/ (Conn(g, d, h, t, h) /\ Conn(g, d, h, h, v))
      BY <2>1, <2>3, ConnectedAbove
    <3> QED BY <1>1, <1>2, <1>3, <2>1, <3>1
  <2> QED BY <1>1, <2>3, <2>4, <2>5, Components
<1>5. ASSUME NEW t \in Scc(g, d, h + 1, v) PROVE t \in Scc(g, d, h, v)
  <2>1. t \in From(g, h + 1) /\ Conn(g, d, h + 1, v, t) /\ Conn(g, d, h + 1, t, v)
    BY <1>1, Components
  <2>2. t \in From(g, h) /\ Conn(g, d, h, v, t) /\ Conn(g, d, h, t, v)
    BY <2>1, ConnectedAbove
  <2> QED BY <1>1, <2>2, Components
<1> QED BY <1>4, <1>5

(* A component is that of its first vertex among the vertices after it.     *)
LEMMA SccOfFirst ==
  ASSUME NEW g, IsGraph(g), NEW d, NEW h \in Numbers(g), NEW v \in From(g, h)
  PROVE  Scc(g, d, h, v) = LoopOf(g, d, Min(Scc(g, d, h, v)))
<1> DEFINE C == Scc(g, d, h, v)
           m == Min(C)
           T == {j \in Nat : h + j <= m => v \in From(g, h + j) /\ Scc(g, d, h + j, v) = C}
<1>1. h \in Nat /\ \A u \in Numbers(g) : u \in Nat
  BY DEF Numbers
<1>2. m \in C /\ (\A t \in C : m <= t) /\ v \in C /\ (\A t \in C : Scc(g, d, h, t) = C)
      /\ (\A t \in C : t \in From(g, h))
  BY <1>1, Components
<1> HIDE DEF C, m
<1>3. m \in Nat /\ m >= h /\ m \in Numbers(g) /\ v \in Nat /\ m <= v /\ v \in Numbers(g)
  BY <1>1, <1>2 DEF From
<1>4. 0 \in T
  BY <1>1 DEF C
<1>5. ASSUME NEW j \in T PROVE j + 1 \in T
  <2> SUFFICES ASSUME h + (j + 1) <= m
               PROVE  v \in From(g, h + (j + 1)) /\ Scc(g, d, h + (j + 1), v) = C
    OBVIOUS
  <2>1. j \in Nat /\ h + j <= m /\ h + j < m /\ h + (j + 1) = (h + j) + 1 /\ h + j \in Nat
    BY <1>1, <1>3
  <2>2. h + j \in Numbers(g)
    <3>1. NumBlocks(g) \in Nat /\ m <= NumBlocks(g) /\ h >= 1
      BY <1>3, FS_CardinalityType DEF Numbers, IsGraph, NumBlocks
    <3> QED BY <1>1, <2>1, <1>3, <3>1 DEF Numbers
  <2>3. Scc(g, d, h + j, v) = C
    BY <2>1
  <2>4. h + j \notin C
    BY <1>1, <1>2, <1>3, <2>1
  <2>5. v \in From(g, (h + j) + 1)
    BY <1>1, <1>3, <2>1 DEF From
  <2>6. Scc(g, d, (h + j) + 1, v) = Scc(g, d, h + j, v)
    <3> DEFINE k == h + j
    <3> HIDE DEF k
    <3>1. Scc(g, d, k + 1, v) = Scc(g, d, k, v)
      BY <2>2, <2>3, <2>4, <2>5, SccAbove DEF k
    <3> QED BY <3>1 DEF k
  <2> QED BY <2>1, <2>3, <2>5, <2>6
<1>6. T = Nat
  <2> HIDE DEF T
  <2>1. T \in SUBSET Nat
    BY DEF T
  <2> QED BY <1>4, <1>5, <2>1, SetInduction
<1>7. m - h \in T /\ h + (m - h) = m
  <2>1. m - h \in Nat
    BY <1>1, <1>3
  <2> HIDE DEF T
  <2> QED BY <1>1, <1>3, <1>6, <2>1
<1>8. v \in From(g, m) /\ Scc(g, d, m, v) = C
  BY <1>3, <1>7
<1>9. Scc(g, d, m, m) = C
  BY <1>2, <1>3, <1>8, Components
<1> QED BY <1>9 DEF LoopOf, C, m

(* The loops: the vertices that are connected with k among those after it.  *)
LoopFacts(g, d) ==
  /\ \A k \in Numbers(g) : /\ k \in Nat /\ k \in LoopOf(g, d, k)
                           /\ LoopOf(g, d, k) \subseteq From(g, k) /\ LoopOf(g, d, k) \subseteq Numbers(g)
                           /\ \A v \in LoopOf(g, d, k) : k <= v /\ k \in Up(d, v)
  /\ \A j, k \in Numbers(g) : \A v \in LoopOf(g, d, j) :
       v \in LoopOf(g, d, k) /\ j <= k => LoopOf(g, d, k) \subseteq LoopOf(g, d, j)
  /\ \A k \in Numbers(g) : k \notin Cyclic(d) => LoopOf(g, d, k) = {k}
  /\ \A k \in Numbers(g) : \A v \in Numbers(g) :
       IsEdge(g, d, v, k) /\ k \in Up(d, v) => v \in d.back[k] /\ v \in LoopOf(g, d, k)

(* An edge to an ancestor is a back edge, within the component of the       *)
(* ancestor.                                                                *)
LEMMA BackEdge ==
  ASSUME NEW g, NEW d, SearchDone(g, d), NEW k \in Numbers(g), NEW v \in Numbers(g),
         IsEdge(g, d, v, k), k \in Up(d, v)
  PROVE  v \in d.back[k] /\ v \in LoopOf(g, d, k)
<1>1. IsGraph(g) /\ k \in Nat /\ v \in Nat
  BY DEF SearchDone, Numbers
<1>2. k \in Up(d, k) /\ k <= v
  BY <1>1, Ancestors
<1>3. v \in d.back[k]
  <2>1. \/ v < k
        \/ v \in d.back[k]
        \/ \E l \in Numbers(g) : <<v, k>> \in d.cross[l]
    BY EdgeKinds
  <2>2. \A l \in Numbers(g) : <<v, k>> \in d.cross[l] => k <= l /\ l < k /\ l \in Nat
    BY <1>2, EdgeKinds DEF Numbers
  <2> QED BY <1>1, <1>2, <2>1, <2>2
<1>4. v \in From(g, k) /\ k \in From(g, k)
  BY <1>1, <1>2 DEF From
<1>5. Conn(g, d, k, v, k)
  BY <1>1, <1>4, Connected
<1>6. Conn(g, d, k, k, v)
  BY ReachesDescendants
<1> QED BY <1>1, <1>3, <1>4, <1>5, <1>6, Components DEF LoopOf

LEMMA Loops == ASSUME NEW g, NEW d, SearchDone(g, d) PROVE LoopFacts(g, d)
<1>1. IsGraph(g) /\ \A k \in Numbers(g) : k \in Nat /\ k \in From(g, k)
  BY DEF SearchDone, Numbers, From
<1>2. ASSUME NEW k \in Numbers(g), NEW v
      PROVE  /\ v \in LoopOf(g, d, k) <=> v \in From(g, k) /\ Conn(g, d, k, k, v) /\ Conn(g, d, k, v, k)
             /\ k \in LoopOf(g, d, k)
             /\ v \in LoopOf(g, d, k) => k <= v /\ v \in Numbers(g) /\ k \in Up(d, v)
  <2>1. /\ v \in LoopOf(g, d, k) <=> v \in From(g, k) /\ Conn(g, d, k, k, v) /\ Conn(g, d, k, v, k)
        /\ k \in LoopOf(g, d, k)
    BY <1>1, Components DEF LoopOf
  <2>2. Conn(g, d, k, k, v) => k \in Up(d, v)
    BY ReachesOnlyDescendants
  <2>3. v \in From(g, k) => v \in Numbers(g) /\ k <= v
    BY <1>1 DEF From
  <2> QED BY <2>1, <2>2, <2>3
<1>3. ASSUME NEW j \in Numbers(g), NEW k \in Numbers(g), NEW v \in LoopOf(g, d, j), v \in LoopOf(g, d, k),
             j <= k, NEW t \in LoopOf(g, d, k)
      PROVE  t \in LoopOf(g, d, j)
  <2>1. j \in Up(d, v) /\ k \in Up(d, v) /\ v \in Numbers(g) /\ k <= v
    BY <1>2, <1>3
  <2>2. j \in Up(d, k)
    BY <1>3, <2>1, Ancestors
  <2>3. k \in From(g, j) /\ Conn(g, d, j, j, k)
    BY <2>2, ReachesDescendants
  <2>4. v \in From(g, k) /\ Conn(g, d, k, k, v) /\ Conn(g, d, j, v, j) /\ v \in From(g, j)
    BY <1>2, <1>3
  <2>5. t \in From(g, k) /\ Conn(g, d, k, k, t) /\ Conn(g, d, k, t, k)
    BY <1>2, <1>3
  <2>6. Conn(g, d, j, k, v) /\ Conn(g, d, j, k, t) /\ Conn(g, d, j, t, k)
    <3>1. \A a \in From(g, k) : \A b : Conn(g, d, k, a, b) => Conn(g, d, j, a, b)
      BY <1>1, <1>3, ConnectedBelow
    <3> QED BY <1>1, <2>4, <2>5, <3>1
  <2>7. t \in From(g, j)
    BY <1>1, <1>3, <2>5 DEF From
  <2>8. Conn(g, d, j, k, j) /\ j \in From(g, j) /\ Conn(g, d, j, j, t)
    BY <1>1, <2>3, <2>4, <2>6, Connected
  <2>9. Conn(g, d, j, t, j)
    BY <1>1, <2>3, <2>6, <2>7, <2>8, Connected
  <2> QED BY <1>2, <2>7, <2>8, <2>9
<1>4. ASSUME NEW k \in Numbers(g), NEW u \in LoopOf(g, d, k), u # k
      PROVE  k \in Cyclic(d)
  <2> DEFINE pred == In(g, d, k)
  <2>1. IsEdges(pred, From(g, k))
    BY <1>1, OutIn
  <2>2. u \in Reach(pred, {k}) /\ u \in From(g, k) /\ Conn(g, d, k, k, u)
    BY <1>1, <1>2, <1>4, Connected
  <2>3. PICK b \in pred[k] : u \in Reach(pred, {b})
    <3> HIDE DEF pred
    <3>1. k \in From(g, k)
      BY <1>1
    <3>2. \A c \in Reach(pred, {k}) : c = k \/ \E b \in pred[k] : c \in Reach(pred, {b})
      BY <2>1, <3>1, ReachUnfold
    <3> QED BY <1>4, <2>2, <3>2
  <2>4. b \in From(g, k) /\ IsEdge(g, d, b, k)
    BY <1>1, <2>3 DEF In
  <2>5. Conn(g, d, k, u, b)
    BY <1>1, <2>2, <2>3, <2>4, Connected
  <2>6. Conn(g, d, k, k, b)
    BY <1>1, <2>2, <2>4, <2>5, Connected
  <2>7. k \in Up(d, b) /\ b \in Numbers(g)
    BY <2>4, <2>6, ReachesOnlyDescendants DEF From
  <2>8. b \in d.back[k]
    BY <2>4, <2>7, BackEdge
  <2>9. DOMAIN d.back = Numbers(g)
    BY DEF SearchDone, SearchInv, SearchStates
  <2> QED BY <2>8, <2>9 DEF Cyclic
<1>5. \A k \in Numbers(g) : k \notin Cyclic(d) => LoopOf(g, d, k) = {k}
  BY <1>2, <1>4
<1>6. \A k \in Numbers(g) : LoopOf(g, d, k) \subseteq From(g, k)
  BY <1>2
<1> QED BY <1>1, <1>2, <1>3, <1>5, <1>6, BackEdge DEF LoopFacts

(* Each vertex after h lies in the loop of its representative.              *)
RootFacts(g, d, h, rep) ==
  /\ h \in Nat /\ \A v \in Numbers(g) : v > h <=> v \in From(g, h + 1)
  /\ \A v \in Numbers(g) : rep[v] \in Numbers(g) /\ (v <= h => rep[v] = v)
  /\ \A v \in From(g, h + 1) :
       /\ v \in Numbers(g) /\ v > h
       /\ rep[v] \in From(g, h + 1) /\ rep[rep[v]] = rep[v] /\ v \in LoopOf(g, d, rep[v])
  /\ \A k \in From(g, h + 1) : \A v \in LoopOf(g, d, k) : v \in From(g, h + 1) /\ rep[v] = rep[k]
  /\ \A r \in From(g, h + 1) : rep[r] = r =>
       \A v \in Numbers(g) : rep[v] = r <=> v \in LoopOf(g, d, r)

LEMMA Roots ==
  ASSUME NEW g, NEW d, SearchDone(g, d), NEW h \in 0..NumBlocks(g), NEW rep, RepOK(g, d, h, rep)
  PROVE  RootFacts(g, d, h, rep)
<1>0. NumBlocks(g) \in Nat
  BY SearchTypes DEF SearchDone, SearchInv
<1>1. IsGraph(g) /\ h \in Nat /\ h + 1 \in Nat
      /\ (\A v \in Numbers(g) : v \in Nat /\ (v > h <=> v \in From(g, h + 1)))
      /\ LoopFacts(g, d)
  <2>1. \A v \in Numbers(g) : v \in Nat
    BY DEF Numbers
  <2>2. \A v \in Numbers(g) : v > h <=> v \in From(g, h + 1)
    BY <1>0, <2>1 DEF From
  <2> QED BY <1>0, <2>1, <2>2, Loops DEF SearchDone
<1>2. \A v \in Numbers(g) : rep[v] \in Numbers(g) /\ (v <= h => rep[v] = v)
  BY DEF RepOK
<1>3. ASSUME NEW v \in From(g, h + 1)
      PROVE  /\ v \in Numbers(g) /\ v > h /\ h + 1 \in Numbers(g)
             /\ rep[v] \in From(g, h + 1) /\ v \in LoopOf(g, d, rep[v])
             /\ Scc(g, d, h + 1, v) = LoopOf(g, d, rep[v])
  <2>1. v \in Numbers(g) /\ v > h /\ ~ (v <= h)
    BY <1>1 DEF From
  <2>2. h + 1 \in Numbers(g)
    BY <1>0, <1>1, <2>1 DEF Numbers
  <2>3. rep[v] = Min(Scc(g, d, h + 1, v))
    BY <2>1 DEF RepOK
  <2>4. Scc(g, d, h + 1, v) = LoopOf(g, d, rep[v])
    BY <1>1, <2>2, <2>3, SccOfFirst
  <2>5. v \in Scc(g, d, h + 1, v) /\ rep[v] \in Scc(g, d, h + 1, v)
    BY <1>1, <2>3, Components
  <2>6. rep[v] \in From(g, h + 1)
    BY <1>1, <2>5, Components
  <2> QED BY <2>1, <2>2, <2>4, <2>5, <2>6
<1>4. ASSUME NEW v \in From(g, h + 1), NEW t \in LoopOf(g, d, rep[v])
      PROVE  t \in From(g, h + 1) /\ rep[t] = rep[v]
  <2>1. t \in Scc(g, d, h + 1, v)
    BY <1>3, <1>4
  <2>2. t \in From(g, h + 1)
    BY <1>1, <2>1, Components
  <2>3. Min(Scc(g, d, h + 1, t)) = Min(Scc(g, d, h + 1, v))
    BY <1>1, <2>1, <2>2, SameFirst
  <2> QED BY <1>1, <1>3, <2>2, <2>3 DEF RepOK
<1>5. ASSUME NEW k \in From(g, h + 1), NEW v \in LoopOf(g, d, k)
      PROVE  v \in From(g, h + 1) /\ rep[v] = rep[k]
  <2>1. rep[k] \in Numbers(g) /\ k \in LoopOf(g, d, rep[k]) /\ k \in LoopOf(g, d, k) /\ rep[k] <= k
        /\ k \in Numbers(g)
    <3>1. k \in Numbers(g) /\ rep[k] \in Numbers(g) /\ k \in LoopOf(g, d, rep[k])
      BY <1>2, <1>3
    <3> QED BY <1>1, <3>1 DEF LoopFacts
  <2>2. v \in LoopOf(g, d, rep[k])
    BY <1>1, <1>5, <2>1 DEF LoopFacts
  <2> QED BY <1>4, <2>2
<1>6. \A v \in From(g, h + 1) : rep[rep[v]] = rep[v]
  <2>1. \A v \in From(g, h + 1) : rep[v] \in LoopOf(g, d, rep[v])
    BY <1>1, <1>2, <1>3 DEF LoopFacts
  <2> QED BY <1>4, <2>1
<1>7. ASSUME NEW r \in From(g, h + 1), rep[r] = r, NEW v \in Numbers(g)
      PROVE  rep[v] = r <=> v \in LoopOf(g, d, r)
  <2>1. v \in LoopOf(g, d, r) => rep[v] = r
    BY <1>5, <1>7
  <2>2. rep[v] = r => v \in From(g, h + 1)
    BY <1>1, <1>2, <1>3, <1>7
  <2> QED BY <1>3, <2>1, <2>2
<1> QED BY <1>1, <1>2, <1>3, <1>5, <1>6, <1>7 DEF RootFacts

------------------------------------------------------------------------------
(* The cells in their array.                                                *)

(* Appending keeps what is there.                                           *)
LEMMA AppendFacts ==
  ASSUME NEW X, NEW q \in Seq(X), NEW e \in X
  PROVE  /\ Append(q, e) \in Seq(X) /\ Len(Append(q, e)) = Len(q) + 1 /\ Len(q) \in Nat
         /\ \A c \in 0..(Len(q) - 1) : Append(q, e)[c + 1] = q[c + 1]
         /\ Append(q, e)[Len(q) + 1] = e
<1>1. Append(q, e) \in Seq(X) /\ Len(Append(q, e)) = Len(q) + 1 /\ Len(q) \in Nat
  BY AppendProperties, LenProperties
<1>2. \A i \in 1..Len(q) : Append(q, e)[i] = q[i]
  BY AppendProperties
<1>3. \A c \in 0..(Len(q) - 1) : c + 1 \in 1..Len(q)
  BY <1>1
<1>4. Append(q, e)[Len(q) + 1] = e
  BY AppendProperties
<1> QED BY <1>1, <1>2, <1>3, <1>4

(* t is s with the cells of s.h.                                            *)
Enlarged(g, d, s, t) ==
  LET h == s.h
  IN  /\ t.h = h - 1
      /\ \A v \in From(g, h + 1) : /\ t.d2i[v] = s.d2i[v] /\ t.exit[v] = s.exit[v]
                                   /\ LastOf(t, v) = LastOf(s, v)
      /\ \A c \in Indices(s) : /\ c \in Indices(t) /\ t.space[c + 1] = s.space[c + 1]
                               /\ c # t.d2i[h] /\ c # LastOf(t, h)
      /\ \A c \in Indices(t) : c \in Indices(s) \/ c = t.d2i[h] \/ c = LastOf(t, h)
      /\ t.d2i[h] \in Indices(t) /\ t.d2i[h] = Len(t.space) - 1 /\ VertexAt(t, t.d2i[h]) = h
      /\ LastOf(t, h) \in Indices(t) /\ VertexAt(t, LastOf(t, h)) = h
      /\ h \notin Cyclic(d) => /\ t.exit[h] = h /\ TypeAt(t, t.d2i[h]) = "plain"
      /\ h \in Cyclic(d) => /\ t.exit[h] \in (NumBlocks(g) + 1)..(t.next - 1)
                            /\ LastOf(t, h) = t.d2i[h] - 1
                            /\ TypeAt(t, t.d2i[h]) = "head" /\ TypeAt(t, LastOf(t, h)) = "exit"
      /\ \A v \in Numbers(g) : v < h => t.exit[v] = s.exit[v]
      /\ s.next <= t.next

(* What the cells are, at each turn.                                        *)
Placed(g, d, s) ==
  /\ SearchDone(g, d) /\ FieldsOK(g, s) /\ CellsOK(g, d, s)

(* What follows from it, one by one.                                        *)
LEMMA PlacedTypes ==
  ASSUME NEW g, NEW d, NEW s, Placed(g, d, s)
  PROVE  /\ NumBlocks(g) \in Nat /\ NumBlocks(g) >= 1 /\ s.h \in Nat /\ s.h <= NumBlocks(g)
         /\ s.space \in Seq(CellSet(g)) /\ Len(s.space) \in Nat /\ Len(s.space) <= 2 * (NumBlocks(g) - s.h)
         /\ s.next \in Nat /\ s.next >= NumBlocks(g) + 1 /\ s.next <= 2 * NumBlocks(g) + 1 - s.h
         /\ \A v \in Numbers(g) : v \in Nat /\ v \in 1..(2 * NumBlocks(g)) /\ v <= NumBlocks(g)
                                  /\ (v > s.h <=> v \in From(g, s.h + 1)) /\ s.exit[v] \in 1..(2 * NumBlocks(g))
         /\ \A v \in From(g, s.h + 1) : v \in Numbers(g) /\ v > s.h
         /\ \A c \in Indices(s) : c \in Nat /\ VertexAt(s, c) \in Numbers(g)
         /\ DOMAIN d.back = Numbers(g) /\ IsGraph(g) /\ Cyclic(d) \subseteq Numbers(g)
<1>1. NumBlocks(g) \in Nat /\ NumBlocks(g) >= 1 /\ DOMAIN d.back = Numbers(g) /\ IsGraph(g)
  BY SearchTypes DEF Placed, SearchDone, SearchInv, SearchStates
<1>2. s.h \in Nat /\ s.h <= NumBlocks(g) /\ s.space \in Seq(CellSet(g)) /\ Len(s.space) \in Nat
      /\ Len(s.space) <= 2 * (NumBlocks(g) - s.h)
         /\ s.next \in Nat /\ s.next >= NumBlocks(g) + 1 /\ s.next <= 2 * NumBlocks(g) + 1 - s.h
  BY <1>1, LenProperties DEF Placed, FieldsOK
<1>3. \A v \in Numbers(g) : v \in Nat /\ v \in 1..(2 * NumBlocks(g)) /\ v <= NumBlocks(g)
  BY <1>1 DEF Numbers
<1>4. \A v \in Numbers(g) : v > s.h <=> v \in From(g, s.h + 1)
  BY <1>2, <1>3 DEF From
<1>5. \A v \in From(g, s.h + 1) : v \in Numbers(g)
  BY DEF From
<1>6. ASSUME NEW c \in Indices(s) PROVE c \in Nat /\ VertexAt(s, c) \in Numbers(g)
  <2>1. c \in Nat /\ c + 1 \in 1..Len(s.space)
    BY <1>2 DEF Indices
  <2>2. s.space[c + 1] \in CellSet(g)
    BY <1>2, <2>1, ElementOfSeq
  <2> QED BY <2>1, <2>2 DEF CellSet, VertexAt
<1>7. s.exit \in [Numbers(g) -> 1..(2 * NumBlocks(g))]
  BY DEF Placed, FieldsOK
<1> QED BY <1>1, <1>2, <1>3, <1>4, <1>5, <1>6, <1>7 DEF Cyclic

(* It holds at the beginning, and each turn appends the cells of its        *)
(* vertex.                                                                  *)
LEMMA PlacedInit ==
  ASSUME NEW g, NEW d, SearchDone(g, d) PROVE Placed(g, d, InitScc(d))
<1> DEFINE s == InitScc(d)
           N == NumBlocks(g)
<1>1. IsGraph(g) /\ d \in SearchStates(g) /\ N \in Nat /\ N >= 1
  BY SearchTypes DEF SearchDone, SearchInv
<1>2. DOMAIN d.back = 1..N /\ Cardinality(1..N) = N
  BY <1>1, FS_Interval DEF SearchStates, Numbers
<1>3. /\ s.h = N /\ s.next = N + 1 /\ s.space = <<>> /\ s.exit = [v \in 1..N |-> v]
      /\ s.size = [v \in 1..N |-> 0] /\ s.d2i = [v \in 1..(2 * N) |-> 0]
      /\ s.parent = [i \in 0..(2 * N - 1) |-> 0]
      /\ s.origin = [v \in 1..N |-> {<<u, v>> : u \in d.nonback[v]}]
  BY <1>2 DEF InitScc
<1>4. d.nonback \in [Numbers(g) -> SUBSET Numbers(g)]
  BY <1>1 DEF SearchStates
<1> HIDE DEF s, N
<1>5. FieldsOK(g, s)
  <2>1. s.h \in 0..N /\ s.next \in (N + 1)..(2 * N + 1 - s.h)
        /\ s.space \in Seq(CellSet(g)) /\ Len(s.space) <= 2 * (N - s.h)
    BY <1>1, <1>3
  <2>2. s.exit \in [Numbers(g) -> 1..(2 * N)]
    <3>1. \A v \in 1..N : v \in 1..(2 * N)
      BY <1>1
    <3> QED BY <1>3, <3>1 DEF Numbers, N
  <2>3. s.d2i \in [1..(2 * N) -> Nat] /\ s.size \in [Numbers(g) -> Nat]
        /\ s.parent \in [0..(2 * N - 1) -> 0..(2 * N - 1)]
    <3>1. 0 \in 0..(2 * N - 1)
      BY <1>1
    <3> QED BY <1>3, <3>1 DEF Numbers, N
  <2>4. \A v \in Numbers(g) : {<<u, v>> : u \in d.nonback[v]} \in SUBSET (Numbers(g) \X Numbers(g))
    BY <1>4
  <2>5. s.origin \in [Numbers(g) -> SUBSET (Numbers(g) \X Numbers(g))]
    BY <1>3, <2>4 DEF Numbers, N
  <2> QED BY <2>1, <2>2, <2>3, <2>5 DEF FieldsOK, N
<1>6. CellsOK(g, d, s)
  <2>1. From(g, s.h + 1) = {} /\ Indices(s) = {}
    <3>1. \A v \in Numbers(g) : ~ (v >= N + 1)
      BY <1>1 DEF Numbers, N
    <3>2. Len(s.space) = 0
      BY <1>3
    <3> QED BY <1>3, <3>1, <3>2 DEF From, Indices
  <2>2. \A v \in Numbers(g) : s.exit[v] = v
    BY <1>3 DEF Numbers, N
  <2>3. ~ (s.h < NumBlocks(g))
    BY <1>1, <1>3 DEF N
  <2> QED BY <2>1, <2>2, <2>3 DEF CellsOK
<1> QED BY <1>5, <1>6 DEF Placed, s

LEMMA TrivialEnlarges ==
  ASSUME NEW g, NEW d, NEW s, NEW t, Placed(g, d, s), s.h # 0, d.back[s.h] = {}, TrivialStep(d, s, t)
  PROVE  Enlarged(g, d, s, t)
<1> DEFINE h == s.h
           L == Len(s.space)
           cell == [vertex |-> h, type |-> "plain", size |-> 1]
<1>1. /\ NumBlocks(g) \in Nat /\ h \in Numbers(g) /\ h \in Nat /\ L \in Nat /\ h \in 1..(2 * NumBlocks(g))
      /\ s.space \in Seq(CellSet(g))
  BY PlacedTypes DEF Numbers
<1>2. /\ t.h = h - 1 /\ t.exit = s.exit /\ t.d2i = [s.d2i EXCEPT ![h] = L] /\ t.next = s.next
      /\ t.space = Append(s.space, cell)
  BY DEF TrivialStep
<1>3. cell \in CellSet(g)
  BY <1>1 DEF CellSet
<1> HIDE DEF cell
<1>4. /\ Len(t.space) = L + 1 /\ \A c \in 0..(L - 1) : t.space[c + 1] = s.space[c + 1]
      /\ t.space[L + 1] = cell
  BY <1>1, <1>2, <1>3, AppendFacts
<1>5. /\ \A v \in Numbers(g) : v <= h => s.exit[v] = v
      /\ \A v \in From(g, h + 1) : v # h /\ v \in 1..(2 * NumBlocks(g)) /\ s.exit[v] # h /\ s.exit[v] \in 1..(2 * NumBlocks(g))
  <2>1. \A v \in From(g, h + 1) : s.exit[v] = v \/ s.exit[v] \in (NumBlocks(g) + 1)..(s.next - 1)
    BY DEF Placed, CellsOK
  <2>2. \A v \in From(g, h + 1) : v # h /\ v \in 1..(2 * NumBlocks(g)) /\ s.exit[v] \in 1..(2 * NumBlocks(g))
    BY <1>1, PlacedTypes
  <2>3. h <= NumBlocks(g)
    BY <1>1, PlacedTypes
  <2> QED BY <1>1, <2>1, <2>2, <2>3 DEF Placed, CellsOK
<1>6. s.d2i \in [1..(2 * NumBlocks(g)) -> Nat]
  BY DEF Placed, FieldsOK
<1>7. t.d2i[h] = L /\ \A v \in 1..(2 * NumBlocks(g)) : v # h => t.d2i[v] = s.d2i[v]
  BY <1>1, <1>2, <1>6
<1>8. \A v \in From(g, h + 1) : /\ t.d2i[v] = s.d2i[v] /\ t.exit[v] = s.exit[v]
                                /\ LastOf(t, v) = LastOf(s, v)
  BY <1>2, <1>5, <1>7 DEF LastOf
<1>9. Indices(s) = 0..(L - 1) /\ Indices(t) = 0..L
  BY <1>1, <1>4 DEF Indices
<1>10. t.exit[h] = h /\ LastOf(t, h) = L
  BY <1>1, <1>2, <1>5, <1>7 DEF LastOf
<1>11. VertexAt(t, L) = h /\ TypeAt(t, L) = "plain"
  BY <1>4 DEF VertexAt, TypeAt, cell
<1>12. h \notin Cyclic(d)
  BY DEF Cyclic
<1>13. \A c \in Indices(s) : c \in Indices(t) /\ t.space[c + 1] = s.space[c + 1] /\ c # L
  <2>1. \A c \in 0..(L - 1) : c \in 0..L /\ c # L
    BY <1>1
  <2> QED BY <1>4, <1>9, <2>1
<1>14. \A c \in Indices(t) : c \in Indices(s) \/ c = L
  BY <1>1, <1>9
<1>15. L \in Indices(t) /\ L = Len(t.space) - 1 /\ s.next <= t.next
  BY <1>1, <1>2, <1>4, <1>9, PlacedTypes
<1> HIDE DEF L
<1> QED BY <1>2, <1>7, <1>8, <1>10, <1>11, <1>12, <1>13, <1>14, <1>15 DEF Enlarged

LEMMA ComponentEnlarges ==
  ASSUME NEW g, NEW d, NEW s, NEW t, Placed(g, d, s), s.h # 0, d.back[s.h] # {}, ComponentStep(d, s, t),
         NEW z, z \in Nat, t.size = [s.size EXCEPT ![s.h] = z],
         t.space = Append(Append(s.space, [vertex |-> s.h, type |-> "exit", size |-> z]),
                          [vertex |-> s.h, type |-> "head", size |-> z])
  PROVE  Enlarged(g, d, s, t)
<1> DEFINE h == s.h
           x == s.next
           L == Len(s.space)
           exit == [vertex |-> h, type |-> "exit", size |-> z]
           head == [vertex |-> h, type |-> "head", size |-> z]
<1>1. /\ NumBlocks(g) \in Nat /\ h \in Numbers(g) /\ h \in Nat /\ L \in Nat /\ h \in 1..(2 * NumBlocks(g))
      /\ s.space \in Seq(CellSet(g)) /\ x \in Nat /\ x >= NumBlocks(g) + 1 /\ x \in 1..(2 * NumBlocks(g))
      /\ h <= NumBlocks(g)
  <2>1. /\ NumBlocks(g) \in Nat /\ h \in Nat /\ h <= NumBlocks(g) /\ L \in Nat /\ h # 0
        /\ s.space \in Seq(CellSet(g)) /\ x \in Nat /\ x >= NumBlocks(g) + 1
        /\ x <= 2 * NumBlocks(g) + 1 - h
    BY PlacedTypes
  <2> HIDE DEF h, x, L
  <2> QED BY <2>1 DEF Numbers
<1>0. L \in Nat
  BY <1>1
<1>2. /\ t.h = h - 1 /\ t.exit = [s.exit EXCEPT ![h] = x] /\ t.next = x + 1
      /\ t.d2i = [[s.d2i EXCEPT ![x] = L] EXCEPT ![h] = L + 1]
      /\ t.space = Append(Append(s.space, exit), head)
  BY DEF ComponentStep
<1>3. exit \in CellSet(g) /\ head \in CellSet(g)
  BY <1>1 DEF CellSet
<1> HIDE DEF exit, head
<1>4. /\ Len(t.space) = L + 2 /\ \A c \in 0..(L - 1) : t.space[c + 1] = s.space[c + 1]
      /\ t.space[L + 1] = exit /\ t.space[(L + 1) + 1] = head
  <2> DEFINE m == Append(s.space, exit)
  <2>1. /\ m \in Seq(CellSet(g)) /\ Len(m) = L + 1
        /\ \A c \in 0..(L - 1) : m[c + 1] = s.space[c + 1]
        /\ m[L + 1] = exit
    BY <1>1, <1>3, AppendFacts
  <2> HIDE DEF m
  <2>2. /\ Len(Append(m, head)) = Len(m) + 1 /\ Append(m, head)[Len(m) + 1] = head
        /\ \A c \in 0..(Len(m) - 1) : Append(m, head)[c + 1] = m[c + 1]
    BY <1>3, <2>1, AppendFacts
  <2>3. t.space = Append(m, head)
    BY <1>2 DEF m
  <2>4. L \in 0..(Len(m) - 1) /\ \A c \in 0..(L - 1) : c \in 0..(Len(m) - 1)
    BY <1>1, <2>1
  <2>5. (L + 1) + 1 = L + 2
    BY <1>1
  <2> QED BY <2>1, <2>2, <2>3, <2>4, <2>5
<1>5. /\ \A v \in Numbers(g) : v <= h => s.exit[v] = v
      /\ \A v \in From(g, h + 1) : /\ v # h /\ v # x /\ v \in 1..(2 * NumBlocks(g)) /\ v \in Numbers(g)
             /\ s.exit[v] # h /\ s.exit[v] # x /\ s.exit[v] \in 1..(2 * NumBlocks(g))
  <2>0. (\A v \in Numbers(g) : v <= h => s.exit[v] = v) /\ CellsOK(g, d, s)
    BY DEF Placed, CellsOK
  <2>1. \A v \in From(g, h + 1) : s.exit[v] = v \/ s.exit[v] \in (NumBlocks(g) + 1)..(s.next - 1)
    BY <2>0 DEF CellsOK
  <2>2. \A v \in From(g, h + 1) : v # h /\ v # x /\ v \in 1..(2 * NumBlocks(g)) /\ v \in Numbers(g)
                                  /\ s.exit[v] \in 1..(2 * NumBlocks(g))
    <3>1. \A v \in From(g, h + 1) : v \in Numbers(g) /\ v > h
      BY PlacedTypes
    <3>2. \A v \in Numbers(g) : v \in Nat /\ v <= NumBlocks(g) /\ v \in 1..(2 * NumBlocks(g)) /\ s.exit[v] \in 1..(2 * NumBlocks(g))
      BY PlacedTypes
    <3> QED BY <1>1, <3>1, <3>2
  <2>3. \A v \in From(g, h + 1) : s.exit[v] # h /\ s.exit[v] # x
    <3> TAKE v \in From(g, h + 1)
    <3>1. v # h /\ v # x
      BY <2>2
    <3>2. CASE s.exit[v] = v
      BY <3>1, <3>2
    <3>3. CASE s.exit[v] \in (NumBlocks(g) + 1)..(s.next - 1)
      <4> DEFINE y == s.exit[v]
      <4>1. y \in (NumBlocks(g) + 1)..(x - 1)
        BY <3>3
      <4> HIDE DEF y, h, x
      <4>2. y # h /\ y # x
        BY <4>1, <1>1
      <4> QED BY <4>2 DEF y
    <3> QED BY <2>1, <3>2, <3>3
  <2> QED BY <2>0, <2>2, <2>3
<1>6. s.d2i \in [1..(2 * NumBlocks(g)) -> Nat] /\ s.exit \in [Numbers(g) -> 1..(2 * NumBlocks(g))]
  BY DEF Placed, FieldsOK
<1>60. x # h
  BY <1>1
<1>7. t.d2i[h] = L + 1 /\ t.d2i[x] = L
      /\ \A v \in 1..(2 * NumBlocks(g)) : v # h /\ v # x => t.d2i[v] = s.d2i[v]
  <2> HIDE DEF h, x, L
  <2> QED BY <1>1, <1>2, <1>6, <1>60
<1>71. t.exit[h] = x /\ \A v \in Numbers(g) : v # h => t.exit[v] = s.exit[v]
  BY <1>1, <1>2, <1>6
<1> HIDE DEF x
<1>8. \A v \in From(g, h + 1) : /\ t.d2i[v] = s.d2i[v] /\ t.exit[v] = s.exit[v]
                                /\ LastOf(t, v) = LastOf(s, v)
  BY <1>5, <1>7, <1>71 DEF LastOf
<1>9. Indices(s) = 0..(L - 1) /\ Indices(t) = 0..(L + 1)
  BY <1>1, <1>4 DEF Indices
<1>10. LastOf(t, h) = L
  BY <1>7, <1>71 DEF LastOf
<1>11. VertexAt(t, L) = h /\ TypeAt(t, L) = "exit" /\ VertexAt(t, L + 1) = h /\ TypeAt(t, L + 1) = "head"
  BY <1>4 DEF VertexAt, TypeAt, exit, head
<1>12. h \in Cyclic(d)
  BY <1>1, PlacedTypes DEF Cyclic
<1>13. \A c \in Indices(s) : c \in Indices(t) /\ t.space[c + 1] = s.space[c + 1] /\ c # L /\ c # L + 1
  <2>1. \A c \in 0..(L - 1) : c \in 0..(L + 1) /\ c # L /\ c # L + 1
    BY <1>0
  <2> QED BY <1>4, <1>9, <2>1
<1>14. \A c \in Indices(t) : c \in Indices(s) \/ c = L \/ c = L + 1
  <2>1. \A c \in 0..(L + 1) : c \in 0..(L - 1) \/ c = L \/ c = L + 1
    BY <1>0
  <2> QED BY <1>9, <2>1
<1>15. L \in Indices(t) /\ L + 1 \in Indices(t) /\ L + 1 = Len(t.space) - 1 /\ L = (L + 1) - 1
       /\ x \in (NumBlocks(g) + 1)..(t.next - 1) /\ x <= t.next
  <2>1. L \in 0..(L + 1) /\ L + 1 \in 0..(L + 1) /\ L + 1 = (L + 2) - 1 /\ L = (L + 1) - 1
    BY <1>0
  <2>2. x \in (NumBlocks(g) + 1)..((x + 1) - 1) /\ x <= x + 1
    BY <1>1 DEF x
  <2>3. t.next = x + 1
    BY <1>2 DEF x
  <2> QED BY <1>4, <1>9, <2>1, <2>2, <2>3
<1>16. \A v \in Numbers(g) : v < h => t.exit[v] = s.exit[v]
  BY <1>1, <1>71
<1> HIDE DEF L, h
<1>17. s.next <= t.next
  BY <1>15 DEF x
<1>18. /\ t.h = h - 1
       /\ \A v \in From(g, h + 1) : /\ t.d2i[v] = s.d2i[v] /\ t.exit[v] = s.exit[v]
                                    /\ LastOf(t, v) = LastOf(s, v)
  BY <1>2, <1>8
<1>19. /\ \A c \in Indices(s) : /\ c \in Indices(t) /\ t.space[c + 1] = s.space[c + 1]
                                /\ c # t.d2i[h] /\ c # LastOf(t, h)
       /\ \A c \in Indices(t) : c \in Indices(s) \/ c = t.d2i[h] \/ c = LastOf(t, h)
  BY <1>7, <1>10, <1>13, <1>14
<1>20. /\ t.d2i[h] \in Indices(t) /\ t.d2i[h] = Len(t.space) - 1 /\ VertexAt(t, t.d2i[h]) = h
       /\ LastOf(t, h) \in Indices(t) /\ VertexAt(t, LastOf(t, h)) = h
  BY <1>7, <1>10, <1>11, <1>15
<1>21. /\ t.exit[h] \in (NumBlocks(g) + 1)..(t.next - 1)
       /\ LastOf(t, h) = t.d2i[h] - 1
       /\ TypeAt(t, t.d2i[h]) = "head" /\ TypeAt(t, LastOf(t, h)) = "exit"
  BY <1>7, <1>71, <1>10, <1>11, <1>15
<1> USE DEF h
<1> QED BY <1>12, <1>16, <1>17, <1>18, <1>19, <1>20, <1>21 DEF Enlarged

------------------------------------------------------------------------------
(* The sum over a set, which the library defines by recursion, is a number. *)

(* The function that the sum is defined by.                                 *)
IsSum(I, f, S) ==
  I = [T \in SUBSET S |-> IF T = {} THEN 0
                          ELSE f[CHOOSE x \in T : TRUE] + I[T \ {CHOOSE x \in T : TRUE}]]

LEMMA SumIsFold == ASSUME NEW f, NEW S PROVE SumFunctionOnSet(f, S) = (CHOOSE I : IsSum(I, f, S))[S]
BY DEF SumFunctionOnSet, FoldFunctionOnSet, MapThenFoldSet, IsSum

(* What is used of it.                                                      *)
PartialSums(J, f, S) ==
  /\ J \in [SUBSET S -> Nat] /\ J[{}] = 0
  /\ \A T \in SUBSET S : T # {} => \E x \in T : J[T] = f[x] + J[T \ {x}]

(* There is such a function, by the recursion over the natural numbers.     *)
LEMMA SumExists ==
  ASSUME NEW S, IsFiniteSet(S), NEW f, \A v \in S : f[v] \in Nat
  PROVE  \E I : IsSum(I, f, S)
<1> DEFINE ch(T) == CHOOSE x \in T : TRUE
           X == [SUBSET S -> Nat]
           zero == [T \in SUBSET S |-> 0]
           next(F) == [T \in SUBSET S |-> IF T = {} THEN 0 ELSE f[ch(T)] + F[T \ {ch(T)}]]
           G == [k \in Nat |-> [F \in X |-> next(F)]]
<1>1. \A T \in SUBSET S : T # {} => ch(T) \in T /\ T \ {ch(T)} \in SUBSET S
  OBVIOUS
<1> HIDE DEF ch
<1>2. \A F \in X : next(F) \in X
  BY <1>1
<1>3. Steps(G, X) /\ zero \in X
  BY <1>2 DEF Steps
<1> HIDE DEF X
<1>4. PICK h \in [Nat -> X] : h[0] = zero /\ \A k \in Nat \ {0} : h[k] = G[k][h[k - 1]]
  <2> HIDE DEF G, zero
  <2> QED BY <1>3, NatRecursion
<1>5. \A k \in Nat \ {0} : h[k] = next(h[k - 1])
  <2>1. \A k \in Nat \ {0} : h[k - 1] \in X
    BY <1>4
  <2> HIDE DEF next
  <2> QED BY <1>4, <2>1
<1>6. \A T \in SUBSET S : IsFiniteSet(T) /\ Cardinality(T) \in Nat
  BY FS_Subset, FS_CardinalityType
<1> DEFINE I == [T \in SUBSET S |-> h[Cardinality(T)][T]]
<1>7. ASSUME NEW T \in SUBSET S
      PROVE  I[T] = IF T = {} THEN 0 ELSE f[ch(T)] + I[T \ {ch(T)}]
  <2>1. CASE T = {}
    <3>1. Cardinality(T) = 0
      BY <2>1, FS_EmptySet
    <3> QED BY <1>4, <2>1, <3>1
  <2>2. CASE T # {}
    <3>1. Cardinality(T) # 0 /\ Cardinality(T \ {ch(T)}) = Cardinality(T) - 1
      BY <1>1, <1>6, <2>2, FS_EmptySet, FS_RemoveElement
    <3>2. I[T] = next(h[Cardinality(T) - 1])[T]
      BY <1>5, <1>6, <3>1
    <3>3. I[T \ {ch(T)}] = h[Cardinality(T) - 1][T \ {ch(T)}]
      BY <1>1, <2>2, <3>1
    <3> HIDE DEF I
    <3> QED BY <2>2, <3>2, <3>3
  <2> QED BY <2>1, <2>2
<1>8. IsSum(I, f, S)
  <2>1. I = [T \in SUBSET S |-> I[T]]
    OBVIOUS
  <2> HIDE DEF I
  <2>2. I = [T \in SUBSET S |-> IF T = {} THEN 0 ELSE f[ch(T)] + I[T \ {ch(T)}]]
    BY <1>7, <2>1
  <2> QED BY <2>2 DEF IsSum, ch
<1> QED BY <1>8

LEMMA SumFacts ==
  ASSUME NEW S, IsFiniteSet(S), NEW f, \A v \in S : f[v] \in Nat
  PROVE  \E J : PartialSums(J, f, S) /\ SumFunctionOnSet(f, S) = J[S]
<1> DEFINE J == CHOOSE I : IsSum(I, f, S)
<1>1. IsSum(J, f, S) /\ SumFunctionOnSet(f, S) = J[S]
  BY SumExists, SumIsFold
<1> HIDE DEF J
<1>2. J[{}] = 0 /\ DOMAIN J = SUBSET S /\ J = [T \in SUBSET S |-> J[T]]
  BY <1>1 DEF IsSum
<1>3. \A T \in SUBSET S : T # {} => \E x \in T : J[T] = f[x] + J[T \ {x}]
  <2>1. \A T \in SUBSET S : T # {} => (CHOOSE x \in T : TRUE) \in T
                     /\ J[T] = f[CHOOSE x \in T : TRUE] + J[T \ {CHOOSE x \in T : TRUE}]
    BY <1>1 DEF IsSum
  <2> QED BY <2>1
<1> DEFINE good == {k \in Nat : \A T \in SUBSET S : Cardinality(T) = k => J[T] \in Nat}
<1>4. \A T \in SUBSET S : IsFiniteSet(T) /\ Cardinality(T) \in Nat
  BY FS_Subset, FS_CardinalityType
<1>5. 0 \in good
  BY <1>2, <1>4, FS_EmptySet
<1>6. ASSUME NEW k \in good PROVE k + 1 \in good
  <2> SUFFICES ASSUME NEW T \in SUBSET S, Cardinality(T) = k + 1 PROVE J[T] \in Nat
    OBVIOUS
  <2>0. k \in Nat /\ k + 1 # 0 /\ (k + 1) - 1 = k
    BY <1>6
  <2>1. T # {}
    BY <2>0, FS_EmptySet
  <2>2. PICK x \in T : J[T] = f[x] + J[T \ {x}]
    BY <1>3, <2>1
  <2>3. Cardinality(T \ {x}) = k /\ T \ {x} \in SUBSET S
    <3>1. IsFiniteSet(T) /\ x \in T
      BY <1>4
    <3>2. Cardinality(T \ {x}) = Cardinality(T) - 1
      BY <3>1, FS_RemoveElement
    <3> QED BY <2>0, <3>2
  <2> QED BY <1>6, <2>2, <2>3
<1>7. good = Nat
  <2>1. good \in SUBSET Nat
    OBVIOUS
  <2> HIDE DEF good
  <2> QED BY <1>5, <1>6, <2>1, SetInduction
<1>8. J \in [SUBSET S -> Nat]
  <2>1. \A T \in SUBSET S : J[T] \in Nat
    BY <1>4, <1>7
  <2> QED BY <1>2, <2>1
<1> QED BY <1>1, <1>2, <1>3, <1>8 DEF PartialSums

LEMMA SumIsNatural ==
  ASSUME NEW S, IsFiniteSet(S), NEW f, \A v \in S : f[v] \in Nat
  PROVE  SumFunctionOnSet(f, S) \in Nat
<1>1. PICK J : PartialSums(J, f, S) /\ SumFunctionOnSet(f, S) = J[S]
  BY SumFacts
<1> QED BY <1>1 DEF PartialSums

------------------------------------------------------------------------------
(* The types of the fields.                                                 *)

(* The invariant of the search for components, for the head tried now.      *)
LEMMA TryingNow ==
  ASSUME NEW g, NEW d, NEW s, SccOK(g, d, s), s.h # 0
  PROVE  Trying(g, d, s.h, s.rep, Restored(d, s.h, s.rep, s.nonback)) /\ s.h \in Numbers(g)
<1>1. SearchDone(g, d) /\ s.h \in Numbers(g)
      /\ RepOK(g, d, s.h, s.rep) /\ PredsOK(g, d, s.h, s.rep, s.nonback)
  <2>1. NumBlocks(g) \in Nat
    BY SearchTypes DEF SccOK, SearchDone, SearchInv
  <2> QED BY <2>1 DEF SccOK, Numbers
<1> QED BY <1>1, RestoreKeeps

LEMMA AlsoIntoTypes ==
  ASSUME NEW g, NEW d, SearchDone(g, d), NEW h \in Numbers(g), NEW rep, NEW origin,
         origin \in [Numbers(g) -> SUBSET (Numbers(g) \X Numbers(g))]
  PROVE  AlsoInto(d, h, rep, origin) \in [Numbers(g) -> SUBSET (Numbers(g) \X Numbers(g))]
<1>1. d.cross[h] \in SUBSET (Numbers(g) \X Numbers(g))
  BY DEF SearchDone, SearchInv, SearchStates
<1>2. \A v \in Numbers(g) : origin[v] \cup {e \in d.cross[h] : rep[e[2]] = v}
                              \in SUBSET (Numbers(g) \X Numbers(g))
  BY <1>1
<1>3. AlsoInto(d, h, rep, origin) = [v \in Numbers(g) |-> origin[v] \cup {e \in d.cross[h] : rep[e[2]] = v}]
  BY DEF AlsoInto
<1> QED BY <1>2, <1>3

LEMMA TrivialTypes ==
  ASSUME NEW g, NEW d, NEW s, NEW t, Placed(g, d, s), s.h # 0, TrivialStep(d, s, t)
  PROVE  FieldsOK(g, t)
<1> DEFINE N == NumBlocks(g)
           h == s.h
           L == Len(s.space)
           cell == [vertex |-> h, type |-> "plain", size |-> 1]
<1>1. /\ N \in Nat /\ h \in Nat /\ h <= N /\ h # 0 /\ L \in Nat /\ L <= 2 * (N - h)
      /\ s.space \in Seq(CellSet(g)) /\ s.next \in Nat /\ s.next >= N + 1 /\ s.next <= 2 * N + 1 - h
  BY PlacedTypes
<1>2. /\ t.h = h - 1 /\ t.exit = s.exit /\ t.d2i = [s.d2i EXCEPT ![h] = L] /\ t.next = s.next
      /\ t.space = Append(s.space, cell) /\ t.origin = AlsoInto(d, h, s.rep, s.origin)
      /\ t.size = [s.size EXCEPT ![h] = 1] /\ t.parent = s.parent
  BY DEF TrivialStep
<1>3. h \in Numbers(g)
  <2> HIDE DEF h
  <2> QED BY <1>1 DEF Numbers
<1>4. cell \in CellSet(g)
  BY <1>3 DEF CellSet
<1>5. /\ s.d2i \in [1..(2 * N) -> Nat] /\ s.exit \in [Numbers(g) -> 1..(2 * N)]
      /\ s.size \in [Numbers(g) -> Nat] /\ s.parent \in [0..(2 * N - 1) -> 0..(2 * N - 1)]
      /\ s.origin \in [Numbers(g) -> SUBSET (Numbers(g) \X Numbers(g))]
  BY DEF Placed, FieldsOK
<1> HIDE DEF cell, h, L, N
<1>6. t.space \in Seq(CellSet(g)) /\ Len(t.space) = L + 1
  BY <1>1, <1>2, <1>4, AppendFacts DEF L
<1>7. h - 1 \in 0..N /\ s.next \in (N + 1)..(2 * N + 1 - (h - 1)) /\ L + 1 <= 2 * (N - (h - 1))
  BY <1>1
<1>8. t.d2i \in [1..(2 * N) -> Nat] /\ t.size \in [Numbers(g) -> Nat]
  <2>1. h \in 1..(2 * N)
    BY <1>1
  <2>2. t.d2i = [s.d2i EXCEPT ![h] = L] /\ t.size = [s.size EXCEPT ![h] = 1]
    BY <1>2
  <2>3. t.size \in [Numbers(g) -> Nat]
    BY <1>3, <1>5, <2>2
  <2>4. t.d2i \in [1..(2 * N) -> Nat]
    BY <1>1, <1>5, <2>1, <2>2
  <2> QED BY <2>3, <2>4
<1>9. t.origin \in [Numbers(g) -> SUBSET (Numbers(g) \X Numbers(g))]
  BY <1>2, <1>3, <1>5, AlsoIntoTypes DEF Placed
<1> QED BY <1>2, <1>5, <1>6, <1>7, <1>8, <1>9 DEF FieldsOK, N

(* The cells that a component adds are of the size of what it merges.       *)
CellsAppended(d, s, t, z) ==
  /\ z = 2 + SumFunctionOnSet(s.size, Nested(d, s.h, s.rep, Restored(d, s.h, s.rep, s.nonback)))
  /\ t.size = [s.size EXCEPT ![s.h] = z]
  /\ t.space = Append(Append(s.space, [vertex |-> s.h, type |-> "exit", size |-> z]),
                      [vertex |-> s.h, type |-> "head", size |-> z])

(* The fields have their types after such a turn.                           *)
LEMMA ComponentTypes ==
  ASSUME NEW g, NEW d, NEW s, NEW t, Placed(g, d, s), s.h # 0, ComponentStep(d, s, t), SccOK(g, d, s)
  PROVE  FieldsOK(g, t) /\ \E z \in Nat : CellsAppended(d, s, t, z)
<1> DEFINE N == NumBlocks(g)
           h == s.h
           x == s.next
           L == Len(s.space)
           R == Nested(d, s.h, s.rep, Restored(d, s.h, s.rep, s.nonback))
           z == 2 + SumFunctionOnSet(s.size, R)
           exit == [vertex |-> h, type |-> "exit", size |-> z]
           head == [vertex |-> h, type |-> "head", size |-> z]
           D == [[s.d2i EXCEPT ![x] = L] EXCEPT ![h] = L + 1]
<1>1. /\ N \in Nat /\ h \in Nat /\ h <= N /\ h # 0 /\ L \in Nat /\ L <= 2 * (N - h)
      /\ s.space \in Seq(CellSet(g)) /\ s.next \in Nat /\ x >= N + 1 /\ x <= 2 * N + 1 - h
      /\ IsGraph(g)
  BY PlacedTypes
<1>2. /\ t.h = h - 1 /\ t.exit = [s.exit EXCEPT ![h] = x] /\ t.d2i = D /\ t.next = x + 1
      /\ t.space = Append(Append(s.space, exit), head) /\ t.origin = AlsoInto(d, h, s.rep, s.origin)
      /\ t.size = [s.size EXCEPT ![h] = z]
      /\ t.parent = [i \in DOMAIN s.parent |-> IF \E v \in R : D[v] = i THEN D[h] ELSE s.parent[i]]
  BY DEF ComponentStep
<1>3. h \in Numbers(g)
  <2> HIDE DEF h
  <2> QED BY <1>1 DEF Numbers
<1>4. R \in SUBSET Numbers(g)
  BY TryingNow, NestedClosed
<1>5. /\ s.d2i \in [1..(2 * N) -> Nat] /\ s.exit \in [Numbers(g) -> 1..(2 * N)]
      /\ s.size \in [Numbers(g) -> Nat] /\ s.parent \in [0..(2 * N - 1) -> 0..(2 * N - 1)]
      /\ s.origin \in [Numbers(g) -> SUBSET (Numbers(g) \X Numbers(g))]
  BY DEF Placed, FieldsOK
<1> HIDE DEF R
<1>6. z \in Nat
  <2>1. IsFiniteSet(R)
    <3>1. IsFiniteSet(1..N)
      BY <1>1, FS_Interval
    <3>2. Numbers(g) = 1..N
      BY DEF Numbers
    <3> HIDE DEF N
    <3> QED BY <1>4, <3>1, <3>2, FS_Subset
  <2>2. SumFunctionOnSet(s.size, R) \in Nat
    BY <1>4, <1>5, <2>1, SumIsNatural
  <2> QED BY <2>2
<1> HIDE DEF z
<1>7. exit \in CellSet(g) /\ head \in CellSet(g)
  BY <1>3, <1>6 DEF CellSet
<1>20. t.size = [s.size EXCEPT ![s.h] = z] /\ t.space = Append(Append(s.space, [vertex |-> s.h, type |-> "exit", size |-> z]),
                                  [vertex |-> s.h, type |-> "head", size |-> z])
  BY <1>2
<1> HIDE DEF exit, head, h, L, N, x
<1>8. t.space \in Seq(CellSet(g)) /\ Len(t.space) = (L + 1) + 1
  <2>1. Append(s.space, exit) \in Seq(CellSet(g)) /\ Len(Append(s.space, exit)) = L + 1
    BY <1>1, <1>7, AppendFacts DEF L
  <2> QED BY <1>2, <1>7, <2>1, AppendFacts
<1>9. h - 1 \in 0..N /\ x + 1 \in (N + 1)..(2 * N + 1 - (h - 1)) /\ (L + 1) + 1 <= 2 * (N - (h - 1))
      /\ x \in 1..(2 * N) /\ h \in 1..(2 * N) /\ L + 1 \in Nat
  <2>1. x \in Nat
    BY <1>1 DEF x
  <2> QED BY <1>1, <2>1
<1>10. D \in [1..(2 * N) -> Nat] /\ t.size \in [Numbers(g) -> Nat]
       /\ t.exit \in [Numbers(g) -> 1..(2 * N)]
  <2>1. [s.d2i EXCEPT ![x] = L] \in [1..(2 * N) -> Nat]
    BY <1>1, <1>5, <1>9
  <2>2. D \in [1..(2 * N) -> Nat]
    BY <1>9, <2>1
  <2>3. t.size = [s.size EXCEPT ![h] = z]
    BY <1>2
  <2>4. t.size \in [Numbers(g) -> Nat]
    BY <1>3, <1>5, <1>6, <2>3
  <2>5. t.exit = [s.exit EXCEPT ![h] = x]
    BY <1>2
  <2>6. t.exit \in [Numbers(g) -> 1..(2 * N)]
    BY <1>3, <1>5, <1>9, <2>5
  <2> QED BY <2>2, <2>4, <2>6
<1>90. D[h] = L + 1 /\ L + 1 \in 0..(2 * N - 1)
  <2>1. D[h] = L + 1
    BY <1>5, <1>9
  <2>2. L + 1 \in 0..(2 * N - 1)
    BY <1>1
  <2> QED BY <2>1, <2>2
<1> HIDE DEF D
<1>11. t.parent \in [0..(2 * N - 1) -> 0..(2 * N - 1)]
  <2>1. D[h] \in 0..(2 * N - 1)
    BY <1>9, <1>90
  <2> DEFINE P == 0..(2 * N - 1)
  <2>2. s.parent \in [P -> P] /\ D[h] \in P
    BY <1>5, <2>1
  <2> HIDE DEF P
  <2>3. t.parent \in [P -> P]
    BY <1>2, <2>2
  <2> QED BY <2>3 DEF P
<1>12. t.origin \in [Numbers(g) -> SUBSET (Numbers(g) \X Numbers(g))]
  <2>1. SearchDone(g, d) /\ s.origin \in [Numbers(g) -> SUBSET (Numbers(g) \X Numbers(g))]
    BY <1>5 DEF Placed
  <2>2. AlsoInto(d, h, s.rep, s.origin) \in [Numbers(g) -> SUBSET (Numbers(g) \X Numbers(g))]
    BY <1>3, <2>1, AlsoIntoTypes
  <2> QED BY <1>2, <2>2
<1>13. FieldsOK(g, t)
  BY <1>2, <1>8, <1>9, <1>10, <1>11, <1>12 DEF FieldsOK, N
<1>14. CellsAppended(d, s, t, z)
  BY <1>20 DEF CellsAppended, z, R
<1> QED BY <1>6, <1>13, <1>14

(* The cells that were there keep their vertices and their indices.         *)
LEMMA CellsKept ==
  ASSUME NEW g, NEW d, NEW s, NEW t, Placed(g, d, s), s.h # 0, FieldsOK(g, t),
         Enlarged(g, d, s, t)
  PROVE  CellsOK(g, d, t)
<1> DEFINE h == s.h
<1>1. /\ h \in Nat /\ h \in Numbers(g) /\ t.h = h - 1 /\ t.h + 1 = h /\ NumBlocks(g) \in Nat
      /\ s.next \in Nat /\ t.next \in Int
  <2>0. t.next \in Int
    BY PlacedTypes DEF FieldsOK
  <2>1. h \in Nat /\ h <= NumBlocks(g) /\ NumBlocks(g) \in Nat /\ h # 0 /\ t.h = h - 1 /\ s.next \in Nat
    BY PlacedTypes DEF Enlarged
  <2> HIDE DEF h
  <2> QED BY <2>0, <2>1 DEF Numbers
<1>2. \A v \in From(g, h) : v = h \/ v \in From(g, h + 1)
  BY <1>1 DEF From, Numbers
<1>3. \A v \in Numbers(g) : v <= t.h => v < h /\ v <= h
  BY <1>1 DEF Numbers
<1>4. \A v \in From(g, h + 1) : v \in From(g, h)
  BY <1>1 DEF From, Numbers
<1>5. h \in From(g, h)
  BY <1>1 DEF From
<1>6. /\ \A v \in From(g, h + 1) : /\ t.d2i[v] = s.d2i[v] /\ t.exit[v] = s.exit[v]
                                   /\ LastOf(t, v) = LastOf(s, v)
      /\ \A c \in Indices(s) : c \in Indices(t) /\ t.space[c + 1] = s.space[c + 1]
      /\ \A c \in Indices(t) : c \in Indices(s) \/ c = t.d2i[h] \/ c = LastOf(t, h)
      /\ t.d2i[h] \in Indices(t) /\ t.d2i[h] = Len(t.space) - 1 /\ VertexAt(t, t.d2i[h]) = h
      /\ LastOf(t, h) \in Indices(t) /\ VertexAt(t, LastOf(t, h)) = h
      /\ h \notin Cyclic(d) => t.exit[h] = h /\ TypeAt(t, t.d2i[h]) = "plain"
      /\ h \in Cyclic(d) => /\ t.exit[h] \in (NumBlocks(g) + 1)..(t.next - 1)
                            /\ LastOf(t, h) = t.d2i[h] - 1
                            /\ TypeAt(t, t.d2i[h]) = "head" /\ TypeAt(t, LastOf(t, h)) = "exit"
      /\ \A v \in Numbers(g) : v < h => t.exit[v] = s.exit[v]
      /\ s.next <= t.next
  BY DEF Enlarged
<1>7. \A c \in Indices(s) : VertexAt(t, c) = VertexAt(s, c) /\ TypeAt(t, c) = TypeAt(s, c)
  BY <1>6 DEF VertexAt, TypeAt
<1>8. \A v \in Numbers(g) : v <= h => s.exit[v] = v
  BY DEF Placed, CellsOK
<1>9. ASSUME NEW v \in From(g, h + 1)
      PROVE  /\ s.d2i[v] \in Indices(s) /\ VertexAt(s, s.d2i[v]) = v
             /\ v \notin Cyclic(d) => s.exit[v] = v /\ TypeAt(s, s.d2i[v]) = "plain"
             /\ v \in Cyclic(d) =>
                  /\ s.exit[v] \in (NumBlocks(g) + 1)..(t.next - 1) /\ TypeAt(s, s.d2i[v]) = "head"
                  /\ LastOf(s, v) \in Indices(s) /\ LastOf(s, v) = s.d2i[v] - 1
                  /\ VertexAt(s, LastOf(s, v)) = v /\ TypeAt(s, LastOf(s, v)) = "exit"
  <2>1. /\ s.d2i[v] \in Indices(s) /\ VertexAt(s, s.d2i[v]) = v
        /\ v \notin Cyclic(d) => s.exit[v] = v /\ TypeAt(s, s.d2i[v]) = "plain"
        /\ v \in Cyclic(d) =>
             /\ s.exit[v] \in (NumBlocks(g) + 1)..(s.next - 1) /\ TypeAt(s, s.d2i[v]) = "head"
             /\ LastOf(s, v) \in Indices(s) /\ LastOf(s, v) = s.d2i[v] - 1
             /\ VertexAt(s, LastOf(s, v)) = v /\ TypeAt(s, LastOf(s, v)) = "exit"
    BY DEF Placed, CellsOK
  <2>2. \A e \in (NumBlocks(g) + 1)..(s.next - 1) : e \in (NumBlocks(g) + 1)..(t.next - 1)
    BY <1>1, <1>6
  <2> DEFINE A == (NumBlocks(g) + 1)..(s.next - 1)
             B == (NumBlocks(g) + 1)..(t.next - 1)
  <2>3. \A e \in A : e \in B
    BY <2>2
  <2>4. v \in Cyclic(d) => s.exit[v] \in A
    BY <2>1
  <2> HIDE DEF A, B
  <2>5. v \in Cyclic(d) => s.exit[v] \in B
    BY <2>3, <2>4
  <2> QED BY <2>1, <2>5 DEF B
<1>10. ASSUME NEW c \in Indices(s)
       PROVE  LET v == VertexAt(s, c)
              IN  /\ v \in From(g, h + 1)
                  /\ (TypeAt(s, c) # "exit" /\ c = s.d2i[v]) \/ (v \in Cyclic(d) /\ c = LastOf(s, v))
  BY DEF Placed, CellsOK
<1> HIDE DEF h
<1>11. ASSUME NEW c \in Indices(t)
       PROVE  LET v == VertexAt(t, c)
              IN  /\ v \in From(g, h)
                  /\ (TypeAt(t, c) # "exit" /\ c = t.d2i[v]) \/ (v \in Cyclic(d) /\ c = LastOf(t, v))
  <2>1. CASE c \in Indices(s)
    BY <1>4, <1>6, <1>7, <1>10, <2>1
  <2>2. CASE c = t.d2i[h]
    <3>1. TypeAt(t, c) = "head" \/ TypeAt(t, c) = "plain"
      BY <1>6, <2>2
    <3> QED BY <1>5, <1>6, <2>2, <3>1
  <2>3. CASE c = LastOf(t, h)
    <3>1. h \notin Cyclic(d) => c = t.d2i[h]
      BY <1>6, <2>3 DEF LastOf
    <3> QED BY <1>5, <1>6, <2>2, <2>3, <3>1
  <2> QED BY <1>6, <2>1, <2>2, <2>3
<1>12. ASSUME NEW v \in From(g, h)
       PROVE  /\ t.d2i[v] \in Indices(t) /\ VertexAt(t, t.d2i[v]) = v
              /\ v \notin Cyclic(d) => t.exit[v] = v /\ TypeAt(t, t.d2i[v]) = "plain"
              /\ v \in Cyclic(d) =>
                   /\ t.exit[v] \in (NumBlocks(g) + 1)..(t.next - 1) /\ TypeAt(t, t.d2i[v]) = "head"
                   /\ LastOf(t, v) \in Indices(t) /\ LastOf(t, v) = t.d2i[v] - 1
                   /\ VertexAt(t, LastOf(t, v)) = v /\ TypeAt(t, LastOf(t, v)) = "exit"
  <2>1. CASE v = h
    BY <1>6, <2>1
  <2>2. CASE v \in From(g, h + 1)
    BY <1>6, <1>7, <1>9, <2>2
  <2> QED BY <1>2, <2>1, <2>2
<1> QED BY <1>1, <1>3, <1>6, <1>8, <1>11, <1>12 DEF CellsOK

------------------------------------------------------------------------------
(* One turn of the loop over heads.                                         *)

(* One turn keeps all of this.                                              *)
LEMMA StepEffect ==
  ASSUME NEW g, NEW d, NEW s, SccOK(g, d, s), Placed(g, d, s), s.h # 0
  PROVE  LET t == SccStep(d, s)
         IN  SccOK(g, d, t) /\ Placed(g, d, t) /\ Enlarged(g, d, s, t)
<1> DEFINE t == SccStep(d, s)
<1>1. SccOK(g, d, t) /\ IsScc(s) /\ SearchDone(g, d)
  BY SccStepOK DEF SccOK
<1>2. FieldsOK(g, t) /\ Enlarged(g, d, s, t)
  <2>1. CASE d.back[s.h] = {}
    <3>1. TrivialStep(d, s, t)
      BY <1>1, <2>1, TrivialFields
    <3> HIDE DEF t
    <3> QED BY <2>1, <3>1, TrivialTypes, TrivialEnlarges
  <2>2. CASE d.back[s.h] # {}
    <3>1. ComponentStep(d, s, t)
      <4>1. s.space \in Seq(CellSet(g))
        BY PlacedTypes
      <4> QED BY <1>1, <2>2, <4>1, ComponentFields
    <3> HIDE DEF t
    <3>2. FieldsOK(g, t) /\ \E z \in Nat : CellsAppended(d, s, t, z)
      BY <3>1, ComponentTypes
    <3>3. PICK z \in Nat : CellsAppended(d, s, t, z)
      BY <3>2
    <3>4. /\ t.size = [s.size EXCEPT ![s.h] = z]
          /\ t.space = Append(Append(s.space, [vertex |-> s.h, type |-> "exit", size |-> z]),
                              [vertex |-> s.h, type |-> "head", size |-> z])
      BY <3>3 DEF CellsAppended
    <3> QED BY <2>2, <3>1, <3>2, <3>4, ComponentEnlarges
  <2> QED BY <2>1, <2>2
<1> HIDE DEF t
<1>3. CellsOK(g, d, t)
  BY <1>2, CellsKept
<1> QED BY <1>1, <1>2, <1>3 DEF Placed, t

(* From h upwards: h, or from h + 1 upwards.                                *)
LEMMA Nearer ==
  ASSUME NEW g, NEW h \in Nat, h # 0, h \in Numbers(g)
  PROVE  /\ \A v \in From(g, h) : v = h \/ v \in From(g, h + 1)
         /\ \A v \in From(g, h + 1) : v \in From(g, h) /\ v # h /\ v \in Numbers(g) /\ h < v
         /\ h \in From(g, h) /\ (h - 1) + 1 = h
BY DEF From, Numbers

(* The indices of different vertices are different.                         *)
LEMMA IndexOfVertex ==
  ASSUME NEW g, NEW d, NEW s, Placed(g, d, s)
  PROVE  /\ \A u, v \in From(g, s.h + 1) : s.d2i[u] = s.d2i[v] => u = v
         /\ \A u, v \in From(g, s.h + 1) : LastOf(s, u) = LastOf(s, v) => u = v
         /\ \A u, v \in From(g, s.h + 1) : LastOf(s, u) = s.d2i[v] => u = v /\ u \notin Cyclic(d)
         /\ \A u \in From(g, s.h + 1) : LastOf(s, u) \in Indices(s) /\ VertexAt(s, LastOf(s, u)) = u
                                          /\ s.d2i[u] \in Indices(s) /\ VertexAt(s, s.d2i[u]) = u
                                          /\ (u \notin Cyclic(d) => LastOf(s, u) = s.d2i[u])
<1>1. \A u \in From(g, s.h + 1) : LastOf(s, u) \in Indices(s) /\ VertexAt(s, LastOf(s, u)) = u
                                  /\ s.d2i[u] \in Indices(s) /\ VertexAt(s, s.d2i[u]) = u
                                  /\ (u \notin Cyclic(d) => LastOf(s, u) = s.d2i[u])
                                  /\ (u \in Cyclic(d) => TypeAt(s, LastOf(s, u)) = "exit" /\ TypeAt(s, s.d2i[u]) = "head")
  BY DEF Placed, CellsOK, LastOf
<1>2. "exit" # "head"
  OBVIOUS
<1> QED BY <1>1, <1>2

(* What the step does to a vertex after h: it stays where it was, or it     *)
(* goes from its own representative to h.                                   *)
RepStep(g, d, s, t) ==
  LET h == s.h
      R == Nested(d, h, s.rep, Restored(d, h, s.rep, s.nonback))
  IN  /\ RootFacts(g, d, h, s.rep) /\ RootFacts(g, d, h - 1, t.rep)
      /\ R \subseteq From(g, h + 1) /\ \A r \in R : s.rep[r] = r /\ r \in LoopOf(g, d, h)
      /\ h \notin Cyclic(d) => R = {} /\ t.rep = s.rep /\ LoopOf(g, d, h) = {h}
      /\ t.rep[h] = h /\ s.rep[h] = h
      /\ \A v \in From(g, h + 1) : IF v \in LoopOf(g, d, h) THEN s.rep[v] \in R /\ t.rep[v] = h
                                   ELSE s.rep[v] \notin R /\ t.rep[v] = s.rep[v]

(* A turn makes h the representative of what it merges, and the parent of   *)
(* what it merges directly.                                                 *)
LEMMA RepsStepped ==
  ASSUME NEW g, NEW d, NEW s, SccOK(g, d, s), Placed(g, d, s), s.h # 0
  PROVE  RepStep(g, d, s, SccStep(d, s))
<1> DEFINE h == s.h
           t == SccStep(d, s)
           nonback == Restored(d, h, s.rep, s.nonback)
           R == Nested(d, h, s.rep, nonback)
<1>1. SccOK(g, d, t) /\ t.h = h - 1 /\ IsScc(s) /\ SearchDone(g, d) /\ h \in 0..NumBlocks(g)
      /\ Trying(g, d, h, s.rep, nonback) /\ h \in Numbers(g)
      /\ s.space \in Seq(CellSet(g)) /\ DOMAIN d.back = Numbers(g)
  BY SccStepOK, TryingNow, PlacedTypes DEF SccOK
<1>2. d.back[h] = {} => t.rep = s.rep
  <2>1. d.back[h] = {} => TrivialStep(d, s, t)
    BY <1>1, TrivialFields
  <2> HIDE DEF t
  <2> QED BY <2>1 DEF TrivialStep
<1>3. d.back[h] # {} => t.rep = Merged(h, s.rep, R)
  <2>1. d.back[h] # {} => ComponentStep(d, s, t)
    BY <1>1, ComponentFields
  <2> HIDE DEF t
  <2> QED BY <2>1 DEF ComponentStep
<1> HIDE DEF t
<1>4. RootFacts(g, d, h, s.rep) /\ RootFacts(g, d, h - 1, t.rep)
  <2>1. t.h \in 0..NumBlocks(g) /\ RepOK(g, d, t.h, t.rep) /\ RepOK(g, d, h, s.rep)
    BY <1>1 DEF SccOK
  <2> QED BY <1>1, <2>1, Roots
<1> HIDE DEF nonback
<1>5. \A r \in R : r \in From(g, h + 1) /\ r \in LoopOf(g, d, h) /\ s.rep[r] = r
  BY <1>1, NestedInside DEF LoopOf
<1>6. \A u \in LoopOf(g, d, h) : u # h => s.rep[u] \in R
  BY <1>1, NestedAll DEF LoopOf
<1>7. d.back[h] = {} => R = {}
  <2>1. IsEdges(PredsOf(h, s.rep, nonback), Numbers(g))
    BY <1>1, NestedTypes
  <2>2. d.back[h] = {} => Targets(d, h, s.rep) = {}
    BY DEF Targets
  <2>3. d.back[h] = {} => Nested(d, h, s.rep, nonback) \subseteq {}
    BY <2>1, <2>2, ReachLeast DEF Nested, Closed
  <2> QED BY <2>3
<1> HIDE DEF R
<1>8. h \notin Cyclic(d) <=> d.back[h] = {}
  BY <1>1 DEF Cyclic
<1>9. h \notin Cyclic(d) => LoopOf(g, d, h) = {h}
  BY <1>1, Loops DEF LoopFacts
<1>10. h \in Nat /\ h # 0 /\ (h - 1) + 1 = h /\ ~ (h > h) /\ h \in From(g, h) /\ h \notin From(g, h + 1)
  BY <1>1, Nearer DEF Numbers
<1>11. s.rep[h] = h
  BY <1>1, <1>10 DEF SccOK, RepOK
<1>12. t.rep = IF d.back[h] = {} THEN s.rep ELSE [v \in Numbers(g) |-> IF s.rep[v] \in R THEN h ELSE s.rep[v]]
  <2>1. DOMAIN s.rep = Numbers(g)
    BY <1>1 DEF SccOK, RepOK
  <2> QED BY <1>2, <1>3, <2>1 DEF Merged
<1>13. h \notin R
  BY <1>5, <1>10
<1>14. t.rep[h] = h
  BY <1>1, <1>11, <1>12, <1>13
<1>15. ASSUME NEW v \in From(g, h + 1)
       PROVE  IF v \in LoopOf(g, d, h) THEN s.rep[v] \in R /\ t.rep[v] = h
                                   ELSE s.rep[v] \notin R /\ t.rep[v] = s.rep[v]
  <2>1. v # h /\ v \in Numbers(g) /\ v \in From(g, h)
    BY <1>1, <1>10, Nearer
  <2>2. CASE v \in LoopOf(g, d, h)
    <3>1. s.rep[v] \in R /\ d.back[h] # {}
      BY <1>6, <1>8, <1>9, <2>1, <2>2
    <3> QED BY <1>12, <2>1, <2>2, <3>1
  <2>3. CASE v \notin LoopOf(g, d, h)
    <3>1. s.rep[v] \notin R
      <4>1. SUFFICES ASSUME s.rep[v] \in R PROVE FALSE
        OBVIOUS
      <4>2. t.rep[v] = h
        BY <1>7, <1>12, <2>1, <4>1
      <4>3. v \in LoopOf(g, d, h)
        BY <1>4, <1>10, <2>1, <4>2 DEF RootFacts
      <4> QED BY <2>3, <4>3
    <3> QED BY <1>12, <2>1, <2>3, <3>1
  <2> QED BY <2>2, <2>3
<1> QED BY <1>4, <1>5, <1>7, <1>8, <1>9, <1>11, <1>12, <1>14, <1>15 DEF RepStep, t, R, nonback

------------------------------------------------------------------------------
(* The parents.                                                             *)

(* Of the loops around v, k is the innermost.                               *)
Innermost(g, d, v, k) ==
  /\ k \in Numbers(g) /\ k \in Cyclic(d) /\ k < v /\ v \in LoopOf(g, d, k)
  /\ \A j \in Numbers(g) : k < j /\ j < v => v \notin LoopOf(g, d, j)

(* A cell that was merged has the head of its innermost loop as its parent. *)
ParentsOK(g, d, s) ==
  \A v \in From(g, s.h + 1) : s.rep[v] # v =>
    \E k \in From(g, s.h + 1) : Innermost(g, d, v, k) /\ s.parent[s.d2i[v]] = s.d2i[k]

(* At the beginning nothing is merged, and each turn sets the parents of    *)
(* those that it merges: the loop of h is the innermost one around them,    *)
(* because the loops between were tried before.                             *)
LEMMA InitParents == ASSUME NEW g, NEW d, SearchDone(g, d) PROVE ParentsOK(g, d, InitScc(d))
<1>1. Placed(g, d, InitScc(d)) /\ InitScc(d).h = NumBlocks(g)
  <2>1. DOMAIN d.back = 1..NumBlocks(g) /\ NumBlocks(g) \in Nat
    BY SearchTypes DEF SearchDone, SearchInv, SearchStates, Numbers
  <2>2. Cardinality(1..NumBlocks(g)) = NumBlocks(g)
    BY <2>1, FS_Interval
  <2> QED BY <2>1, <2>2, PlacedInit, InitSame
<1> DEFINE s == InitScc(d)
<1> HIDE DEF s
<1>2. \A v \in From(g, s.h + 1) : v \in Numbers(g) /\ v > s.h /\ v <= NumBlocks(g) /\ v \in Nat
  BY <1>1, PlacedTypes DEF s
<1>3. NumBlocks(g) \in Nat
  BY <1>1, PlacedTypes DEF s
<1>4. \A v \in From(g, s.h + 1) : FALSE
  BY <1>1, <1>2, <1>3 DEF s
<1> QED BY <1>4 DEF ParentsOK, s

LEMMA StepParents ==
  ASSUME NEW g, NEW d, NEW s, SccOK(g, d, s), Placed(g, d, s), s.h # 0, ParentsOK(g, d, s)
  PROVE  ParentsOK(g, d, SccStep(d, s))
<1> DEFINE h == s.h
           t == SccStep(d, s)
           R == Nested(d, h, s.rep, Restored(d, h, s.rep, s.nonback))
<1>1. SccOK(g, d, t) /\ Placed(g, d, t) /\ Enlarged(g, d, s, t) /\ RepStep(g, d, s, t)
      /\ IsScc(s) /\ SearchDone(g, d) /\ h \in Numbers(g) /\ h \in Nat
      /\ s.space \in Seq(CellSet(g)) /\ DOMAIN d.back = Numbers(g)
  BY StepEffect, RepsStepped, TryingNow, PlacedTypes DEF SccOK
<1>2. d.back[h] = {} => t.parent = s.parent
  <2>1. d.back[h] = {} => TrivialStep(d, s, t)
    BY <1>1, TrivialFields
  <2> HIDE DEF t
  <2> QED BY <2>1 DEF TrivialStep
<1>3. d.back[h] # {} => t.parent = [i \in DOMAIN s.parent |->
                                      IF \E v \in R : t.d2i[v] = i THEN t.d2i[h] ELSE s.parent[i]]
  <2>1. d.back[h] # {} => ComponentStep(d, s, t)
    BY <1>1, ComponentFields
  <2> DEFINE D == [[s.d2i EXCEPT ![s.next] = Len(s.space)] EXCEPT ![h] = Len(s.space) + 1]
  <2> HIDE DEF t, R
  <2>2. d.back[h] # {} => t.d2i = D
    BY <2>1 DEF ComponentStep
  <2>3. d.back[h] # {} => t.parent = [i \in DOMAIN s.parent |->
                                        IF \E v \in R : D[v] = i THEN D[h] ELSE s.parent[i]]
    BY <2>1 DEF ComponentStep, R
  <2> HIDE DEF D
  <2> QED BY <2>2, <2>3
<1> HIDE DEF t
<1>4. RootFacts(g, d, h, s.rep) /\ RootFacts(g, d, h - 1, t.rep)
      /\ R \subseteq From(g, h + 1) /\ (\A r \in R : s.rep[r] = r /\ r \in LoopOf(g, d, h))
      /\ (h \notin Cyclic(d) => R = {} /\ t.rep = s.rep /\ LoopOf(g, d, h) = {h})
      /\ t.rep[h] = h /\ s.rep[h] = h
      /\ \A v \in From(g, h + 1) : IF v \in LoopOf(g, d, h) THEN s.rep[v] \in R /\ t.rep[v] = h
                                   ELSE s.rep[v] \notin R /\ t.rep[v] = s.rep[v]
  BY <1>1 DEF RepStep
<1> HIDE DEF R
<1>5. /\ \A v \in From(g, h) : v = h \/ v \in From(g, h + 1)
      /\ \A v \in From(g, h + 1) : v \in From(g, h) /\ v # h /\ v \in Numbers(g) /\ h < v
      /\ h \in From(g, h) /\ (h - 1) + 1 = h /\ t.h = h - 1 /\ h \in Nat
  <2>1. h # 0
    OBVIOUS
  <2>2. t.h = h - 1
    BY <1>1 DEF Enlarged
  <2> HIDE DEF h
  <2> QED BY <1>1, <2>1, <2>2, Nearer
<1>6. \A v \in From(g, h + 1) : t.d2i[v] = s.d2i[v] /\ s.d2i[v] \in Indices(s)
  BY <1>1 DEF Enlarged, Placed, CellsOK
<1>7. \A u, v \in From(g, h + 1) : s.d2i[u] = s.d2i[v] => u = v
  BY IndexOfVertex
<1>8. \A c \in Indices(s) : c \in DOMAIN s.parent
  <2>1. Len(s.space) \in Nat /\ NumBlocks(g) \in Nat /\ Len(s.space) <= 2 * (NumBlocks(g) - h)
    BY PlacedTypes
  <2>2. DOMAIN s.parent = 0..(2 * NumBlocks(g) - 1)
    BY DEF Placed, FieldsOK
  <2> HIDE DEF h
  <2> QED BY <1>1, <2>1, <2>2 DEF Indices
<1>9. ASSUME NEW v \in From(g, h), t.rep[v] # v
      PROVE  \E k \in From(g, h) : Innermost(g, d, v, k) /\ t.parent[t.d2i[v]] = t.d2i[k]
  <2>1. v \in From(g, h + 1) /\ v \in Numbers(g) /\ h < v
    BY <1>4, <1>5, <1>9
  <2>2. CASE v \in R
    <3>1. h \in Cyclic(d) /\ d.back[h] # {} /\ v \in LoopOf(g, d, h)
      BY <1>1, <1>4, <2>2 DEF Cyclic
    <3>2. t.parent[t.d2i[v]] = t.d2i[h]
      BY <1>3, <1>6, <1>8, <2>1, <2>2, <3>1
    <3>3. ASSUME NEW j \in Numbers(g), h < j, j < v, v \in LoopOf(g, d, j) PROVE FALSE
      <4>1. j \in Nat /\ v \in Nat /\ h \in Nat /\ j > h
        BY <1>5, <2>1, <3>3 DEF Numbers
      <4>2. j \in From(g, h + 1)
        BY <1>4, <4>1 DEF RootFacts
      <4>3. s.rep[j] = v
        BY <1>4, <2>2, <3>3, <4>2 DEF RootFacts
      <4>4. j \in LoopOf(g, d, v)
        BY <1>4, <4>2, <4>3 DEF RootFacts
      <4>5. v <= j
        BY <1>1, <2>1, <4>4, Loops DEF LoopFacts
      <4> QED BY <3>3, <4>1, <4>5
    <3>4. Innermost(g, d, v, h)
      BY <1>1, <2>1, <3>1, <3>3 DEF Innermost
    <3> QED BY <1>5, <3>2, <3>4
  <2>3. CASE v \notin R
    <3>1. s.rep[v] # v
      BY <1>4, <1>9, <2>1, <2>3
    <3>2. PICK k \in From(g, h + 1) : Innermost(g, d, v, k) /\ s.parent[s.d2i[v]] = s.d2i[k]
      BY <2>1, <3>1 DEF ParentsOK
    <3>3. \A u \in R : t.d2i[u] # t.d2i[v]
      BY <1>4, <1>6, <1>7, <2>1, <2>3
    <3>4. t.parent[t.d2i[v]] = s.parent[s.d2i[v]]
      BY <1>2, <1>3, <1>6, <1>8, <2>1, <3>3
    <3> QED BY <1>5, <1>6, <3>2, <3>4
  <2> QED BY <2>2, <2>3
<1> QED BY <1>5, <1>9 DEF ParentsOK, t

------------------------------------------------------------------------------
(* The maximal components.                                                  *)

(* The effect of ordering the maximal components.                           *)
TopStep(s, t) ==
  LET tops == {v \in DOMAIN s.rep : s.rep[v] = v}
  IN  /\ Added(s.links, InnerLinks(s.d2i, s.exit, s.rep, s.origin, tops), t.links) /\ IsScc(t)
      /\ t.h = s.h /\ t.nonback = s.nonback /\ t.rep = s.rep /\ t.exit = s.exit
      /\ t.origin = s.origin /\ t.size = s.size /\ t.d2i = s.d2i /\ t.next = s.next
      /\ t.space = s.space
      /\ t.parent = [i \in DOMAIN s.parent |-> IF \E v \in tops : s.d2i[v] = i THEN i ELSE s.parent[i]]

LEMMA TopFields == ASSUME NEW s, IsScc(s) PROVE TopStep(s, Toplevel(s))
<1> DEFINE tops == {v \in DOMAIN s.rep : s.rep[v] = v}
           ls == UNION {EdgesInto(s, v) : v \in tops}
           a == AddSuccessors(s, ls)
           parents == [i \in DOMAIN a.parent |-> IF \E v \in tops : s.d2i[v] = i THEN i ELSE a.parent[i]]
           t == Toplevel(s)
<1>1. t = [a EXCEPT !.parent = parents]
  BY DEF Toplevel
<1>2. ls = InnerLinks(s.d2i, s.exit, s.rep, s.origin, tops)
  <2>1. \A v \in tops : EdgesInto(s, v) = {InnerLink(s.d2i, s.exit, s.rep, v, e) : e \in s.origin[v]}
    BY DEF EdgesInto, Link, InnerLink
  <2> HIDE DEF tops
  <2> QED BY <2>1 DEF InnerLinks
<1> HIDE DEF ls, t
<1>3. LinksAdded(s, ls, a)
  BY AddOnce
<1> HIDE DEF a, tops
<1>4. parents = [i \in DOMAIN s.parent |-> IF \E v \in tops : s.d2i[v] = i THEN i ELSE s.parent[i]]
  BY <1>3 DEF LinksAdded
<1> HIDE DEF parents
<1>5. IsScc(a)
  BY <1>3 DEF LinksAdded
<1>6. /\ IsScc(t) /\ t.h = a.h /\ t.nonback = a.nonback /\ t.rep = a.rep /\ t.exit = a.exit
      /\ t.origin = a.origin /\ t.size = a.size /\ t.d2i = a.d2i /\ t.next = a.next
      /\ t.space = a.space /\ t.links = a.links /\ t.parent = parents
  BY <1>1, <1>5 DEF IsScc, SccFields
<1> QED BY <1>2, <1>3, <1>4, <1>6 DEF LinksAdded, TopStep, t, tops

(* The finished search: the parents lead from each vertex to its loops,     *)
(* innermost first.                                                         *)
Settled(g, d, s) ==
  /\ s.h = 0 /\ SccOK(g, d, s) /\ Placed(g, d, s)
  /\ \A v \in Numbers(g) : IF s.rep[v] = v THEN s.parent[s.d2i[v]] = s.d2i[v]
       ELSE \E k \in Numbers(g) : Innermost(g, d, v, k) /\ s.parent[s.d2i[v]] = s.d2i[k]

LEMMA FromOne ==
  ASSUME NEW g PROVE From(g, 0 + 1) = Numbers(g)
BY DEF From, Numbers

LEMMA TopPlaced ==
  ASSUME NEW g, NEW d, NEW s, Placed(g, d, s), NEW t, TopStep(s, t)
  PROVE  Placed(g, d, t)
<1> DEFINE tops == {v \in DOMAIN s.rep : s.rep[v] = v}
           P == 0..(2 * NumBlocks(g) - 1)
<1>1. /\ t.h = s.h /\ t.nonback = s.nonback /\ t.rep = s.rep /\ t.exit = s.exit
      /\ t.origin = s.origin /\ t.size = s.size /\ t.d2i = s.d2i /\ t.next = s.next
      /\ t.space = s.space
      /\ t.parent = [i \in DOMAIN s.parent |-> IF \E v \in tops : s.d2i[v] = i THEN i ELSE s.parent[i]]
  BY DEF TopStep
<1>2. s.parent \in [P -> P]
  BY DEF Placed, FieldsOK
<1> HIDE DEF P, tops
<1>3. t.parent \in [P -> P]
  BY <1>1, <1>2
<1>4. FieldsOK(g, t)
  BY <1>1, <1>3 DEF Placed, FieldsOK, P
<1>5. CellsOK(g, d, t)
  <2>1. CellsOK(g, d, s)
    BY DEF Placed
  <2>2. Indices(t) = Indices(s) /\ (\A c : VertexAt(t, c) = VertexAt(s, c) /\ TypeAt(t, c) = TypeAt(s, c))
        /\ \A v : LastOf(t, v) = LastOf(s, v)
    BY <1>1 DEF Indices, VertexAt, TypeAt, LastOf
  <2> QED BY <1>1, <2>1, <2>2 DEF CellsOK
<1> QED BY <1>4, <1>5 DEF Placed

(* After the last turn the parents lead to the maximal components, which    *)
(* are their own parents.                                                   *)
LEMMA TopSettles ==
  ASSUME NEW g, NEW d, NEW s, SccOK(g, d, s), Placed(g, d, s), s.h = 0, ParentsOK(g, d, s)
  PROVE  Settled(g, d, Toplevel(s))
<1> DEFINE t == Toplevel(s)
           tops == {v \in DOMAIN s.rep : s.rep[v] = v}
<1>1. SccOK(g, d, t) /\ TopStep(s, t)
  BY SccTop, TopFields DEF SccOK
<1> HIDE DEF t
<1>2. Placed(g, d, t)
  BY <1>1, TopPlaced
<1>3. t.h = s.h /\ t.rep = s.rep /\ t.d2i = s.d2i
      /\ t.parent = [i \in DOMAIN s.parent |-> IF \E v \in tops : s.d2i[v] = i THEN i ELSE s.parent[i]]
  BY <1>1 DEF TopStep
<1>4. DOMAIN s.rep = Numbers(g) /\ From(g, s.h + 1) = Numbers(g)
  BY FromOne DEF SccOK, RepOK
<1>5. \A u, v \in Numbers(g) : s.d2i[u] = s.d2i[v] => u = v
  BY <1>4, IndexOfVertex
<1>6. \A v \in Numbers(g) : s.d2i[v] \in DOMAIN s.parent
  <2>1. Len(s.space) \in Nat /\ NumBlocks(g) \in Nat /\ Len(s.space) <= 2 * (NumBlocks(g) - s.h)
    BY PlacedTypes
  <2>2. DOMAIN s.parent = 0..(2 * NumBlocks(g) - 1)
    BY DEF Placed, FieldsOK
  <2>3. \A v \in Numbers(g) : s.d2i[v] \in Indices(s)
    BY <1>4, IndexOfVertex
  <2>4. \A c \in Indices(s) : c \in DOMAIN s.parent
    BY <2>1, <2>2 DEF Indices
  <2> QED BY <2>3, <2>4
<1>7. ASSUME NEW v \in Numbers(g)
      PROVE  IF t.rep[v] = v THEN t.parent[t.d2i[v]] = t.d2i[v]
             ELSE \E k \in Numbers(g) : Innermost(g, d, v, k) /\ t.parent[t.d2i[v]] = t.d2i[k]
  <2>1. CASE s.rep[v] = v
    <3>1. v \in tops
      BY <1>4, <2>1
    <3> HIDE DEF tops
    <3>2. t.parent[s.d2i[v]] = s.d2i[v]
      BY <1>3, <1>6, <3>1
    <3> QED BY <1>3, <2>1, <3>2
  <2>2. CASE s.rep[v] # v
    <3>1. PICK k \in Numbers(g) : Innermost(g, d, v, k) /\ s.parent[s.d2i[v]] = s.d2i[k]
      BY <1>4, <2>2 DEF ParentsOK
    <3>2. ~ \E u \in tops : s.d2i[u] = s.d2i[v]
      BY <1>4, <1>5, <2>2
    <3> HIDE DEF tops
    <3>3. t.parent[s.d2i[v]] = s.parent[s.d2i[v]]
      BY <1>3, <1>6, <3>2
    <3> QED BY <1>3, <2>2, <3>1, <3>3
  <2> QED BY <2>1, <2>2
<1> QED BY <1>1, <1>2, <1>3, <1>7 DEF Settled, t

(* All that is used of it, one by one.                                      *)
LEMMA RootLoops ==
  ASSUME NEW g, NEW d, NEW s, Settled(g, d, s)
  PROVE  /\ LoopFacts(g, d) /\ IsGraph(g) /\ SearchDone(g, d) /\ From(g, s.h + 1) = Numbers(g)
         /\ DOMAIN d.back = Numbers(g) /\ NumBlocks(g) \in Nat
         /\ \A v \in Numbers(g) : v \in Nat /\ s.d2i[v] \in Indices(s) /\ s.d2i[v] \in DOMAIN s.parent
         /\ s.parent \in [DOMAIN s.parent -> DOMAIN s.parent] /\ IsFiniteSet(DOMAIN s.parent)
         /\ \A u, v \in Numbers(g) : s.d2i[u] = s.d2i[v] => u = v
         /\ \A v \in Numbers(g) : s.rep[v] = v =>
              s.parent[s.d2i[v]] = s.d2i[v] /\ \A k \in Numbers(g) : v \in LoopOf(g, d, k) <=> k = v
         /\ \A v \in Numbers(g) : s.rep[v] # v =>
              \E j \in Numbers(g) : /\ Innermost(g, d, v, j) /\ s.parent[s.d2i[v]] = s.d2i[j]
                                    /\ s.d2i[j] # s.d2i[v]
                                    /\ \A k \in Numbers(g) : v \in LoopOf(g, d, k) <=> k = v \/ j \in LoopOf(g, d, k)
<1>1. /\ SearchDone(g, d) /\ IsGraph(g) /\ LoopFacts(g, d) /\ From(g, s.h + 1) = Numbers(g)
      /\ Placed(g, d, s) /\ RootFacts(g, d, 0, s.rep) /\ DOMAIN d.back = Numbers(g) /\ NumBlocks(g) \in Nat
  <2>1. Placed(g, d, s) /\ SccOK(g, d, s) /\ s.h = 0 /\ SearchDone(g, d)
    BY DEF Settled, SccOK
  <2>2. RootFacts(g, d, 0, s.rep)
    BY <2>1, Roots DEF SccOK
  <2> QED BY <2>1, <2>2, PlacedTypes, Loops, FromOne
<1>2. \A u, v \in Numbers(g) : s.d2i[u] = s.d2i[v] => u = v
  BY <1>1, IndexOfVertex
<1>3. /\ \A v \in Numbers(g) : v \in Nat /\ s.d2i[v] \in Indices(s) /\ s.d2i[v] \in DOMAIN s.parent
      /\ s.parent \in [DOMAIN s.parent -> DOMAIN s.parent] /\ IsFiniteSet(DOMAIN s.parent)
  <2>1. Len(s.space) \in Nat /\ Len(s.space) <= 2 * (NumBlocks(g) - s.h) /\ s.h = 0
    BY <1>1, PlacedTypes DEF Settled
  <2>2. DOMAIN s.parent = 0..(2 * NumBlocks(g) - 1) /\ s.parent \in [DOMAIN s.parent -> DOMAIN s.parent]
    BY <1>1 DEF Placed, FieldsOK
  <2>3. \A v \in Numbers(g) : s.d2i[v] \in Indices(s)
    BY <1>1, IndexOfVertex
  <2>4. \A c \in Indices(s) : c \in DOMAIN s.parent
    BY <1>1, <2>1, <2>2 DEF Indices
  <2>5. 2 * NumBlocks(g) - 1 \in Int /\ 0 \in Int
    BY <1>1
  <2>6. IsFiniteSet(DOMAIN s.parent)
    BY <2>2, <2>5, FS_Interval
  <2> QED BY <2>2, <2>3, <2>4, <2>6 DEF Numbers
<1>4. ASSUME NEW v \in Numbers(g), s.rep[v] = v
      PROVE  s.parent[s.d2i[v]] = s.d2i[v] /\ \A k \in Numbers(g) : v \in LoopOf(g, d, k) <=> k = v
  <2>1. s.parent[s.d2i[v]] = s.d2i[v]
    BY <1>4 DEF Settled
  <2>2. ASSUME NEW k \in Numbers(g), v \in LoopOf(g, d, k) PROVE k = v
    <3>1. k <= v /\ k \in From(g, 0 + 1) /\ k \in Nat /\ v \in Nat
      BY <1>1, <1>3, <2>2, FromOne DEF LoopFacts
    <3>2. s.rep[k] = v
      BY <1>1, <1>4, <2>2, <3>1 DEF RootFacts
    <3>3. k \in LoopOf(g, d, v)
      BY <1>1, <3>1, <3>2 DEF RootFacts
    <3>4. v <= k
      BY <1>1, <3>3 DEF LoopFacts
    <3> QED BY <3>1, <3>4
  <2>3. v \in LoopOf(g, d, v)
    BY <1>1 DEF LoopFacts
  <2> QED BY <2>1, <2>2, <2>3
<1>5. ASSUME NEW v \in Numbers(g), s.rep[v] # v
      PROVE  \E j \in Numbers(g) : /\ Innermost(g, d, v, j) /\ s.parent[s.d2i[v]] = s.d2i[j]
                                    /\ s.d2i[j] # s.d2i[v]
                                    /\ \A k \in Numbers(g) : v \in LoopOf(g, d, k) <=> k = v \/ j \in LoopOf(g, d, k)
  <2>1. PICK j \in Numbers(g) : Innermost(g, d, v, j) /\ s.parent[s.d2i[v]] = s.d2i[j]
    BY <1>5 DEF Settled
  <2>2. j < v /\ v \in LoopOf(g, d, j) /\ (\A k \in Numbers(g) : j < k /\ k < v => v \notin LoopOf(g, d, k))
        /\ j \in Nat /\ v \in Nat
    BY <1>3, <2>1 DEF Innermost
  <2>3. s.d2i[j] # s.d2i[v]
    BY <1>2, <2>2
  <2>4. ASSUME NEW k \in Numbers(g), v \in LoopOf(g, d, k), k # v PROVE j \in LoopOf(g, d, k)
    <3>1. k <= v /\ k \in Nat
      BY <1>1, <1>3, <2>4 DEF LoopFacts
    <3>2. k <= j
      BY <2>2, <2>4, <3>1
    <3>3. LoopOf(g, d, j) \subseteq LoopOf(g, d, k) /\ j \in LoopOf(g, d, j)
      BY <1>1, <2>2, <2>4, <3>2 DEF LoopFacts
    <3> QED BY <3>3
  <2>5. ASSUME NEW k \in Numbers(g), j \in LoopOf(g, d, k) PROVE v \in LoopOf(g, d, k)
    <3>1. k <= j /\ j \in LoopOf(g, d, j)
      BY <1>1, <2>5 DEF LoopFacts
    <3>2. LoopOf(g, d, j) \subseteq LoopOf(g, d, k)
      BY <1>1, <2>5, <3>1 DEF LoopFacts
    <3> QED BY <2>2, <3>2
  <2>6. v \in LoopOf(g, d, v)
    BY <1>1 DEF LoopFacts
  <2> QED BY <2>1, <2>3, <2>4, <2>5, <2>6
<1> QED BY <1>1, <1>2, <1>3, <1>4, <1>5

------------------------------------------------------------------------------
(* What the parents lead to.                                                *)

(* What the parents lead from each cell to.                                 *)
Climbs(up, parent) ==
  up = [c \in DOMAIN parent |-> {c} \cup IF parent[c] = c THEN {} ELSE up[parent[c]]]

(* There is such a function, whatever the parents: what can be reached      *)
(* along them.                                                              *)
LEMMA ClimbExists ==
  ASSUME NEW P, IsFiniteSet(P), NEW parent \in [P -> P]
  PROVE  \E up : Climbs(up, parent)
<1> DEFINE step == [c \in P |-> IF parent[c] = c THEN {} ELSE {parent[c]}]
           up == [c \in P |-> Reach(step, {c})]
<1>1. IsEdges(step, P)
  BY DEF IsEdges
<1>2. ASSUME NEW c \in P
      PROVE  up[c] = {c} \cup IF parent[c] = c THEN {} ELSE up[parent[c]]
  <2>1. /\ c \in Reach(step, {c})
        /\ \A b \in step[c] : b \in P /\ Reach(step, {b}) \subseteq Reach(step, {c})
        /\ \A e \in Reach(step, {c}) : e = c \/ \E b \in step[c] : e \in Reach(step, {b})
    <3> HIDE DEF step
    <3> QED BY <1>1, ReachUnfold
  <2>2. parent[c] = c => step[c] = {}
    OBVIOUS
  <2>3. parent[c] # c => step[c] = {parent[c]}
    OBVIOUS
  <2> HIDE DEF step
  <2>4. parent[c] = c => Reach(step, {c}) = {c}
    <3>1. parent[c] = c => \A e \in Reach(step, {c}) : e = c
      BY <2>1, <2>2
    <3> QED BY <2>1, <3>1
  <2>5. parent[c] # c => Reach(step, {c}) = {c} \cup Reach(step, {parent[c]})
    <3>1. parent[c] \in P
      OBVIOUS
    <3> QED BY <2>1, <2>3
  <2> QED BY <2>4, <2>5
<1>3. up = [c \in P |-> up[c]]
  OBVIOUS
<1> HIDE DEF up
<1>4. up = [c \in P |-> {c} \cup IF parent[c] = c THEN {} ELSE up[parent[c]]]
  BY <1>2, <1>3
<1> QED BY <1>4 DEF Climbs

(* From the cell of w the parents lead to the heads of the loops around w,  *)
(* by induction over the vertices.                                          *)
LEMMA ClimbsToLoops ==
  ASSUME NEW g, NEW d, NEW s, Settled(g, d, s), NEW up, Climbs(up, s.parent), NEW w \in Numbers(g)
  PROVE  \A k \in Numbers(g) : s.d2i[k] \in up[s.d2i[w]] <=> w \in LoopOf(g, d, k)
<1> DEFINE T == {v \in Numbers(g) : ~ \A k \in Numbers(g) : s.d2i[k] \in up[s.d2i[v]] <=> v \in LoopOf(g, d, k)}
<1>1. SUFFICES ASSUME w \in T PROVE FALSE
  OBVIOUS
<1>2. /\ \A v \in Numbers(g) : v \in Nat /\ s.d2i[v] \in DOMAIN s.parent
      /\ \A u, v \in Numbers(g) : s.d2i[u] = s.d2i[v] => u = v
      /\ \A v \in Numbers(g) : s.rep[v] = v =>
              s.parent[s.d2i[v]] = s.d2i[v] /\ \A k \in Numbers(g) : v \in LoopOf(g, d, k) <=> k = v
      /\ \A v \in Numbers(g) : s.rep[v] # v =>
              \E j \in Numbers(g) : /\ Innermost(g, d, v, j) /\ s.parent[s.d2i[v]] = s.d2i[j]
                                    /\ s.d2i[j] # s.d2i[v]
                                    /\ \A k \in Numbers(g) : v \in LoopOf(g, d, k) <=> k = v \/ j \in LoopOf(g, d, k)
  BY RootLoops
<1>3. PICK v \in T : \A j \in T : v <= j
  <2>1. T \in SUBSET Nat /\ T # {}
    BY <1>1, <1>2
  <2> HIDE DEF T
  <2> QED BY <2>1, LeastNatural
<1>4. v \in Numbers(g) /\ s.d2i[v] \in DOMAIN s.parent
  BY <1>2
<1>5. up[s.d2i[v]] = {s.d2i[v]} \cup IF s.parent[s.d2i[v]] = s.d2i[v] THEN {} ELSE up[s.parent[s.d2i[v]]]
  BY <1>4 DEF Climbs
<1>6. CASE s.rep[v] = v
  <2>1. up[s.d2i[v]] = {s.d2i[v]}
    BY <1>2, <1>4, <1>5, <1>6
  <2>2. \A k \in Numbers(g) : s.d2i[k] \in up[s.d2i[v]] <=> k = v
    BY <1>2, <1>4, <2>1
  <2> QED BY <1>2, <1>4, <1>6, <2>2
<1>7. CASE s.rep[v] # v
  <2>1. PICK j \in Numbers(g) : /\ Innermost(g, d, v, j) /\ s.parent[s.d2i[v]] = s.d2i[j]
                                    /\ s.d2i[j] # s.d2i[v]
                                    /\ \A k \in Numbers(g) : v \in LoopOf(g, d, k) <=> k = v \/ j \in LoopOf(g, d, k)
    BY <1>2, <1>4, <1>7
  <2>2. j < v /\ j \in Nat /\ v \in Nat
    BY <1>2, <1>4, <2>1 DEF Innermost
  <2>3. j \notin T
    BY <1>3, <2>2
  <2>4. up[s.d2i[v]] = {s.d2i[v]} \cup up[s.d2i[j]]
    BY <1>5, <2>1
  <2>5. \A k \in Numbers(g) : s.d2i[k] \in up[s.d2i[v]] <=> k = v \/ j \in LoopOf(g, d, k)
    BY <1>2, <1>4, <2>3, <2>4
  <2> QED BY <2>1, <2>5
<1> QED BY <1>6, <1>7

(* So the cells inside of the exit of k are those of the vertices of        *)
(* component k.                                                             *)
LEMMA InsideIsWithin ==
  ASSUME NEW g, NEW d, NEW s, Settled(g, d, s), NEW k \in Numbers(g), k \in Cyclic(d)
  PROVE  Inside(s, LastOf(s, k)) = Within(g, d, s, k)
<1> DEFINE x == LastOf(s, k)
           headOf(c) == IF s.space[c + 1].type = "exit" THEN c + 1 ELSE c
           up == CHOOSE u : Climbs(u, s.parent)
<1>1. Placed(g, d, s) /\ From(g, s.h + 1) = Numbers(g) /\ s.parent \in [DOMAIN s.parent -> DOMAIN s.parent]
      /\ IsFiniteSet(DOMAIN s.parent) /\ s.h = 0
  BY RootLoops DEF Settled
<1>2. Climbs(up, s.parent)
  BY <1>1, ClimbExists
<1>3. Inside(s, x) = {c \in Indices(s) : x + 1 \in up[headOf(c)]}
  BY DEF Inside, Climbs, HeadOfExit, Indices
<1> HIDE DEF up
<1>4. \A v \in Numbers(g) : v \in Cyclic(d) => LastOf(s, v) = s.d2i[v] - 1 /\ s.d2i[v] \in Nat
  <2>1. \A v \in Numbers(g) : s.d2i[v] \in Indices(s) /\ (v \in Cyclic(d) => LastOf(s, v) = s.d2i[v] - 1)
    BY <1>1 DEF Placed, CellsOK
  <2>2. \A c \in Indices(s) : c \in Nat
    BY <1>1, PlacedTypes
  <2> QED BY <2>1, <2>2
<1>5. x + 1 = s.d2i[k]
  <2>1. x = s.d2i[k] - 1 /\ s.d2i[k] \in Nat
    BY <1>4
  <2> HIDE DEF x
  <2> QED BY <2>1
<1>6. ASSUME NEW c \in Indices(s) PROVE headOf(c) = s.d2i[VertexAt(s, c)] /\ VertexAt(s, c) \in Numbers(g)
  <2> DEFINE v == VertexAt(s, c)
  <2>1. /\ v \in Numbers(g)
        /\ (TypeAt(s, c) # "exit" /\ c = s.d2i[v]) \/ (v \in Cyclic(d) /\ c = LastOf(s, v))
    BY <1>1 DEF Placed, CellsOK
  <2> HIDE DEF v
  <2>2. CASE TypeAt(s, c) # "exit" /\ c = s.d2i[v]
    BY <2>1, <2>2 DEF TypeAt, v
  <2>3. CASE v \in Cyclic(d) /\ c = LastOf(s, v)
    <3>1. TypeAt(s, c) = "exit"
      BY <1>1, <2>1, <2>3 DEF Placed, CellsOK
    <3>2. c = s.d2i[v] - 1 /\ s.d2i[v] \in Nat
      BY <1>4, <2>1, <2>3
    <3>3. c + 1 = s.d2i[v]
      BY <3>2
    <3> QED BY <2>1, <3>1, <3>3 DEF TypeAt, v
  <2> QED BY <2>1, <2>2, <2>3
<1> HIDE DEF x, headOf
<1>7. \A c \in Indices(s) : x + 1 \in up[headOf(c)] <=> VertexAt(s, c) \in LoopOf(g, d, k)
  BY <1>2, <1>5, <1>6, ClimbsToLoops
<1>8. Inside(s, x) = {c \in Indices(s) : VertexAt(s, c) \in LoopOf(g, d, k)}
  BY <1>3, <1>7
<1> QED BY <1>8 DEF Within, x

------------------------------------------------------------------------------
(* The components of the finished order.                                    *)

(* The block with number v.                                                 *)
BlockOf(g, d, v) == CHOOSE n \in g.node : d.dfn[n] = v

(* The cells of the finished order.                                         *)
FinishedCells(g, d, s, w) ==
  /\ w.type = [c \in Indices(s) |-> TypeAt(s, c)]
  /\ w.node = [c \in Indices(s) |-> BlockOf(g, d, VertexAt(s, c))]
  /\ w.size = [c \in Indices(s) |-> s.space[c + 1].size]
  /\ w.comp = [x \in {c \in Indices(s) : TypeAt(s, c) = "exit"} |-> Inside(s, x)]
  /\ w.postDfn = d.post

LEMMA FinishedFields == ASSUME NEW g, NEW d, NEW s PROVE FinishedCells(g, d, s, Finished(g, d, s))
BY DEF Finished, FinishedCells, Indices, TypeAt, VertexAt, BlockOf

(* The search numbers blocks, and loops consist of what it numbers.         *)
LEMMA SeenBlocks ==
  ASSUME NEW g, NEW d, SearchDone(g, d)
  PROVE  /\ Seen(d) = d.black /\ Seen(d) \subseteq Numbers(g)
         /\ \A v \in Seen(d) : BlockOf(g, d, v) \in g.node /\ d.dfn[BlockOf(g, d, v)] = v
         /\ \A n \in g.node : d.dfn[n] # 0 => d.dfn[n] \in Seen(d) /\ BlockOf(g, d, d.dfn[n]) = n
         /\ \A k \in Cyclic(d) : k \in Numbers(g) /\ \A v \in LoopOf(g, d, k) : v \in Seen(d)
<1>1. /\ IsGraph(g) /\ d \in SearchStates(g) /\ NumberingOK(g, d) /\ TreeOK(g, d) /\ EdgesOK(g, d)
  BY DEF SearchDone, SearchInv
<1>2. Gray(d) = {} /\ d.black \subseteq Seen(d) /\ Seen(d) \subseteq Numbers(g)
  BY <1>1, NoneIsGray, SearchTypes DEF TreeOK
<1>3. Seen(d) = d.black
  BY <1>2 DEF Gray
<1>4. d.next \in Nat /\ d.dfn \in [g.node -> 0..NumBlocks(g)] /\ NumBlocks(g) \in Nat
      /\ DOMAIN d.back = Numbers(g)
  <2>1. d.next \in 1..(NumBlocks(g) + 1) /\ NumBlocks(g) \in Nat
    BY <1>1, SearchTypes
  <2> QED BY <1>1, <2>1 DEF SearchStates
<1>5. ASSUME NEW v \in Seen(d) PROVE BlockOf(g, d, v) \in g.node /\ d.dfn[BlockOf(g, d, v)] = v
  <2>1. \E n \in g.node : d.dfn[n] = v
    BY <1>1 DEF NumberingOK
  <2> QED BY <2>1 DEF BlockOf
<1>6. ASSUME NEW n \in g.node, d.dfn[n] # 0 PROVE d.dfn[n] \in Seen(d) /\ BlockOf(g, d, d.dfn[n]) = n
  <2>1. d.dfn[n] < d.next /\ d.dfn[n] \in Nat
    BY <1>1, <1>4 DEF NumberingOK
  <2>2. d.dfn[n] \in Seen(d)
    BY <1>4, <1>6, <2>1 DEF Seen
  <2>3. BlockOf(g, d, d.dfn[n]) \in g.node /\ d.dfn[BlockOf(g, d, d.dfn[n])] = d.dfn[n]
    BY <1>5, <2>2
  <2> QED BY <1>1, <1>6, <2>2, <2>3 DEF NumberingOK
<1>7. ASSUME NEW k \in Cyclic(d) PROVE k \in Numbers(g) /\ \A v \in LoopOf(g, d, k) : v \in Seen(d)
  <2>1. k \in Numbers(g) /\ d.back[k] # {}
    BY <1>4 DEF Cyclic
  <2>2. PICK b \in d.back[k] : IsEdge(g, d, b, k)
    BY <1>1, <2>1 DEF EdgesOK
  <2>3. PICK n \in g.node : d.dfn[n] = k
    <3>1. \A m \in g.node : \A n \in CfgSucc(g, m) : n \in g.node
      BY <1>1 DEF IsGraph, CfgSucc
    <3> QED BY <2>2, <3>1 DEF IsEdge
  <2>4. k \in Seen(d)
    BY <1>6, <2>1, <2>3 DEF Numbers
  <2>5. ASSUME NEW v \in LoopOf(g, d, k) PROVE v \in Seen(d)
    <3>1. v \in Numbers(g) /\ k \in Up(d, v)
      BY <2>1, Loops DEF LoopFacts
    <3>2. v \notin Seen(d) => d.nonback[v] = {}
      BY <1>1, <3>1 DEF TreeOK
    <3>3. v \notin Seen(d) => k = v
      BY <3>1, <3>2, Ancestors
    <3> QED BY <2>4, <3>3
  <2> QED BY <2>1, <2>5
<1> QED BY <1>2, <1>3, <1>5, <1>6, <1>7

(* The head and exit cells are those of the loops.                          *)
LEMMA LoopCells ==
  ASSUME NEW g, NEW d, NEW s, Settled(g, d, s), NEW w, FinishedCells(g, d, s, w)
  PROVE  /\ Cells(w) = Indices(s)
         /\ \A x \in Exits(w) : \E k \in Numbers(g) : k \in Cyclic(d) /\ x = LastOf(s, k)
         /\ \A h \in Heads(w) : \E k \in Numbers(g) : k \in Cyclic(d) /\ h = s.d2i[k]
         /\ \A k \in Numbers(g) : k \in Cyclic(d) =>
              /\ LastOf(s, k) \in Exits(w) /\ s.d2i[k] \in Heads(w) /\ ExitOfHead(s.d2i[k]) = LastOf(s, k)
              /\ HeadOfExit(LastOf(s, k)) = s.d2i[k]
              /\ w.node[LastOf(s, k)] = BlockOf(g, d, k) /\ w.node[s.d2i[k]] = BlockOf(g, d, k)
              /\ w.comp[LastOf(s, k)] = Within(g, d, s, k)
<1>1. Placed(g, d, s) /\ From(g, s.h + 1) = Numbers(g) /\ s.h = 0
  BY RootLoops DEF Settled
<1>2. /\ Cells(w) = Indices(s)
      /\ \A c \in Indices(s) : w.type[c] = TypeAt(s, c) /\ w.node[c] = BlockOf(g, d, VertexAt(s, c))
      /\ \A c \in Indices(s) : TypeAt(s, c) = "exit" => w.comp[c] = Inside(s, c)
  BY DEF FinishedCells, Cells
<1>3. \A v \in Numbers(g) :
        /\ s.d2i[v] \in Indices(s) /\ VertexAt(s, s.d2i[v]) = v
        /\ v \notin Cyclic(d) => s.exit[v] = v /\ TypeAt(s, s.d2i[v]) = "plain"
        /\ v \in Cyclic(d) => /\ TypeAt(s, s.d2i[v]) = "head"
                              /\ LastOf(s, v) \in Indices(s) /\ LastOf(s, v) = s.d2i[v] - 1
                              /\ VertexAt(s, LastOf(s, v)) = v /\ TypeAt(s, LastOf(s, v)) = "exit"
  BY <1>1 DEF Placed, CellsOK
<1>4. \A c \in Indices(s) :
        /\ c \in Nat /\ VertexAt(s, c) \in Numbers(g)
        /\ (TypeAt(s, c) # "exit" /\ c = s.d2i[VertexAt(s, c)])
             \/ (VertexAt(s, c) \in Cyclic(d) /\ c = LastOf(s, VertexAt(s, c)))
  <2>1. \A c \in Indices(s) :
        /\ VertexAt(s, c) \in Numbers(g)
        /\ (TypeAt(s, c) # "exit" /\ c = s.d2i[VertexAt(s, c)])
             \/ (VertexAt(s, c) \in Cyclic(d) /\ c = LastOf(s, VertexAt(s, c)))
    BY <1>1 DEF Placed, CellsOK
  <2>2. \A c \in Indices(s) : c \in Nat
    BY <1>1, PlacedTypes
  <2> QED BY <2>1, <2>2
<1>5. \A x \in Exits(w) : \E k \in Numbers(g) : k \in Cyclic(d) /\ x = LastOf(s, k)
  BY <1>2, <1>4 DEF Exits
<1>6. \A h \in Heads(w) : \E k \in Numbers(g) : k \in Cyclic(d) /\ h = s.d2i[k]
  <2>1. \A h \in Heads(w) : h \in Indices(s) /\ TypeAt(s, h) = "head"
    BY <1>2 DEF Heads
  <2>2. "head" # "exit" /\ "head" # "plain"
    OBVIOUS
  <2> QED BY <1>3, <1>4, <2>1, <2>2
<1>7. ASSUME NEW k \in Numbers(g), k \in Cyclic(d)
      PROVE /\ LastOf(s, k) \in Exits(w) /\ s.d2i[k] \in Heads(w) /\ ExitOfHead(s.d2i[k]) = LastOf(s, k)
            /\ HeadOfExit(LastOf(s, k)) = s.d2i[k]
            /\ w.node[LastOf(s, k)] = BlockOf(g, d, k) /\ w.node[s.d2i[k]] = BlockOf(g, d, k)
            /\ w.comp[LastOf(s, k)] = Within(g, d, s, k)
  <2>1. LastOf(s, k) \in Exits(w) /\ s.d2i[k] \in Heads(w)
        /\ w.node[LastOf(s, k)] = BlockOf(g, d, k) /\ w.node[s.d2i[k]] = BlockOf(g, d, k)
    BY <1>2, <1>3, <1>7 DEF Exits, Heads
  <2>2. LastOf(s, k) = s.d2i[k] - 1 /\ s.d2i[k] \in Nat
    BY <1>3, <1>4, <1>7
  <2>3. ExitOfHead(s.d2i[k]) = LastOf(s, k) /\ HeadOfExit(LastOf(s, k)) = s.d2i[k]
    BY <2>2 DEF ExitOfHead, HeadOfExit
  <2>4. w.comp[LastOf(s, k)] = Within(g, d, s, k)
    BY <1>2, <1>3, <1>7, InsideIsWithin
  <2> QED BY <2>1, <2>3, <2>4
<1> QED BY <1>2, <1>5, <1>6, <1>7

(* The vertices of the cells of a loop.                                     *)
LEMMA NumbersOfLoop ==
  ASSUME NEW g, NEW d, NEW s, Settled(g, d, s), NEW w, FinishedCells(g, d, s, w),
         NEW k \in Numbers(g), k \in Cyclic(d)
  PROVE  {d.dfn[w.node[c]] : c \in w.comp[LastOf(s, k)]} = LoopOf(g, d, k)
<1>1. SearchDone(g, d) /\ Placed(g, d, s) /\ From(g, s.h + 1) = Numbers(g) /\ LoopFacts(g, d)
  BY RootLoops DEF Settled
<1>2. w.comp[LastOf(s, k)] = Within(g, d, s, k) /\ Cells(w) = Indices(s)
  BY LoopCells
<1>3. \A c \in Within(g, d, s, k) : c \in Indices(s) /\ VertexAt(s, c) \in LoopOf(g, d, k)
  BY DEF Within
<1>4. \A v \in LoopOf(g, d, k) : v \in Numbers(g) /\ v \in Seen(d) /\ d.dfn[BlockOf(g, d, v)] = v
  BY <1>1, SeenBlocks DEF LoopFacts
<1>5. \A c \in Within(g, d, s, k) : d.dfn[w.node[c]] = VertexAt(s, c)
  BY <1>3, <1>4 DEF FinishedCells
<1>6. \A v \in LoopOf(g, d, k) : \E c \in Within(g, d, s, k) : VertexAt(s, c) = v
  <2>1. \A v \in Numbers(g) : s.d2i[v] \in Indices(s) /\ VertexAt(s, s.d2i[v]) = v
    BY <1>1, IndexOfVertex
  <2>2. \A v \in LoopOf(g, d, k) : s.d2i[v] \in Within(g, d, s, k) /\ VertexAt(s, s.d2i[v]) = v
    BY <1>4, <2>1 DEF Within
  <2> QED BY <2>2
<1>7. {d.dfn[w.node[c]] : c \in Within(g, d, s, k)} = LoopOf(g, d, k)
  BY <1>3, <1>5, <1>6
<1> QED BY <1>2, <1>7

(* The component in the words of the property and in those of the proof.    *)
LEMMA SccFromIsScc == \A h, v : SccFrom(h, v) = Scc(cfg, dfs, h, v)
<1> SUFFICES ASSUME NEW h, NEW v PROVE SccFrom(h, v) = Scc(cfg, dfs, h, v)
  OBVIOUS
<1> DEFINE W == {u \in Vertices : u >= h}
<1>2. \A u, t \in Vertices : <<u, t>> \in Edges <=> IsEdge(cfg, dfs, u, t)
  BY DEF Edges, IsEdge
<1>3. W = From(cfg, h)
  BY DEF From, Vertices, Numbers
<1>4. [u \in W |-> {t \in W : <<u, t>> \in Edges}] = Out(cfg, dfs, h)
  <2>1. \A u \in W : {t \in W : <<u, t>> \in Edges} = {t \in W : IsEdge(cfg, dfs, u, t)}
    BY <1>2
  <2> HIDE DEF W
  <2>2. [u \in W |-> {t \in W : <<u, t>> \in Edges}] = [u \in W |-> {t \in W : IsEdge(cfg, dfs, u, t)}]
    BY <2>1
  <2> QED BY <1>3, <2>2 DEF Out
<1>5. [u \in W |-> {t \in W : <<t, u>> \in Edges}] = In(cfg, dfs, h)
  <2>1. \A u \in W : {t \in W : <<t, u>> \in Edges} = {t \in W : IsEdge(cfg, dfs, t, u)}
    BY <1>2
  <2> HIDE DEF W
  <2>2. [u \in W |-> {t \in W : <<t, u>> \in Edges}] = [u \in W |-> {t \in W : IsEdge(cfg, dfs, t, u)}]
    BY <2>1
  <2> QED BY <1>3, <2>2 DEF In
<1> QED BY <1>4, <1>5 DEF SccFrom, Scc

(* ComponentsAreSccs, of the finished order.                                *)
LEMMA LoopsAreComponents ==
  ASSUME phase = "done", Settled(cfg, dfs, scc), FinishedCells(cfg, dfs, scc, wpo)
  PROVE  ComponentsAreSccs
<1> DEFINE Nums(C) == {dfs.dfn[wpo.node[c]] : c \in C}
<1>1. SearchDone(cfg, dfs) /\ LoopFacts(cfg, dfs) /\ IsGraph(cfg) /\ Vertices = Numbers(cfg)
      /\ NumBlocks(cfg) \in Nat
  BY RootLoops DEF Vertices, Numbers
<1>2. \A k \in Numbers(cfg) : k \in Cyclic(dfs) =>
        /\ LastOf(scc, k) \in Exits(wpo) /\ wpo.node[LastOf(scc, k)] = BlockOf(cfg, dfs, k)
        /\ Nums(wpo.comp[LastOf(scc, k)]) = LoopOf(cfg, dfs, k)
  BY LoopCells, NumbersOfLoop
<1> HIDE DEF Nums
<1>3. ASSUME NEW x \in Exits(wpo)
      PROVE  Nums(wpo.comp[x]) = SccFrom(dfs.dfn[wpo.node[x]], dfs.dfn[wpo.node[x]])
  <2>1. PICK k \in Numbers(cfg) : k \in Cyclic(dfs) /\ x = LastOf(scc, k)
    BY <1>3, LoopCells
  <2>2. k \in Seen(dfs) /\ dfs.dfn[BlockOf(cfg, dfs, k)] = k
    BY <1>1, <2>1, SeenBlocks DEF LoopFacts
  <2>3. dfs.dfn[wpo.node[x]] = k
    BY <1>2, <2>1, <2>2
  <2> QED BY <1>2, <2>1, <2>3, SccFromIsScc DEF LoopOf
<1>4. ASSUME NEW e \in Edges, e[1] \in SccFrom(1, e[2])
      PROVE  \E x \in Exits(wpo) : {e[1], e[2]} \subseteq Nums(wpo.comp[x])
  <2> DEFINE v == e[1]
             u == e[2]
             m == Min(Scc(cfg, dfs, 1, u))
  <2>1. v \in Numbers(cfg) /\ u \in Numbers(cfg) /\ IsEdge(cfg, dfs, v, u)
    BY <1>1 DEF Edges, IsEdge
  <2>2. v \in Scc(cfg, dfs, 1, u)
    BY <1>4, SccFromIsScc
  <2> HIDE DEF v, u
  <2>3. 1 \in Numbers(cfg) /\ From(cfg, 1) = Numbers(cfg)
    <3>1. 1 <= NumBlocks(cfg)
      BY <1>1, <2>1 DEF Numbers
    <3> QED BY <1>1, <3>1, FromOne DEF Numbers
  <2>4. Scc(cfg, dfs, 1, u) = LoopOf(cfg, dfs, m)
    BY <1>1, <2>1, <2>3, SccOfFirst
  <2>5. m \in Numbers(cfg) /\ u \in LoopOf(cfg, dfs, m)
    <3>1. u \in From(cfg, 1) /\ 1 \in Numbers(cfg)
      BY <2>1, <2>3
    <3>2. /\ u \in Scc(cfg, dfs, 1, u)
          /\ Scc(cfg, dfs, 1, u) \subseteq From(cfg, 1)
          /\ m \in Scc(cfg, dfs, 1, u)
      BY <1>1, <3>1, Components
    <3> HIDE DEF m
    <3> QED BY <2>3, <2>4, <3>2
  <2> HIDE DEF m
  <2>6. m \in Cyclic(dfs)
    <3>1. SUFFICES ASSUME m \notin Cyclic(dfs) PROVE FALSE
      OBVIOUS
    <3>2. v = m /\ u = m
      BY <1>1, <2>2, <2>4, <2>5, <3>1 DEF LoopFacts
    <3>3. m \in Up(dfs, m)
      BY <1>1, <2>5, Ancestors
    <3>4. m \in dfs.back[m]
      BY <1>1, <2>1, <2>5, <3>2, <3>3 DEF LoopFacts
    <3>5. DOMAIN dfs.back = Numbers(cfg)
      BY RootLoops
    <3> QED BY <2>5, <3>1, <3>4, <3>5 DEF Cyclic
  <2> QED BY <1>2, <2>2, <2>4, <2>5, <2>6 DEF v, u
<1> QED BY <1>3, <1>4 DEF ComponentsAreSccs, Nums

------------------------------------------------------------------------------
(* The post-order numbers tell the back edges.                              *)

(* If all blocks are reached from the entry, the search numbers them all.   *)
LEMMA AllNumbered ==
  ASSUME NEW g, NEW d, SearchDone(g, d), RootOK(g, d), AllReached(g)
  PROVE  \A n \in g.node : d.dfn[n] \in Numbers(g) /\ d.dfn[n] \in Seen(d) /\ BlockOf(g, d, d.dfn[n]) = n
<1> DEFINE S == {n \in g.node : d.dfn[n] # 0}
<1>1. /\ IsGraph(g) /\ d \in SearchStates(g) /\ EdgesOK(g, d) /\ StackOK(g, d) /\ Len(d.stack) = 0
  BY DEF SearchDone, SearchInv
<1>2. g.entry \in S
  <2>1. d.next # 1
    BY <1>1 DEF StackOK
  <2> QED BY <1>1, <2>1 DEF RootOK, IsGraph
<1>3. ASSUME NEW m \in S, NEW n \in CfgSucc(g, m) PROVE n \in S
  <2>1. n \in g.node
    BY <1>1, <1>3 DEF IsGraph, CfgSucc
  <2>2. EdgeStored(g, d, d.dfn[m], n)
    BY <1>1, <1>3 DEF EdgesOK
  <2>3. \A l \in Numbers(g) : d.cross[l] \subseteq Numbers(g) \X Numbers(g)
    BY <1>1 DEF SearchStates
  <2>4. 0 \notin Numbers(g) /\ d.dfn[m] \in Nat /\ d.dfn[n] \in Nat
    <3>1. NumBlocks(g) \in Nat /\ d.dfn \in [g.node -> 0..NumBlocks(g)]
      <4>1. NumBlocks(g) \in Nat
        BY <1>1, SearchTypes
      <4>2. d.dfn \in [g.node -> 0..NumBlocks(g)]
        BY <1>1 DEF SearchStates
      <4> QED BY <4>1, <4>2
    <3>2. d.dfn[m] \in 0..NumBlocks(g) /\ d.dfn[n] \in 0..NumBlocks(g)
      BY <2>1, <3>1
    <3>3. 0 \notin Numbers(g)
      BY <3>1 DEF Numbers
    <3> QED BY <3>1, <3>2, <3>3
  <2>5. d.dfn[n] # 0
    <3>1. CASE d.dfn[n] > d.dfn[m]
      BY <2>4, <3>1
    <3>2. CASE \E l \in Numbers(g) : <<d.dfn[m], d.dfn[n]>> \in d.cross[l]
      BY <2>3, <2>4, <3>2
    <3> QED BY <1>1, <2>2, <3>1, <3>2 DEF EdgeStored
  <2> QED BY <2>1, <2>5
<1>4. S = g.node
  <2>1. S \in SUBSET g.node
    OBVIOUS
  <2> HIDE DEF S
  <2> QED BY <1>2, <1>3, <2>1 DEF AllReached
<1> QED BY <1>4, SeenBlocks

(* A comparison of post-order numbers tells the back edges of a head.       *)
LEMMA PostTellsBackEdges ==
  ASSUME NEW g, NEW d, SearchDone(g, d), PostOK(g, d), NEW m \in g.node, NEW n \in g.node,
         d.dfn[m] \in Seen(d), d.dfn[n] \in Seen(d), IsEdge(g, d, d.dfn[m], d.dfn[n])
  PROVE  d.post[n] < d.post[m] <=> d.dfn[m] \notin LoopOf(g, d, d.dfn[n])
<1> DEFINE q == d.dfn[m]
           k == d.dfn[n]
<1>1. q \in d.black /\ k \in d.black /\ q \in Numbers(g) /\ k \in Numbers(g) /\ q \in Nat /\ k \in Nat
  BY SeenBlocks DEF Numbers
<1>2. d.post[m] \in Nat /\ d.post[n] \in Nat
  BY DEF SearchDone, SearchInv, SearchStates
<1>3. q \in LoopOf(g, d, k) <=> k \in Up(d, q)
  BY <1>1, Loops DEF LoopFacts
<1>4. CASE q = k
  <2>1. m = n
    BY <1>1, <1>4 DEF SearchDone, SearchInv, NumberingOK, Numbers
  <2>2. k \in Up(d, k)
    BY <1>1, Ancestors
  <2> QED BY <1>2, <1>3, <1>4, <2>1, <2>2
<1>5. CASE k < q
  <2>1. IF k \in Up(d, q) THEN d.post[m] < d.post[n] ELSE d.post[n] < d.post[m]
    BY <1>1, <1>5 DEF PostOK
  <2> QED BY <1>2, <1>3, <2>1
<1>6. CASE q < k
  <2>1. Up(d, q) \subseteq 1..q
    BY <1>1, Ancestors
  <2>2. k \notin Up(d, q)
    BY <1>1, <1>6, <2>1
  <2>3. q \in Up(d, k)
    <3>1. ~ (k < q)
      BY <1>1, <1>6
    <3>3. (q < k /\ q \in Up(d, k)) \/ q \in d.back[k] \/ \E l \in Numbers(g) : <<q, k>> \in d.cross[l]
      <4>1. q \in Numbers(g) /\ k \in Numbers(g) /\ IsEdge(g, d, q, k)
        BY <1>1
      <4> HIDE DEF q, k
      <4> QED BY <4>1, EdgeKinds
    <3>4. q \in d.back[k] => k \in Up(d, q)
      <4>1. q \in Numbers(g) /\ k \in Numbers(g)
        BY <1>1
      <4> HIDE DEF q, k
      <4> QED BY <4>1, EdgeKinds
    <3>5. \A l \in Numbers(g) : <<q, k>> \in d.cross[l] => k < q
      <4>1. q \in Numbers(g) /\ k \in Numbers(g)
        BY <1>1
      <4> HIDE DEF q, k
      <4> QED BY <4>1, EdgeKinds
    <3> QED BY <2>2, <3>1, <3>3, <3>4, <3>5
  <2>4. d.post[n] < d.post[m]
    BY <1>1, <1>6, <2>3 DEF PostOK
  <2> QED BY <1>3, <2>2, <2>4
<1>7. q = k \/ k < q \/ q < k
  BY <1>1
<1> QED BY <1>4, <1>5, <1>6, <1>7

(* ... and every number is that of a block, as there are as many.           *)
LEMMA AllBlocks ==
  ASSUME NEW g, NEW d, SearchDone(g, d), RootOK(g, d), AllReached(g)
  PROVE  /\ \A v \in Numbers(g) : BlockOf(g, d, v) \in g.node /\ d.dfn[BlockOf(g, d, v)] = v
         /\ \A v \in Numbers(g) : v \in Seen(d)
<1>1. NumBlocks(g) \in Nat /\ d \in SearchStates(g) /\ IsGraph(g)
  BY SearchTypes DEF SearchDone, SearchInv
<1>3. \A n \in g.node : d.dfn[n] \in Numbers(g) /\ d.dfn[n] \in Seen(d) /\ BlockOf(g, d, d.dfn[n]) = n
  BY AllNumbered
<1>4. ASSUME NEW v \in Numbers(g) PROVE BlockOf(g, d, v) \in g.node /\ d.dfn[BlockOf(g, d, v)] = v
  <2> DEFINE I == {d.dfn[n] : n \in g.node}
  <2>1. I \subseteq Numbers(g) /\ IsFiniteSet(g.node) /\ IsFiniteSet(Numbers(g))
    <3>1. IsFiniteSet(1..NumBlocks(g))
      BY <1>1, FS_Interval
    <3> QED BY <1>1, <1>3, <3>1 DEF IsGraph, Numbers
  <2>2. \A m, n \in g.node : d.dfn[m] = d.dfn[n] => m = n
    BY <1>3
  <2>3. Cardinality(I) = Cardinality(g.node)
    <3> DEFINE f == [n \in g.node |-> d.dfn[n]]
    <3>1. f \in Bijection(g.node, I)
      <4>1. f \in [g.node -> I]
        OBVIOUS
      <4>2. \A m, n \in g.node : f[m] = f[n] => m = n
        BY <2>2
      <4>3. \A i \in I : \E n \in g.node : f[n] = i
        OBVIOUS
      <4> HIDE DEF f, I
      <4> QED BY <4>1, <4>2, <4>3 DEF Bijection, Injection, Surjection, IsInjective
    <3> HIDE DEF f, I
    <3>2. ExistsBijection(g.node, I)
      BY <3>1 DEF ExistsBijection
    <3> QED BY <2>1, <3>2, FS_Bijection
  <2>4. Cardinality(Numbers(g)) = NumBlocks(g)
    BY <1>1, FS_Interval DEF Numbers
  <2>5. I = Numbers(g)
    <3> HIDE DEF I
    <3> QED BY <2>1, <2>3, <2>4, FS_Subset DEF NumBlocks
  <2>6. \E n \in g.node : d.dfn[n] = v
    BY <2>5
  <2> QED BY <2>6 DEF BlockOf
<1> QED BY <1>3, <1>4

(* The plain or head cell of a block.                                       *)
LEMMA CellOfBlock ==
  ASSUME NEW g, NEW d, NEW s, Settled(g, d, s), NEW w, FinishedCells(g, d, s, w), RootOK(g, d), AllReached(g)
  PROVE  /\ \A c \in Cells(w) : w.node[c] \in g.node /\ d.dfn[w.node[c]] = VertexAt(s, c)
         /\ \A n \in g.node : CellOf(w, n) = s.d2i[d.dfn[n]] /\ d.dfn[n] \in Numbers(g)
                /\ \A c \in Cells(w) : w.node[c] = n /\ w.type[c] # "exit" <=> c = s.d2i[d.dfn[n]]
<1>1. /\ SearchDone(g, d) /\ Placed(g, d, s) /\ From(g, s.h + 1) = Numbers(g) /\ NumBlocks(g) \in Nat
      /\ d \in SearchStates(g) /\ IsGraph(g)
  BY RootLoops DEF Settled, SearchDone, SearchInv
<1>2. Cells(w) = Indices(s) /\ \A c \in Indices(s) : w.type[c] = TypeAt(s, c) /\ w.node[c] = BlockOf(g, d, VertexAt(s, c))
  BY DEF FinishedCells, Cells
<1>3. \A n \in g.node : d.dfn[n] \in Numbers(g) /\ BlockOf(g, d, d.dfn[n]) = n
  BY <1>1, AllNumbered
<1>4. \A v \in Numbers(g) : BlockOf(g, d, v) \in g.node /\ d.dfn[BlockOf(g, d, v)] = v
  BY <1>1, AllBlocks
<1>5. \A v \in Numbers(g) : /\ s.d2i[v] \in Indices(s) /\ VertexAt(s, s.d2i[v]) = v /\ TypeAt(s, s.d2i[v]) # "exit"
  BY <1>1 DEF Placed, CellsOK
<1>6. \A c \in Indices(s) : /\ VertexAt(s, c) \in Numbers(g)
                            /\ TypeAt(s, c) # "exit" => c = s.d2i[VertexAt(s, c)]
  <2>1. \A v \in Numbers(g) : v \in Cyclic(d) => TypeAt(s, LastOf(s, v)) = "exit"
    BY <1>1 DEF Placed, CellsOK
  <2>2. \A c \in Indices(s) : /\ VertexAt(s, c) \in Numbers(g)
                              /\ (TypeAt(s, c) # "exit" /\ c = s.d2i[VertexAt(s, c)])
                                  \/ (VertexAt(s, c) \in Cyclic(d) /\ c = LastOf(s, VertexAt(s, c)))
    BY <1>1 DEF Placed, CellsOK
  <2> QED BY <2>1, <2>2
<1>7. ASSUME NEW n \in g.node
      PROVE  \A c \in Cells(w) : w.node[c] = n /\ w.type[c] # "exit" <=> c = s.d2i[d.dfn[n]]
  <2>1. ASSUME NEW c \in Indices(s), w.node[c] = n, w.type[c] # "exit" PROVE c = s.d2i[d.dfn[n]]
    BY <1>2, <1>4, <1>6, <2>1
  <2>2. /\ s.d2i[d.dfn[n]] \in Indices(s) /\ w.node[s.d2i[d.dfn[n]]] = n /\ w.type[s.d2i[d.dfn[n]]] # "exit"
    BY <1>2, <1>3, <1>5
  <2> QED BY <1>2, <2>1, <2>2
<1>8. ASSUME NEW n \in g.node PROVE CellOf(w, n) = s.d2i[d.dfn[n]]
  <2>1. s.d2i[d.dfn[n]] \in Cells(w)
    BY <1>2, <1>3, <1>5
  <2> QED BY <1>7, <2>1 DEF CellOf
<1> QED BY <1>2, <1>3, <1>4, <1>6, <1>7, <1>8

(* OutsideExact, of the finished order.                                     *)
LEMMA OutsideTold ==
  ASSUME phase = "done", Settled(cfg, dfs, scc), FinishedCells(cfg, dfs, scc, wpo),
         Posted(cfg, dfs), AllReached(cfg)
  PROVE  OutsideExact
<1> SUFFICES ASSUME NEW h \in Heads(wpo), NEW p \in CfgPred(cfg, wpo.node[h])
             PROVE  IsFromOutside(wpo, wpo.node[h], p) <=> CellOf(wpo, p) \notin wpo.comp[ExitOfHead(h)]
  BY DEF OutsideExact
<1>1. PICK k \in Numbers(cfg) : k \in Cyclic(dfs) /\ h = scc.d2i[k]
  BY LoopCells
<1>2. SearchDone(cfg, dfs) /\ Placed(cfg, dfs, scc) /\ From(cfg, scc.h + 1) = Numbers(cfg)
      /\ RootOK(cfg, dfs) /\ PostOK(cfg, dfs)
  BY RootLoops DEF Settled, Posted
<1> DEFINE n == BlockOf(cfg, dfs, k)
<1>3. ExitOfHead(h) = LastOf(scc, k) /\ wpo.node[h] = n /\ wpo.comp[LastOf(scc, k)] = Within(cfg, dfs, scc, k)
  BY <1>1, LoopCells
<1>4. n \in cfg.node /\ dfs.dfn[n] = k /\ k \in Seen(dfs)
  <2>1. k \in Seen(dfs)
    BY <1>1, <1>2, SeenBlocks, Loops DEF LoopFacts
  <2> QED BY <1>2, <2>1, SeenBlocks
<1> HIDE DEF n
<1>5. p \in cfg.node /\ n \in CfgSucc(cfg, p)
  BY <1>3 DEF CfgPred
<1>6. dfs.dfn[p] \in Numbers(cfg) /\ dfs.dfn[p] \in Seen(dfs) /\ CellOf(wpo, p) = scc.d2i[dfs.dfn[p]]
  BY <1>2, <1>5, AllNumbered, CellOfBlock
<1>7. IsEdge(cfg, dfs, dfs.dfn[p], k)
  BY <1>4, <1>5 DEF IsEdge
<1>8. dfs.post[n] < dfs.post[p] <=> dfs.dfn[p] \notin LoopOf(cfg, dfs, k)
  BY <1>2, <1>4, <1>5, <1>6, <1>7, PostTellsBackEdges
<1>9. IsFromOutside(wpo, wpo.node[h], p) <=> dfs.post[n] < dfs.post[p]
  BY <1>3 DEF IsFromOutside, FinishedCells
<1>10. scc.d2i[dfs.dfn[p]] \in Within(cfg, dfs, scc, k) <=> dfs.dfn[p] \in LoopOf(cfg, dfs, k)
  BY <1>2, <1>6, IndexOfVertex DEF Within
<1> QED BY <1>3, <1>6, <1>8, <1>9, <1>10

------------------------------------------------------------------------------
(* The invariant of the construction, and the theorems.                     *)

(* Before each turn.                                                        *)
Grouped(g, d, s) == Posted(g, d) /\ Placed(g, d, s) /\ ParentsOK(g, d, s)

(* In the end; a graph with one block has no search.                        *)
Ordered(g, d, s, w) ==
  \/ d = None /\ w = Singleton(g)
  \/ Posted(g, d) /\ Settled(g, d, s) /\ FinishedCells(g, d, s, w)

(* The inductive invariant.                                                 *)
OrderInv ==
  /\ BuildInv
  /\ phase = "dfs" => Posted(cfg, dfs)
  /\ phase \in {"scc", "toplevel"} => Grouped(cfg, dfs, scc)
  /\ phase = "toplevel" => scc.h = 0
  /\ phase = "outer" => Posted(cfg, dfs) /\ Settled(cfg, dfs, scc)
  /\ phase = "done" => Ordered(cfg, dfs, scc, wpo)

(* It holds initially and is kept by each action.                           *)
LEMMA OrderInit == Init => OrderInv
<1> SUFFICES ASSUME Init PROVE OrderInv
  OBVIOUS
<1>1. BuildInv /\ cfg \in InputGraphs /\ IsGraph(cfg)
  BY BuildInit, InputIsGraph DEF Init
<1>2. CASE IsSingleton(cfg)
  BY <1>1, <1>2 DEF Init, OrderInv, Ordered
<1>3. CASE ~ IsSingleton(cfg)
  <2>1. Posted(cfg, InitDfs(cfg))
    BY <1>1, PostInit
  <2> QED BY <1>1, <1>3, <2>1 DEF Init, OrderInv
<1> QED BY <1>2, <1>3

LEMMA OrderStep == OrderInv /\ [Next]_vars => OrderInv'
<1> SUFFICES ASSUME OrderInv, [Next]_vars PROVE OrderInv'
  OBVIOUS
<1>1. BuildInv /\ BuildInv' /\ cfg \in InputGraphs /\ IsGraph(cfg)
  BY BuildStep, InputIsGraph DEF OrderInv, BuildInv
<1>2. CASE SearchFinish
  <2>1. SearchInv(cfg, dfs) /\ Posted(cfg, dfs) /\ dfs.stack # <<>> /\ Head(dfs.stack).finished
    BY <1>2 DEF SearchFinish, OrderInv, BuildInv, Top
  <2>2. Posted(cfg, dfs')
    BY <1>1, <1>2, <2>1, PostFinish DEF SearchFinish
  <2> QED BY <1>1, <1>2, <2>2 DEF SearchFinish, OrderInv
<1>3. CASE SearchSkip
  <2>1. SearchInv(cfg, dfs) /\ Posted(cfg, dfs) /\ dfs.stack # <<>> /\ ~ Head(dfs.stack).finished
        /\ dfs.dfn[Head(dfs.stack).vertex] # 0
    BY <1>3 DEF SearchSkip, OrderInv, BuildInv, Top
  <2>2. Posted(cfg, dfs')
    BY <1>1, <1>3, <2>1, PostSkip DEF SearchSkip
  <2> QED BY <1>1, <1>3, <2>2 DEF SearchSkip, OrderInv
<1>4. CASE SearchDiscover
  <2>1. CanDiscover(cfg, dfs) /\ Posted(cfg, dfs)
    BY <1>1, <1>4 DEF SearchDiscover, OrderInv, BuildInv, Top, CanDiscover
  <2>2. Posted(cfg, dfs')
    BY <1>4, <2>1, PostDiscover DEF SearchDiscover
  <2> QED BY <1>1, <1>4, <2>2 DEF SearchDiscover, OrderInv
<1>5. CASE SearchEnd
  <2>1. SearchDone(cfg, dfs) /\ Posted(cfg, dfs)
    BY <1>1, <1>5 DEF SearchEnd, OrderInv, BuildInv, SearchDone
  <2>2. Grouped(cfg, dfs, InitScc(dfs))
    BY <2>1, PlacedInit, InitParents DEF Grouped
  <2> QED BY <1>1, <1>5, <2>2 DEF SearchEnd, OrderInv
<1>6. CASE NextHead
  <2>1. SccOK(cfg, dfs, scc) /\ scc.h # 0 /\ Grouped(cfg, dfs, scc)
    BY <1>6 DEF NextHead, OrderInv, BuildInv
  <2>2. Grouped(cfg, dfs, SccStep(dfs, scc))
    BY <2>1, StepEffect, StepParents DEF Grouped
  <2> QED BY <1>1, <1>6, <2>2 DEF NextHead, OrderInv
<1>7. CASE OrderToplevel
  <2>1. SccOK(cfg, dfs, scc) /\ scc.h = 0 /\ Grouped(cfg, dfs, scc)
    BY <1>7 DEF OrderToplevel, OrderInv, BuildInv
  <2>2. Settled(cfg, dfs, Toplevel(scc))
    BY <2>1, TopSettles DEF Grouped
  <2> QED BY <1>1, <1>7, <2>1, <2>2 DEF OrderToplevel, OrderInv, Grouped
<1>8. CASE CountOuterPreds
  <2>1. Posted(cfg, dfs) /\ Settled(cfg, dfs, scc)
    BY <1>8 DEF CountOuterPreds, OrderInv
  <2>2. Ordered(cfg, dfs, scc, wpo')
    BY <1>8, <2>1, FinishedFields DEF CountOuterPreds, Ordered
  <2> QED BY <1>1, <1>8, <2>2 DEF CountOuterPreds, OrderInv
<1>9. CASE UNCHANGED vars
  BY <1>1, <1>9 DEF vars, OrderInv
<1> QED BY <1>2, <1>3, <1>4, <1>5, <1>6, <1>7, <1>8, <1>9 DEF Next

(* It implies the two properties.                                           *)
LEMMA OrderComponents == OrderInv => ComponentsAreSccs
<1> SUFFICES ASSUME OrderInv, phase = "done", dfs # None PROVE ComponentsAreSccs
  BY DEF ComponentsAreSccs
<1>1. Settled(cfg, dfs, scc) /\ FinishedCells(cfg, dfs, scc, wpo)
  BY DEF OrderInv, Ordered
<1> QED BY <1>1, LoopsAreComponents

LEMMA OrderOutside == ASSUME \A g \in InputGraphs : AllReached(g) PROVE OrderInv => OutsideExact
<1> SUFFICES ASSUME OrderInv, phase = "done" PROVE OutsideExact
  BY DEF OutsideExact
<1>1. CASE dfs = None /\ wpo = Singleton(cfg)
  <2>1. Cells(wpo) = {0} /\ wpo.type[0] = "plain"
    BY <1>1 DEF Cells, Singleton
  <2>2. Heads(wpo) = {}
    BY <2>1 DEF Heads
  <2> QED BY <2>2 DEF OutsideExact
<1>2. CASE Posted(cfg, dfs) /\ Settled(cfg, dfs, scc) /\ FinishedCells(cfg, dfs, scc, wpo)
  <2>1. AllReached(cfg)
    BY DEF OrderInv, BuildInv
  <2> QED BY <1>2, <2>1, OutsideTold
<1> QED BY <1>1, <1>2 DEF OrderInv, Ordered

(* In the finished order, the cells of each component belong to the         *)
(* strongly connected component of its head among the blocks discovered     *)
(* from the head on, and two blocks on a common cycle are in a common       *)
(* component: for every control flow graph, whatever its loops              *)
(* (construct_wpo, and the parents that the outer predecessors are counted  *)
(* along).                                                                  *)
THEOREM ComponentsAreExact == Spec => []ComponentsAreSccs
BY OrderInit, OrderStep, OrderComponents, PTL DEF Spec

(* If every block of each function can be reached from its entry, the       *)
(* comparison of post-order numbers that the iterators use                  *)
(* (is_from_outside) tells the predecessors of a head outside of its        *)
(* component from its back edges.  A block that is not reached has no       *)
(* number; the code takes it for number 0 and cell 0.                       *)
THEOREM OutsideIsExact ==
  ASSUME \A g \in InputGraphs : AllReached(g) PROVE Spec => []OutsideExact
BY OrderInit, OrderStep, OrderOutside, PTL DEF Spec

------------------------------------------------------------------------------
(* The components of the vertices after k, and the loop where two of them   *)
(* are apart.                                                               *)

(* A level: a loop, by its head, or 0 for the whole graph.                  *)
Levels(g) == 0..NumBlocks(g)

(* The component of v at level h, by its first vertex: what is strongly     *)
(* connected to v among the vertices after h.                               *)
Group(g, d, h, v) == IF v <= h THEN v ELSE Min(Scc(g, d, h + 1, v))

(* All that is used of these components, one by one: v is in the loop of    *)
(* its component, and a loop after h is within one component.               *)
GroupFacts(g, d) ==
  /\ \A h \in Levels(g) : h \in Nat /\ \A v \in Numbers(g) :
       /\ v \in Nat /\ Group(g, d, h, v) \in Numbers(g) /\ Group(g, d, h, v) <= v
       /\ v <= h => Group(g, d, h, v) = v
       /\ v > h => Group(g, d, h, v) > h /\ v \in LoopOf(g, d, Group(g, d, h, v))
       /\ \A k \in Numbers(g) : k > h /\ v \in LoopOf(g, d, k) => Group(g, d, h, k) = Group(g, d, h, v)
       /\ Group(g, d, h, Group(g, d, h, v)) = Group(g, d, h, v)

(* It is true, whatever the graph: the components after h are strongly      *)
(* connected components (SccOfFirst).                                       *)
LEMMA Groups ==
  ASSUME NEW g, NEW d, SearchDone(g, d)
  PROVE  GroupFacts(g, d)
<1>1. ASSUME NEW h \in Levels(g)
      PROVE  /\ h \in Nat
             /\ \A v \in Numbers(g) :
                /\ v \in Nat /\ Group(g, d, h, v) \in Numbers(g) /\ Group(g, d, h, v) <= v
                /\ v <= h => Group(g, d, h, v) = v
                /\ v > h => Group(g, d, h, v) > h /\ v \in LoopOf(g, d, Group(g, d, h, v))
                /\ \A k \in Numbers(g) : k > h /\ v \in LoopOf(g, d, k) => Group(g, d, h, k) = Group(g, d, h, v)
                /\ Group(g, d, h, Group(g, d, h, v)) = Group(g, d, h, v)
  <2> DEFINE rep == [v \in Numbers(g) |-> Group(g, d, h, v)]
  <2>0. IsGraph(g) /\ d \in SearchStates(g) /\ NumBlocks(g) \in Nat
    BY SearchTypes DEF SearchDone, SearchInv
  <2>1. h \in Nat /\ h + 1 \in Nat /\ \A v \in Numbers(g) : v \in Nat /\ (v > h => v \in From(g, h + 1))
    BY <2>0 DEF Levels, Numbers, From
  <2>2. \A v \in Numbers(g) : Group(g, d, h, v) \in Numbers(g)
    <3> TAKE v \in Numbers(g)
    <3>1. CASE v <= h
      BY <3>1 DEF Group
    <3>2. CASE ~ v <= h
      <4>1. v \in From(g, h + 1)
        BY <3>2, <2>1
      <4> DEFINE m == Min(Scc(g, d, h + 1, v))
      <4>a. m \in Scc(g, d, h + 1, v) /\ \A t : t \in Scc(g, d, h + 1, v) => t \in From(g, h + 1)
        BY <4>1, <2>0, <2>1, Components
      <4>2. m \in From(g, h + 1)
        BY <4>a
      <4> QED  BY <4>2, <3>2 DEF Group, From
    <3> QED  BY <3>1, <3>2
  <2>3. RepOK(g, d, h, rep)
    BY <2>2 DEF RepOK, Group
  <2>4. RootFacts(g, d, h, rep)
    BY <2>3, Roots DEF Levels
  <2>5. \A v \in Numbers(g) : rep[v] = Group(g, d, h, v)
    OBVIOUS
  <2> HIDE DEF rep
  <2>6. LoopFacts(g, d)
    BY Loops
  <2>7. ASSUME NEW v \in Numbers(g)
        PROVE  /\ rep[v] \in Numbers(g) /\ rep[v] <= v
               /\ v <= h => rep[v] = v
               /\ v > h => rep[v] > h /\ v \in LoopOf(g, d, rep[v])
               /\ \A k \in Numbers(g) : k > h /\ v \in LoopOf(g, d, k) => rep[k] = rep[v]
               /\ rep[rep[v]] = rep[v]
    <3>1. /\ rep[v] \in Numbers(g) /\ (v <= h => rep[v] = v)
          /\ v > h => rep[v] > h /\ v \in LoopOf(g, d, rep[v]) /\ rep[rep[v]] = rep[v]
          /\ \A k \in Numbers(g) : k > h /\ v \in LoopOf(g, d, k) => rep[k] = rep[v]
      BY <2>4, <2>1 DEF RootFacts
    <3>2. rep[v] <= v
      BY <3>1, <2>6, <2>1 DEF LoopFacts
    <3>3. v <= h \/ v > h
      BY <2>1
    <3> QED  BY <3>1, <3>2, <3>3
  <2> QED  BY <2>1, <2>2, <2>5, <2>7
<1> QED  BY <1>1 DEF GroupFacts

(* The loop in which p and x are in different components.                   *)
Meet(g, d, k, p, x) ==
  /\ k # 0 => p \in LoopOf(g, d, k) /\ x \in LoopOf(g, d, k)
  /\ Group(g, d, k, p) # Group(g, d, k, x)

(* Two vertices are apart at one level, in the innermost loop around both.  *)
MeetFacts(g, d) ==
  \A p, x \in Numbers(g) :
    /\ p # x => \E k \in Levels(g) : Meet(g, d, k, p, x)
    /\ \A k \in Levels(g) : Meet(g, d, k, p, x) =>
         /\ p # x
         /\ \A j \in Levels(g) : Meet(g, d, j, p, x) => j = k
         /\ \A v \in Numbers(g) : Group(g, d, k, v) = Group(g, d, k, p) /\ (k # 0 => v \in LoopOf(g, d, k)) => Meet(g, d, k, v, x)
         /\ \A j \in Numbers(g) : p \in LoopOf(g, d, j) /\ x \in LoopOf(g, d, j) =>
              k # 0 /\ j <= k /\ LoopOf(g, d, k) \subseteq LoopOf(g, d, j)

(* A set of levels that is not empty has a greatest one.                    *)
LEMMA GreatestLevel ==
  ASSUME NEW N \in Nat, NEW T \in SUBSET (0..N), T # {}
  PROVE  \E k \in T : \A j \in T : j <= k
<1> DEFINE U == {N - j : j \in T}
<1>1. U \in SUBSET Nat /\ U # {}
  <2>1. \A j \in T : N - j \in Nat
    OBVIOUS
  <2> QED  BY <2>1
<1>2. PICK u \in U : \A j \in U : u <= j
  <2> HIDE DEF U
  <2> QED  BY <1>1, LeastNatural
<1>3. PICK k \in T : u = N - k
  BY <1>2
<1>4. \A j \in T : N - k <= N - j
  BY <1>2, <1>3
<1> QED  BY <1>4

(* That level is the greatest of the loops around both.                     *)
LEMMA Meets ==
  ASSUME NEW g, NEW d, SearchDone(g, d)
  PROVE  MeetFacts(g, d)
<1>0. GroupFacts(g, d) /\ LoopFacts(g, d)
  BY Groups, Loops
<1>1. NumBlocks(g) \in Nat
  BY SearchTypes DEF SearchDone, SearchInv
<1>2. ASSUME NEW p \in Numbers(g), NEW x \in Numbers(g), NEW k \in Levels(g), Meet(g, d, k, p, x),
             NEW j \in Numbers(g), p \in LoopOf(g, d, j), x \in LoopOf(g, d, j)
      PROVE  k # 0 /\ j <= k /\ LoopOf(g, d, k) \subseteq LoopOf(g, d, j)
  <2>1. k \in Nat /\ j \in Nat /\ j >= 1
    BY <1>0, <1>1 DEF Levels, Numbers
  <2>2. ~ j > k
    <3> SUFFICES ASSUME j > k PROVE FALSE
      OBVIOUS
    <3> QED  BY <1>0, <1>2 DEF GroupFacts, Meet
  <2>3. k # 0 /\ j <= k
    BY <2>1, <2>2
  <2>4. k \in Numbers(g)
    BY <2>3, <1>1 DEF Levels, Numbers
  <2>5. p \in LoopOf(g, d, k)
    BY <2>3, <1>2 DEF Meet
  <2> QED  BY <2>3, <2>4, <2>5, <1>0, <1>2 DEF LoopFacts
<1>3. ASSUME NEW p \in Numbers(g), NEW x \in Numbers(g), NEW k \in Levels(g), Meet(g, d, k, p, x),
             NEW j \in Levels(g), Meet(g, d, j, p, x)
      PROVE  j <= k
  <2>1. CASE j = 0
    BY <2>1, <1>1 DEF Levels
  <2>2. CASE j # 0
    <3>1. j \in Numbers(g)
      BY <2>2, <1>1 DEF Levels, Numbers
    <3> QED  BY <3>1, <2>2, <1>2, <1>3 DEF Meet
  <2> QED  BY <2>1, <2>2
<1>4. ASSUME NEW p \in Numbers(g), NEW x \in Numbers(g), p # x
      PROVE  \E k \in Levels(g) : Meet(g, d, k, p, x)
  <2> DEFINE T == {0} \cup {j \in Numbers(g) : p \in LoopOf(g, d, j) /\ x \in LoopOf(g, d, j)}
  <2>1. T \in SUBSET (0..NumBlocks(g)) /\ T # {}
    BY <1>1 DEF Numbers
  <2>2. PICK k \in T : \A j \in T : j <= k
    <3> HIDE DEF T
    <3> QED  BY <2>1, <1>1, GreatestLevel
  <2>3. k \in Levels(g) /\ k \in Nat /\ p \in Nat /\ x \in Nat
    BY <2>1, <2>2, <1>1, <1>0 DEF Levels, GroupFacts
  <2>4. k # 0 => p \in LoopOf(g, d, k) /\ x \in LoopOf(g, d, k) /\ p >= k /\ x >= k
    BY <2>2, <1>0 DEF LoopFacts
  <2>5. k = 0 => p >= 1 /\ x >= 1
    BY <1>1 DEF Numbers
  <2>6. SUFFICES ASSUME Group(g, d, k, p) = Group(g, d, k, x) PROVE FALSE
    BY <2>3, <2>4 DEF Meet
  <2> DEFINE r == Group(g, d, k, p)
  <2>7. /\ r \in Numbers(g) /\ r \in Nat /\ (p > k => r > k /\ p \in LoopOf(g, d, r)) /\ (p <= k => r = p)
    BY <2>3, <1>0 DEF GroupFacts
  <2>8. (x > k => r > k /\ x \in LoopOf(g, d, r)) /\ (x <= k => r = x)
    BY <2>3, <2>6, <1>0 DEF GroupFacts
  <2>9. p > k /\ x > k
    <3> HIDE DEF r, T
    <3> QED  BY <2>3, <2>4, <2>5, <2>7, <2>8, <1>4
  <2>10. r \in T /\ r > k
    BY <2>7, <2>8, <2>9
  <2> HIDE DEF r, T
  <2> QED  BY <2>2, <2>10, <2>7, <2>3
<1>5. ASSUME NEW p \in Numbers(g), NEW x \in Numbers(g), NEW k \in Levels(g), Meet(g, d, k, p, x)
      PROVE  p # x /\ \A j \in Levels(g) : Meet(g, d, j, p, x) => j = k
  <2>1. p # x
    BY <1>5 DEF Meet
  <2>2. ASSUME NEW j \in Levels(g), Meet(g, d, j, p, x) PROVE j = k
    <3>1. j <= k
      BY <1>3, <1>5, <2>2
    <3>2. k <= j
      BY <1>3, <1>5, <2>2
    <3>3. j \in Nat /\ k \in Nat
      BY <1>0 DEF GroupFacts
    <3> QED  BY <3>1, <3>2, <3>3
  <2> QED  BY <2>1, <2>2
<1>6. ASSUME NEW p \in Numbers(g), NEW x \in Numbers(g), NEW k \in Levels(g), Meet(g, d, k, p, x),
             NEW v \in Numbers(g), Group(g, d, k, v) = Group(g, d, k, p), k # 0 => v \in LoopOf(g, d, k)
      PROVE  Meet(g, d, k, v, x)
  BY <1>6 DEF Meet
<1> QED  BY <1>2, <1>4, <1>5, <1>6 DEF MeetFacts

(* From which cell of the component of p a constraint in loop k leads.      *)
LEMMA SourceInLoop ==
  ASSUME NEW g, NEW d, SearchDone(g, d), NEW j \in Levels(g), NEW p \in Numbers(g),
         j # 0 => p \in LoopOf(g, d, j), NEW k \in Numbers(g), Group(g, d, j, p) \in LoopOf(g, d, k)
  PROVE  \/ j # 0 /\ k <= j /\ LoopOf(g, d, j) \subseteq LoopOf(g, d, k)
         \/ k > j /\ Group(g, d, j, p) = k
<1>0. GroupFacts(g, d) /\ LoopFacts(g, d) /\ NumBlocks(g) \in Nat
  BY Groups, Loops, SearchTypes DEF SearchDone, SearchInv
<1> DEFINE u == Group(g, d, j, p)
<1>1. j \in Nat /\ k \in Nat /\ p \in Nat /\ u \in Numbers(g) /\ u \in Nat
      /\ Group(g, d, j, u) = u /\ Group(g, d, j, k) <= k /\ (p <= j => u = p)
      /\ (p > j => u > j /\ p \in LoopOf(g, d, u)) /\ k >= 1
      /\ (k > j => Group(g, d, j, k) = Group(g, d, j, u))
  BY <1>0 DEF GroupFacts, Numbers
<1>2. u >= k
  BY <1>0 DEF LoopFacts
<1>3. CASE k > j
  BY <1>1, <1>2, <1>3
<1>4. CASE k <= j
  <2>1. j # 0 /\ p \in LoopOf(g, d, j) /\ j \in Numbers(g) /\ p >= j
    BY <1>1, <1>4, <1>0 DEF Numbers, Levels, LoopFacts
  <2>2. u \in LoopOf(g, d, j)
    <3>1. CASE p <= j
      BY <3>1, <2>1, <1>1
    <3>2. CASE p > j
      <4>1. LoopOf(g, d, u) \subseteq LoopOf(g, d, j) /\ u \in LoopOf(g, d, u)
        BY <3>2, <2>1, <1>1, <1>0 DEF LoopFacts
      <4> QED  BY <4>1
    <3> QED  BY <3>1, <3>2, <1>1
  <2> QED  BY <2>1, <2>2, <1>4, <1>0 DEF LoopFacts
<1> QED  BY <1>1, <1>3, <1>4

------------------------------------------------------------------------------
(* The edges that the merging has restored.                                 *)

(* The edges that are restored so far and join two components are stored at *)
(* the component that they lead into, and there are no others.              *)
OriginOK(g, d, h, rep, origin) ==
  /\ \A r \in Numbers(g) : rep[r] = r => \A e \in origin[r] :
       /\ e \in Numbers(g) \X Numbers(g) /\ rep[e[2]] = r
       /\ Entering(g, d, h, e[1], e[2]) /\ e[1] \notin LoopOf(g, d, r)
  /\ \A p, x \in Numbers(g) :
       Entering(g, d, h, p, x) /\ rep[p] # rep[x] => <<p, x>> \in origin[rep[x]]

(* It holds at the beginning, where no edge is restored, ...                *)
LEMMA OriginInit ==
  ASSUME NEW g, NEW d, SearchDone(g, d)
  PROVE  OriginOK(g, d, InitScc(d).h, InitScc(d).rep, InitScc(d).origin)
<1> DEFINE s == InitScc(d)
           N == NumBlocks(g)
<1>0. d \in SearchStates(g) /\ IsGraph(g)
  BY DEF SearchDone, SearchInv
<1>1. N \in Nat /\ DOMAIN d.back = Numbers(g) /\ Cardinality(Numbers(g)) = N
  <2>1. N \in Nat
    BY <1>0, SearchTypes
  <2>2. Cardinality(1..N) = N - 1 + 1
    BY <2>1, FS_Interval
  <2>3. d.back \in [Numbers(g) -> SUBSET Numbers(g)]
    BY <1>0 DEF SearchStates
  <2> QED  BY <2>1, <2>2, <2>3 DEF Numbers
<1>2. s.h = N /\ s.rep = [v \in Numbers(g) |-> v] /\ s.origin = [v \in Numbers(g) |-> {<<u, v>> : u \in d.nonback[v]}]
  BY <1>1 DEF InitScc
<1>3. \A p, x : Entering(g, d, N, p, x) <=> p \in d.nonback[x]
  BY <1>1 DEF Entering, Numbers
<1>4. \A v \in Numbers(g) : \A q \in d.nonback[v] : q \in Numbers(g) /\ q < v
  BY Ancestors
<1>5. \A v \in Numbers(g) : \A q \in d.nonback[v] : q \notin LoopOf(g, d, v)
  <2>1. LoopFacts(g, d)
    BY Loops
  <2>2. \A v, q \in Numbers(g) : q \in LoopOf(g, d, v) => v <= q
    BY <2>1 DEF LoopFacts
  <2>3. \A v, q \in Numbers(g) : q < v => ~ v <= q
    BY <1>1 DEF Numbers
  <2> QED  BY <2>2, <2>3, <1>4
<1> HIDE DEF s, N
<1>6. OriginOK(g, d, N, s.rep, s.origin)
  <2>1. ASSUME NEW r \in Numbers(g), NEW e \in s.origin[r]
        PROVE  /\ e \in Numbers(g) \X Numbers(g) /\ s.rep[e[2]] = r
               /\ Entering(g, d, N, e[1], e[2]) /\ e[1] \notin LoopOf(g, d, r)
    <3>1. PICK u \in d.nonback[r] : e = <<u, r>>
      BY <1>2, <2>1
    <3>2. e[1] = u /\ e[2] = r
      BY <3>1
    <3> QED  BY <3>1, <3>2, <1>2, <1>3, <1>4, <1>5
  <2>2. ASSUME NEW p \in Numbers(g), NEW x \in Numbers(g), Entering(g, d, N, p, x)
        PROVE  <<p, x>> \in s.origin[s.rep[x]]
    BY <2>2, <1>2, <1>3
  <2> QED  BY <2>1, <2>2 DEF OriginOK
<1> QED  BY <1>6, <1>2 DEF s

(* The cross edges that are restored at h come from outside.                *)
LEMMA OriginRestored ==
  ASSUME NEW g, NEW d, SearchDone(g, d), NEW h \in Numbers(g), NEW rep, RootFacts(g, d, h, rep),
         NEW origin, DOMAIN origin = Numbers(g), OriginOK(g, d, h, rep, origin)
  PROVE  OriginOK(g, d, h - 1, rep, AlsoInto(d, h, rep, origin))
<1> DEFINE also == AlsoInto(d, h, rep, origin)
<1>0. NumBlocks(g) \in Nat /\ d \in SearchStates(g) /\ IsGraph(g) /\ h \in Nat /\ \A l \in Numbers(g) : l \in Nat
  BY SearchTypes DEF SearchDone, SearchInv, Numbers
<1>1. d.cross[h] \in SUBSET (Numbers(g) \X Numbers(g))
  BY <1>0 DEF SearchStates
<1>2. \A p, x : Entering(g, d, h - 1, p, x) <=> Entering(g, d, h, p, x) \/ <<p, x>> \in d.cross[h]
  <2>1. \A l \in Numbers(g) : l > h - 1 <=> l > h \/ l = h
    BY <1>0
  <2> QED  BY <2>1 DEF Entering
<1>3. \A v \in Numbers(g) : also[v] = origin[v] \cup {e \in d.cross[h] : rep[e[2]] = v}
  BY DEF AlsoInto
<1>4. ASSUME NEW e \in d.cross[h], NEW r \in Numbers(g), rep[e[2]] = r
      PROVE  e[1] \notin LoopOf(g, d, r)
  <2>1. e \in Numbers(g) \X Numbers(g) /\ e = <<e[1], e[2]>>
    BY <1>1
  <2>2. PICK a, b \in Numbers(g) : e = <<a, b>> /\ a = e[1] /\ b = e[2]
    BY <2>1
  <2>3. /\ h < b /\ h \in Up(d, a) /\ h \in Up(d, b)
        /\ \A c \in Up(d, a) : c \in Up(d, b) => c <= h
    BY <2>2, EdgeKinds
  <2>4. b \in From(g, h + 1)
    BY <2>3, <1>0 DEF From
  <2>5. r \in From(g, h + 1) /\ b \in LoopOf(g, d, r) /\ r > h
    BY <2>4, <2>2, <1>4 DEF RootFacts
  <2>6. LoopFacts(g, d)
    BY Loops
  <2>7. r \in Up(d, b) /\ (a \in LoopOf(g, d, r) => r \in Up(d, a))
    BY <2>5, <2>6 DEF LoopFacts
  <2>8. ~ r <= h
    <3>1. r > h /\ r \in Nat /\ h \in Nat
      BY <2>5, <1>0
    <3> QED  BY <3>1
  <2> QED  BY <2>2, <2>3, <2>7, <2>8
<1> HIDE DEF also
<1>5. ASSUME NEW r \in Numbers(g), rep[r] = r, NEW e \in also[r]
      PROVE  /\ e \in Numbers(g) \X Numbers(g) /\ rep[e[2]] = r
             /\ Entering(g, d, h - 1, e[1], e[2]) /\ e[1] \notin LoopOf(g, d, r)
  <2>1. CASE e \in origin[r]
    BY <2>1, <1>5, <1>2 DEF OriginOK
  <2>2. CASE e \in d.cross[h] /\ rep[e[2]] = r
    <3>1. e \in Numbers(g) \X Numbers(g) /\ e = <<e[1], e[2]>>
      BY <2>2, <1>1
    <3> QED  BY <2>2, <3>1, <1>4, <1>2
  <2> QED  BY <2>1, <2>2, <1>3, <1>5
<1>6. ASSUME NEW p \in Numbers(g), NEW x \in Numbers(g), Entering(g, d, h - 1, p, x), rep[p] # rep[x]
      PROVE  <<p, x>> \in also[rep[x]]
  <2>1. rep[x] \in Numbers(g)
    BY DEF RootFacts
  <2>2. CASE Entering(g, d, h, p, x)
    BY <2>1, <2>2, <1>3, <1>6 DEF OriginOK
  <2>3. CASE <<p, x>> \in d.cross[h]
    BY <2>1, <2>3, <1>3
  <2> QED  BY <2>2, <2>3, <1>2, <1>6
<1> QED  BY <1>5, <1>6 DEF OriginOK, also

(* Merging components keeps what is stored of those that are left.          *)
LEMMA OriginMerged ==
  ASSUME NEW g, NEW d, SearchDone(g, d), NEW s, NEW t, RepStep(g, d, s, t), s.h \in Numbers(g),
         NEW origin, OriginOK(g, d, s.h - 1, s.rep, origin)
  PROVE  OriginOK(g, d, s.h - 1, t.rep, origin)
<1> DEFINE h == s.h
           R == Nested(d, h, s.rep, Restored(d, h, s.rep, s.nonback))
<1>0. /\ RootFacts(g, d, h, s.rep) /\ RootFacts(g, d, h - 1, t.rep)
      /\ R \subseteq From(g, h + 1) /\ \A r \in R : s.rep[r] = r /\ r \in LoopOf(g, d, h)
      /\ t.rep[h] = h /\ s.rep[h] = h
      /\ \A v \in From(g, h + 1) : IF v \in LoopOf(g, d, h) THEN s.rep[v] \in R /\ t.rep[v] = h
                                   ELSE s.rep[v] \notin R /\ t.rep[v] = s.rep[v]
  BY DEF RepStep
<1>1. NumBlocks(g) \in Nat /\ h \in Numbers(g) /\ h \in Nat /\ \A l \in Numbers(g) : l \in Nat
  BY SearchTypes DEF SearchDone, SearchInv, Numbers
<1> HIDE DEF R, h
<1>2. ASSUME NEW v \in Numbers(g)
      PROVE  /\ v <= h => s.rep[v] = v /\ t.rep[v] = v
             /\ ~ v <= h => v \in From(g, h + 1) /\ s.rep[v] \in From(g, h + 1) /\ s.rep[v] # h
             /\ s.rep[v] \in Numbers(g) /\ t.rep[v] \in Numbers(g)
  <2>1. /\ v > h => v \in From(g, h + 1) /\ s.rep[v] \in From(g, h + 1)
        /\ v <= h => s.rep[v] = v /\ (v <= h - 1 => t.rep[v] = v)
        /\ s.rep[v] \in Numbers(g) /\ t.rep[v] \in Numbers(g) /\ h \notin From(g, h + 1)
    BY <1>0, <1>1 DEF RootFacts, From
  <2>2. v <= h <=> v <= h - 1 \/ v = h
    BY <1>1
  <2>3. ~ v <= h => v > h
    BY <1>1
  <2> QED  BY <2>1, <2>2, <2>3, <1>0
<1>3. ASSUME NEW r \in Numbers(g), t.rep[r] = r, NEW e \in origin[r]
      PROVE  /\ e \in Numbers(g) \X Numbers(g) /\ t.rep[e[2]] = r
             /\ Entering(g, d, h - 1, e[1], e[2]) /\ e[1] \notin LoopOf(g, d, r)
  <2>1. s.rep[r] = r
    <3>1. CASE r <= h
      BY <3>1, <1>2
    <3>2. CASE ~ r <= h
      <4>1. r \in From(g, h + 1) /\ r # h
        BY <3>2, <1>2, <1>1
      <4> QED  BY <4>1, <1>3, <1>0
    <3> QED  BY <3>1, <3>2
  <2>2. /\ e \in Numbers(g) \X Numbers(g) /\ s.rep[e[2]] = r
        /\ Entering(g, d, h - 1, e[1], e[2]) /\ e[1] \notin LoopOf(g, d, r)
    BY <2>1, <1>3 DEF OriginOK, h
  <2>3. e[2] \in Numbers(g)
    BY <2>2
  <2>4. CASE e[2] <= h
    BY <2>2, <2>3, <2>4, <1>2
  <2>5. CASE ~ e[2] <= h
    <3>1. e[2] \in From(g, h + 1) /\ r \in From(g, h + 1) /\ r # h
      BY <2>2, <2>3, <2>5, <1>2
    <3>2. e[2] \notin LoopOf(g, d, h)
      <4>1. SUFFICES ASSUME e[2] \in LoopOf(g, d, h) PROVE FALSE
        OBVIOUS
      <4>2. r \in R
        BY <3>1, <4>1, <2>2, <1>0
      <4>3. r \in LoopOf(g, d, h)
        BY <4>2, <1>0
      <4> QED  BY <4>3, <3>1, <1>0, <1>3
    <3> QED  BY <3>1, <3>2, <1>0, <2>2
  <2> QED  BY <2>4, <2>5, <2>2
<1>4. ASSUME NEW p \in Numbers(g), NEW x \in Numbers(g), Entering(g, d, h - 1, p, x), t.rep[p] # t.rep[x]
      PROVE  <<p, x>> \in origin[t.rep[x]]
  <2>1. s.rep[p] # s.rep[x]
    <3>1. SUFFICES ASSUME s.rep[p] = s.rep[x] PROVE FALSE
      OBVIOUS
    <3>2. CASE p <= h
      <4>1. s.rep[p] = p /\ p \notin From(g, h + 1)
        BY <3>2, <1>2, <1>1 DEF From
      <4> QED  BY <3>2, <4>1, <3>1, <1>2, <1>4
    <3>3. CASE ~ p <= h
      <4>1. p \in From(g, h + 1) /\ s.rep[p] \in From(g, h + 1)
        BY <3>3, <1>2
      <4>2. ~ x <= h
        <5>1. x <= h => s.rep[x] = x /\ x \notin From(g, h + 1)
          BY <1>2, <1>1 DEF From
        <5> QED  BY <5>1, <4>1, <3>1
      <4>3. x \in From(g, h + 1)
        BY <4>2, <1>2
      <4> QED  BY <4>1, <4>3, <3>1, <1>0, <1>4
    <3> QED  BY <3>2, <3>3
  <2>2. <<p, x>> \in origin[s.rep[x]]
    BY <2>1, <1>4 DEF OriginOK, h
  <2>3. t.rep[x] = s.rep[x]
    <3>1. CASE x <= h
      BY <3>1, <1>2
    <3>2. CASE ~ x <= h
      <4>1. x \in From(g, h + 1) /\ x # h
        BY <3>2, <1>2, <1>1
      <4>2. CASE x \in LoopOf(g, d, h)
        <5>1. p \in LoopOf(g, d, h)
          BY <4>1, <4>2, <1>1, <1>4, EnteringInside DEF LoopOf
        <5>2. t.rep[p] = h
          <6>1. LoopFacts(g, d)
            BY Loops
          <6>2. h <= p
            BY <6>1, <5>1, <1>1 DEF LoopFacts
          <6>3. p = h \/ ~ p <= h
            BY <6>2, <1>1
          <6> QED  BY <6>3, <5>1, <1>0, <1>2
        <5> QED  BY <5>2, <4>1, <4>2, <1>0, <1>4
      <4>3. CASE x \notin LoopOf(g, d, h)
        BY <4>1, <4>3, <1>0
      <4> QED  BY <4>2, <4>3
    <3> QED  BY <3>1, <3>2
  <2> QED  BY <2>2, <2>3
<1> QED  BY <1>3, <1>4 DEF OriginOK, h

------------------------------------------------------------------------------
(* The constraints that are there, loop by loop.                            *)

(* The cell from which a constraint at level k leads, for an edge from p:   *)
(* the head of the loop, or the exit of the component of p.                 *)
Source(g, d, s, k, p) == IF p = k THEN s.d2i[k] ELSE LastOf(s, Group(g, d, k, p))

(* The constraint that construct_wpo adds at level k for an edge from p to  *)
(* x.                                                                       *)
IsInner(g, d, s, k, l, p, x) ==
  /\ Entering(g, d, 0, p, x) /\ Meet(g, d, k, p, x)
  /\ l.from = Source(g, d, s, k, p) /\ l.to = s.d2i[x]
  /\ l.exit = LastOf(s, Group(g, d, k, x)) /\ l.outer = (Group(g, d, k, x) \in Cyclic(d))

(* A constraint that comes from an edge.                                    *)
InnerForm(g, d, s, k, l) == \E p, x \in Numbers(g) : IsInner(g, d, s, k, l, p, x)

(* v is a back edge into k that the exit of k waits for.                    *)
ExitForm(g, d, s, k, l) ==
  /\ k \in Cyclic(d) /\ l.to = LastOf(s, k) /\ l.exit = LastOf(s, k) /\ l.outer = FALSE
  /\ IF d.back[k] \subseteq {k} THEN l.from = s.d2i[k]
     ELSE \E v \in d.back[k] \ {k} : l.from = Source(g, d, s, k, v)

(* There is a constraint from a to b.                                       *)
Has(s, a, b) == \E l \in s.links : l.from = a /\ l.to = b

(* Every edge between two components of the loop of k has its constraint,   *)
(* ...                                                                      *)
InnerThere(g, d, s, k) ==
  \A p, x \in Numbers(g) :
    Entering(g, d, 0, p, x) /\ Meet(g, d, k, p, x) => Has(s, Source(g, d, s, k, p), s.d2i[x])

(* ... and the exit of k waits for every back edge.                         *)
ExitThere(g, d, s, k) ==
  k \in Cyclic(d) =>
    IF d.back[k] \subseteq {k} THEN Has(s, s.d2i[k], LastOf(s, k))
    ELSE \A v \in d.back[k] \ {k} : Has(s, Source(g, d, s, k, v), LastOf(s, k))

(* The constraints of the levels from low upwards are there, and no others. *)
LinksOK(g, d, s, low) ==
  /\ \A l \in s.links : \E k \in low..NumBlocks(g) : InnerForm(g, d, s, k, l) \/ ExitForm(g, d, s, k, l)
  /\ \A k \in low..NumBlocks(g) : InnerThere(g, d, s, k) /\ ExitThere(g, d, s, k)

(* What is said of the loop k is said again when more cells are there.      *)
KeepsCells(g, s, t, h) ==
  \A v \in Numbers(g) : v > h => t.d2i[v] = s.d2i[v] /\ LastOf(t, v) = LastOf(s, v)

(* The cells of vertices after h stay, hence the source of a constraint     *)
(* does, ...                                                                *)
LEMMA SourceKept ==
  ASSUME NEW g, NEW d, SearchDone(g, d), NEW s, NEW t, NEW h \in Nat, KeepsCells(g, s, t, h),
         NEW k \in Numbers(g), k > h, NEW p \in LoopOf(g, d, k)
  PROVE  /\ p \in Numbers(g) /\ p > h /\ Group(g, d, k, p) \in Numbers(g) /\ Group(g, d, k, p) > h
         /\ Source(g, d, t, k, p) = Source(g, d, s, k, p)
<1>0. GroupFacts(g, d) /\ LoopFacts(g, d) /\ NumBlocks(g) \in Nat
  BY Groups, Loops, SearchTypes DEF SearchDone, SearchInv
<1>1. p \in Numbers(g) /\ k <= p /\ k \in Nat /\ p \in Nat /\ k \in Levels(g)
  BY <1>0 DEF LoopFacts, Numbers, Levels
<1>2. /\ Group(g, d, k, p) \in Numbers(g) /\ (p <= k => Group(g, d, k, p) = p)
      /\ (p > k => Group(g, d, k, p) > k)
  BY <1>0, <1>1 DEF GroupFacts
<1>3. Group(g, d, k, p) \in Nat
  BY <1>2, <1>0 DEF Numbers
<1>4. p > h /\ Group(g, d, k, p) > h
  BY <1>1, <1>2, <1>3
<1> QED  BY <1>1, <1>2, <1>4 DEF Source, KeepsCells

(* ... and what is said of its level.                                       *)
LEMMA LevelKept ==
  ASSUME NEW g, NEW d, SearchDone(g, d), NEW s, NEW t, NEW h \in Nat, KeepsCells(g, s, t, h),
         NEW k \in Numbers(g), k > h
  PROVE  /\ \A l : InnerForm(g, d, s, k, l) => InnerForm(g, d, t, k, l)
         /\ \A l : ExitForm(g, d, s, k, l) => ExitForm(g, d, t, k, l)
         /\ (\A a, b : Has(s, a, b) => Has(t, a, b)) =>
              /\ InnerThere(g, d, s, k) => InnerThere(g, d, t, k)
              /\ ExitThere(g, d, s, k) => ExitThere(g, d, t, k)
<1>0. LoopFacts(g, d) /\ NumBlocks(g) \in Nat /\ k # 0
  BY Loops, SearchTypes DEF SearchDone, SearchInv, Numbers
<1>1. \A p \in LoopOf(g, d, k) :
         /\ t.d2i[p] = s.d2i[p] /\ Source(g, d, t, k, p) = Source(g, d, s, k, p)
         /\ LastOf(t, Group(g, d, k, p)) = LastOf(s, Group(g, d, k, p))
  <2> TAKE p \in LoopOf(g, d, k)
  <2>1. /\ p \in Numbers(g) /\ p > h /\ Group(g, d, k, p) \in Numbers(g) /\ Group(g, d, k, p) > h
        /\ Source(g, d, t, k, p) = Source(g, d, s, k, p)
    BY SourceKept
  <2> QED  BY <2>1 DEF KeepsCells
<1>2. t.d2i[k] = s.d2i[k] /\ LastOf(t, k) = LastOf(s, k)
  BY DEF KeepsCells
<1>3. \A v \in d.back[k] : v \in LoopOf(g, d, k)
  <2> TAKE v \in d.back[k]
  <2>1. v \in Numbers(g)
    <3>1. d.back \in [Numbers(g) -> SUBSET Numbers(g)]
      BY DEF SearchDone, SearchInv, SearchStates
    <3> QED  BY <3>1
  <2>2. IsEdge(g, d, v, k) /\ k \in Up(d, v)
    BY <2>1, EdgeKinds
  <2> QED  BY <2>1, <2>2, <1>0 DEF LoopFacts
<1>4. \A p, x \in Numbers(g) : Meet(g, d, k, p, x) => p \in LoopOf(g, d, k) /\ x \in LoopOf(g, d, k)
  BY <1>0 DEF Meet
<1>5. ASSUME NEW l, InnerForm(g, d, s, k, l) PROVE InnerForm(g, d, t, k, l)
  <2>1. PICK p, x \in Numbers(g) : IsInner(g, d, s, k, l, p, x)
    BY <1>5 DEF InnerForm
  <2>2. p \in LoopOf(g, d, k) /\ x \in LoopOf(g, d, k)
    BY <2>1, <1>4 DEF IsInner
  <2>3. IsInner(g, d, t, k, l, p, x)
    BY <2>1, <2>2, <1>1 DEF IsInner
  <2> QED  BY <2>3 DEF InnerForm
<1>6. ASSUME NEW l, ExitForm(g, d, s, k, l) PROVE ExitForm(g, d, t, k, l)
  BY <1>6, <1>1, <1>2, <1>3 DEF ExitForm
<1>7. ASSUME \A a, b : Has(s, a, b) => Has(t, a, b), InnerThere(g, d, s, k)
      PROVE  InnerThere(g, d, t, k)
  <2> SUFFICES ASSUME NEW p \in Numbers(g), NEW x \in Numbers(g), Entering(g, d, 0, p, x), Meet(g, d, k, p, x)
               PROVE  Has(t, Source(g, d, t, k, p), t.d2i[x])
    BY DEF InnerThere
  <2>1. Has(s, Source(g, d, s, k, p), s.d2i[x])
    BY <1>7 DEF InnerThere
  <2>2. Source(g, d, t, k, p) = Source(g, d, s, k, p) /\ t.d2i[x] = s.d2i[x]
    BY <1>1, <1>4
  <2> QED  BY <2>1, <2>2, <1>7
<1>8. ASSUME \A a, b : Has(s, a, b) => Has(t, a, b), ExitThere(g, d, s, k)
      PROVE  ExitThere(g, d, t, k)
  BY <1>8, <1>1, <1>2, <1>3 DEF ExitThere
<1> QED  BY <1>5, <1>6, <1>7, <1>8

(* The constraints of the original edges into the components of R.          *)

(* What is used of a turn to join the components R of the loop of h: they   *)
(* are represented by their heads, and the edges into them are stored.      *)
Joining(g, d, h, rep, origin, R, D, exit, t) ==
  /\ h \in Levels(g) /\ \A v \in Numbers(g) : rep[v] = Group(g, d, h, v)
  /\ \A v \in Numbers(g) : t.d2i[v] = D[v]
  /\ \A v \in Numbers(g) : v > h => D[exit[v]] = LastOf(t, v) /\ (exit[v] # v <=> v \in Cyclic(d))
  /\ h # 0 => D[exit[h]] = t.d2i[h]
  /\ \A r \in R : r \in Numbers(g) /\ rep[r] = r /\ r > h
  /\ \A r \in R : \A e \in origin[r] :
       /\ e \in Numbers(g) \X Numbers(g) /\ rep[e[2]] = r /\ Entering(g, d, 0, e[1], e[2])
       /\ e[1] \notin LoopOf(g, d, r)
       /\ h # 0 => e[1] \in LoopOf(g, d, h) /\ e[2] \in LoopOf(g, d, h)
  /\ \A p, x \in Numbers(g) :
       Entering(g, d, 0, p, x) /\ Meet(g, d, h, p, x) => rep[x] \in R /\ <<p, x>> \in origin[rep[x]]

(* Then construct_wpo finds the cell where a constraint starts, ...         *)
LEMMA JoinSource ==
  ASSUME NEW g, NEW d, SearchDone(g, d), NEW h, NEW rep, NEW origin, NEW R, NEW D, NEW exit, NEW t,
         Joining(g, d, h, rep, origin, R, D, exit, t), NEW p \in Numbers(g),
         h # 0 => p \in LoopOf(g, d, h)
  PROVE  D[exit[rep[p]]] = Source(g, d, t, h, p)
<1>0. GroupFacts(g, d) /\ LoopFacts(g, d) /\ NumBlocks(g) \in Nat
  BY Groups, Loops, SearchTypes DEF SearchDone, SearchInv
<1>1. h \in Levels(g) /\ h \in Nat /\ p \in Nat /\ p >= 1 /\ rep[p] = Group(g, d, h, p)
  BY <1>0 DEF Joining, GroupFacts, Numbers
<1>2. p = h \/ p > h
  <2>1. CASE h = 0
    BY <2>1, <1>1
  <2>2. CASE h # 0
    <3>1. h \in Numbers(g)
      BY <2>2, <1>1, <1>0 DEF Levels, Numbers
    <3>2. h <= p
      BY <3>1, <2>2, <1>0 DEF LoopFacts
    <3> QED  BY <3>2, <1>1
  <2> QED  BY <2>1, <2>2
<1>3. CASE p = h
  <2>1. rep[p] = h /\ h # 0
    BY <1>3, <1>1, <1>0 DEF GroupFacts
  <2> QED  BY <2>1, <1>3 DEF Joining, Source
<1>4. CASE p > h
  <2>1. Group(g, d, h, p) \in Numbers(g) /\ Group(g, d, h, p) > h
    BY <1>4, <1>1, <1>0 DEF GroupFacts
  <2>2. p # h
    BY <1>4, <1>1
  <2>3. \A v \in Numbers(g) : v > h => D[exit[v]] = LastOf(t, v)
    BY DEF Joining
  <2>4. D[exit[rep[p]]] = LastOf(t, Group(g, d, h, p))
    BY <2>1, <2>3, <1>1
  <2> QED  BY <2>2, <2>4 DEF Source
<1> QED  BY <1>2, <1>3, <1>4

(* ... and adds exactly the constraints of that level.                      *)
LEMMA JoinForms ==
  ASSUME NEW g, NEW d, SearchDone(g, d), NEW h, NEW rep, NEW origin, NEW R, NEW D, NEW exit, NEW t,
         Joining(g, d, h, rep, origin, R, D, exit, t)
  PROVE  /\ \A l \in InnerLinks(D, exit, rep, origin, R) : InnerForm(g, d, t, h, l)
         /\ \A p, x \in Numbers(g) : Entering(g, d, 0, p, x) /\ Meet(g, d, h, p, x) =>
              \E l \in InnerLinks(D, exit, rep, origin, R) : l.from = Source(g, d, t, h, p) /\ l.to = t.d2i[x]
<1>0. GroupFacts(g, d) /\ LoopFacts(g, d) /\ NumBlocks(g) \in Nat
  BY Groups, Loops, SearchTypes DEF SearchDone, SearchInv
<1>1. ASSUME NEW l \in InnerLinks(D, exit, rep, origin, R)
      PROVE  InnerForm(g, d, t, h, l)
  <2>1. PICK r \in R : \E e \in origin[r] : l = InnerLink(D, exit, rep, r, e)
    BY <1>1 DEF InnerLinks
  <2>2. PICK e \in origin[r] : l = InnerLink(D, exit, rep, r, e)
    BY <2>1
  <2>3. /\ e \in Numbers(g) \X Numbers(g) /\ rep[e[2]] = r /\ Entering(g, d, 0, e[1], e[2])
        /\ e[1] \notin LoopOf(g, d, r)
        /\ h # 0 => e[1] \in LoopOf(g, d, h) /\ e[2] \in LoopOf(g, d, h)
        /\ r \in Numbers(g) /\ rep[r] = r /\ r > h /\ h \in Levels(g)
    BY <2>2 DEF Joining
  <2>4. PICK p, x \in Numbers(g) : p = e[1] /\ x = e[2]
    BY <2>3
  <2>5. rep[p] = Group(g, d, h, p) /\ rep[x] = Group(g, d, h, x) /\ r = Group(g, d, h, x)
    BY <2>3, <2>4 DEF Joining
  <2>6. Group(g, d, h, p) # Group(g, d, h, x)
    <3>1. SUFFICES ASSUME Group(g, d, h, p) = r PROVE FALSE
      BY <2>5
    <3>2. h \in Nat /\ p \in Nat /\ (p > h => p \in LoopOf(g, d, Group(g, d, h, p))) /\ (p <= h => Group(g, d, h, p) = p)
      BY <2>3, <1>0 DEF GroupFacts
    <3>3. p \in LoopOf(g, d, r)
      <4>1. CASE p > h
        BY <4>1, <3>1, <3>2
      <4>2. CASE p <= h
        BY <4>2, <3>1, <3>2, <2>3
      <4> QED  BY <4>1, <4>2, <3>2
    <3> QED  BY <3>3, <2>3, <2>4
  <2>7. Meet(g, d, h, p, x)
    BY <2>3, <2>4, <2>6 DEF Meet
  <2>8. D[exit[rep[p]]] = Source(g, d, t, h, p)
    BY <2>3, <2>4, JoinSource
  <2>9. D[exit[r]] = LastOf(t, r) /\ (exit[r] # r <=> r \in Cyclic(d)) /\ t.d2i[x] = D[x]
    BY <2>3 DEF Joining
  <2>10. l = [from |-> D[exit[rep[p]]], to |-> D[x], exit |-> D[exit[r]], outer |-> exit[r] # r]
    BY <2>2, <2>4 DEF InnerLink
  <2>11. l.from = D[exit[rep[p]]] /\ l.to = D[x] /\ l.exit = D[exit[r]] /\ l.outer = (exit[r] # r)
    BY <2>10
  <2>12. IsInner(g, d, t, h, l, p, x)
    BY <2>3, <2>4, <2>5, <2>7, <2>8, <2>9, <2>11 DEF IsInner
  <2> QED  BY <2>12 DEF InnerForm
<1>2. ASSUME NEW p \in Numbers(g), NEW x \in Numbers(g), Entering(g, d, 0, p, x), Meet(g, d, h, p, x)
      PROVE  \E l \in InnerLinks(D, exit, rep, origin, R) : l.from = Source(g, d, t, h, p) /\ l.to = t.d2i[x]
  <2>1. rep[x] \in R /\ <<p, x>> \in origin[rep[x]]
    BY <1>2 DEF Joining
  <2> DEFINE l == InnerLink(D, exit, rep, rep[x], <<p, x>>)
  <2>2. l \in InnerLinks(D, exit, rep, origin, R)
    BY <2>1 DEF InnerLinks
  <2>3. l.from = D[exit[rep[p]]] /\ l.to = D[x]
    BY DEF InnerLink
  <2>4. D[exit[rep[p]]] = Source(g, d, t, h, p)
    BY <1>2, JoinSource DEF Meet
  <2>5. t.d2i[x] = D[x]
    BY DEF Joining
  <2> HIDE DEF l
  <2> QED  BY <2>2, <2>3, <2>4, <2>5
<1> QED  BY <1>1, <1>2

------------------------------------------------------------------------------
(* What a turn does to the edges, and hands to the constraints.             *)

(* No edge that is followed comes from the loop of its target: such edges   *)
(* are back edges.                                                          *)
LEMMA NotIntoHead ==
  ASSUME NEW g, NEW d, SearchDone(g, d), NEW h, NEW p \in Numbers(g), NEW x \in Numbers(g), Entering(g, d, h, p, x)
  PROVE  p \notin LoopOf(g, d, x)
<1> SUFFICES ASSUME p \in LoopOf(g, d, x) PROVE FALSE
  OBVIOUS
<1>1. LoopFacts(g, d) /\ p \in Nat /\ x \in Nat
  BY Loops, SearchTypes DEF SearchDone, SearchInv, Numbers
<1>2. x <= p /\ x \in Up(d, p)
  BY <1>1 DEF LoopFacts
<1>3. CASE p \in d.nonback[x]
  <2>1. p < x
    BY <1>3, Ancestors
  <2> QED  BY <2>1, <1>1, <1>2
<1>4. CASE \E l \in Numbers(g) : l > h /\ <<p, x>> \in d.cross[l]
  <2>1. PICK l \in Numbers(g) : <<p, x>> \in d.cross[l]
    BY <1>4
  <2>2. l < x /\ \A c \in Up(d, p) : c \in Up(d, x) => c <= l
    BY <2>1, EdgeKinds
  <2>3. x \in Up(d, x)
    BY Ancestors
  <2>4. x <= l /\ l \in Nat
    BY <2>2, <2>3, <1>2 DEF Numbers
  <2> QED  BY <2>2, <2>4, <1>1
<1> QED  BY <1>3, <1>4 DEF Entering

(* What joins two components of the loop of h has entered the search.       *)
LEMMA EntersAtMeet ==
  ASSUME NEW g, NEW d, SearchDone(g, d), NEW h \in Numbers(g), NEW p \in Numbers(g), NEW x \in Numbers(g),
         Entering(g, d, 0, p, x), p \in LoopOf(g, d, h), x \in LoopOf(g, d, h)
  PROVE  x # h /\ Entering(g, d, h - 1, p, x)
<1>1. LoopFacts(g, d) /\ h \in Nat
  BY Loops, SearchTypes DEF SearchDone, SearchInv, Numbers
<1>2. h \in Up(d, p) /\ h \in Up(d, x)
  BY <1>1 DEF LoopFacts
<1>3. x # h
  BY NotIntoHead
<1>4. ASSUME NEW l \in Numbers(g), <<p, x>> \in d.cross[l] PROVE l > h - 1
  <2>1. h <= l
    BY <1>4, <1>2, EdgeKinds
  <2>2. l \in Nat
    BY DEF Numbers
  <2> QED  BY <2>1, <2>2, <1>1
<1> QED  BY <1>3, <1>4 DEF Entering

(* What has entered by h has entered in the end.                            *)
LEMMA EntersFirst ==
  ASSUME NEW g, NEW d, NEW h \in Nat, NEW p, NEW x, Entering(g, d, h, p, x)
  PROVE  Entering(g, d, 0, p, x)
<1>1. \A l \in Numbers(g) : l > 0
  BY DEF Numbers
<1> QED  BY <1>1 DEF Entering

(* The effect of a turn, as far as the constraints depend on it.            *)
Turn(g, d, s, t) ==
  /\ SearchDone(g, d) /\ SccOK(g, d, s) /\ Placed(g, d, s) /\ Enlarged(g, d, s, t) /\ RepStep(g, d, s, t)
  /\ s.h \in Numbers(g) /\ s.h \in Nat /\ s.h # 0
  /\ t.origin = AlsoInto(d, s.h, s.rep, s.origin)
  /\ d.back[s.h] = {} => t.links = s.links
  /\ d.back[s.h] # {} => ComponentStep(d, s, t)

(* Each turn of the loop over heads is one.                                 *)
LEMMA TurnIs ==
  ASSUME NEW g, NEW d, NEW s, SccOK(g, d, s), Placed(g, d, s), s.h # 0
  PROVE  Turn(g, d, s, SccStep(d, s))
<1> DEFINE t == SccStep(d, s)
<1>1. SearchDone(g, d) /\ Enlarged(g, d, s, t) /\ RepStep(g, d, s, t) /\ s.h \in Numbers(g) /\ s.h \in Nat
      /\ IsScc(s) /\ s.space \in Seq(CellSet(g))
  BY StepEffect, RepsStepped, TryingNow, PlacedTypes DEF SccOK
<1>2. d.back[s.h] = {} => TrivialStep(d, s, t)
  BY <1>1, TrivialFields
<1>3. d.back[s.h] # {} => ComponentStep(d, s, t)
  BY <1>1, ComponentFields
<1> HIDE DEF t
<1>4. t.origin = AlsoInto(d, s.h, s.rep, s.origin)
  <2>1. d.back[s.h] = {} => t.origin = AlsoInto(d, s.h, s.rep, s.origin)
    BY <1>2 DEF TrivialStep
  <2>2. d.back[s.h] # {} => t.origin = AlsoInto(d, s.h, s.rep, s.origin)
    BY <1>3 DEF ComponentStep
  <2> QED  BY <2>1, <2>2
<1>5. d.back[s.h] = {} => t.links = s.links
  BY <1>2 DEF TrivialStep
<1> QED  BY <1>1, <1>3, <1>4, <1>5 DEF Turn, t

(* It restores the edges of h, ...                                          *)
LEMMA OriginBetween ==
  ASSUME NEW g, NEW d, NEW s, NEW t, Turn(g, d, s, t), OriginOK(g, d, s.h, s.rep, s.origin)
  PROVE  OriginOK(g, d, s.h - 1, s.rep, t.origin)
<1>1. SearchDone(g, d) /\ s.h \in Numbers(g) /\ RootFacts(g, d, s.h, s.rep)
      /\ t.origin = AlsoInto(d, s.h, s.rep, s.origin)
  BY DEF Turn, RepStep
<1>2. DOMAIN s.origin = Numbers(g)
  BY DEF Turn, Placed, FieldsOK
<1> QED  BY <1>1, <1>2, OriginRestored

(* ... and keeps the others when it merges the component of h.              *)
LEMMA OriginStep ==
  ASSUME NEW g, NEW d, NEW s, NEW t, Turn(g, d, s, t), OriginOK(g, d, s.h, s.rep, s.origin)
  PROVE  OriginOK(g, d, t.h, t.rep, t.origin)
<1>1. OriginOK(g, d, s.h - 1, s.rep, t.origin)
  BY OriginBetween
<1>2. OriginOK(g, d, s.h - 1, t.rep, t.origin)
  BY <1>1, OriginMerged DEF Turn
<1>3. t.h = s.h - 1
  BY DEF Turn, Enlarged
<1> QED  BY <1>2, <1>3

(* It joins what the component of h consists of.                            *)
LEMMA StepJoins ==
  ASSUME NEW g, NEW d, NEW s, NEW t, Turn(g, d, s, t), OriginOK(g, d, s.h, s.rep, s.origin), d.back[s.h] # {},
         NEW R, R = Nested(d, s.h, s.rep, Restored(d, s.h, s.rep, s.nonback))
  PROVE  Joining(g, d, s.h, s.rep, t.origin, R, t.d2i, s.exit, t)
<1> DEFINE h == s.h
<1>0. SearchDone(g, d) /\ SccOK(g, d, s) /\ Placed(g, d, s) /\ Enlarged(g, d, s, t)
      /\ h \in Numbers(g) /\ h \in Nat /\ h # 0 /\ NumBlocks(g) \in Nat
  BY PlacedTypes DEF Turn
<1>1. h \in Levels(g) /\ \A v \in Numbers(g) : s.rep[v] = Group(g, d, h, v)
  BY <1>0 DEF Levels, Numbers, SccOK, RepOK, Group
<1>2. /\ RootFacts(g, d, h, s.rep) /\ R \subseteq From(g, h + 1) /\ \A r \in R : s.rep[r] = r /\ r \in LoopOf(g, d, h)
      /\ \A v \in From(g, h + 1) : IF v \in LoopOf(g, d, h) THEN s.rep[v] \in R
                                   ELSE s.rep[v] \notin R
  BY DEF Turn, RepStep
<1>3. OriginOK(g, d, h - 1, s.rep, t.origin)
  BY OriginBetween
<1>4. \A v \in Numbers(g) : v \in Nat /\ (v > h <=> v \in From(g, h + 1)) /\ (v <= h \/ v > h)
  BY <1>0 DEF Numbers, From
<1>5. ASSUME NEW v \in Numbers(g), v > h
      PROVE  t.d2i[s.exit[v]] = LastOf(t, v) /\ (s.exit[v] # v <=> v \in Cyclic(d))
  <2>1. v \in From(g, h + 1) /\ t.exit[v] = s.exit[v]
    BY <1>4, <1>5, <1>0 DEF Enlarged
  <2>2. v \notin Cyclic(d) => s.exit[v] = v
    BY <2>1, <1>0 DEF Placed, CellsOK
  <2>3. v \in Cyclic(d) => s.exit[v] \in (NumBlocks(g) + 1)..(s.next - 1)
    BY <2>1, <1>0 DEF Placed, CellsOK
  <2>4. v \in Cyclic(d) => s.exit[v] # v
    <3>1. s.next \in Nat
      BY <1>0, PlacedTypes
    <3> QED  BY <2>3, <3>1, <1>0 DEF Numbers
  <2> QED  BY <2>1, <2>2, <2>4 DEF LastOf
<1>6. t.d2i[s.exit[h]] = t.d2i[h]
  <2>1. s.exit[h] = h
    BY <1>0 DEF Placed, CellsOK
  <2> QED  BY <2>1
<1>7. ASSUME NEW r \in R PROVE r \in Numbers(g) /\ s.rep[r] = r /\ r > h
  BY <1>2, <1>4 DEF From
<1> HIDE DEF h
<1>8. ASSUME NEW r \in R, NEW e \in t.origin[r]
      PROVE  /\ e \in Numbers(g) \X Numbers(g) /\ s.rep[e[2]] = r /\ Entering(g, d, 0, e[1], e[2])
             /\ e[1] \notin LoopOf(g, d, r)
             /\ h # 0 => e[1] \in LoopOf(g, d, h) /\ e[2] \in LoopOf(g, d, h)
  <2>1. /\ e \in Numbers(g) \X Numbers(g) /\ s.rep[e[2]] = r
        /\ Entering(g, d, h - 1, e[1], e[2]) /\ e[1] \notin LoopOf(g, d, r)
    BY <1>3, <1>7 DEF OriginOK
  <2>2. Entering(g, d, 0, e[1], e[2])
    <3>1. h - 1 \in Nat
      BY <1>0
    <3> QED  BY <3>1, <2>1, EntersFirst
  <2>3. e[1] \in Numbers(g) /\ e[2] \in Numbers(g)
    BY <2>1
  <2>4. e[2] \in From(g, h + 1) /\ e[2] # h
    <3>1. e[2] <= h => s.rep[e[2]] = e[2]
      BY <2>3, <1>2 DEF RootFacts
    <3>a. e[2] <= h => e[2] = r
      BY <3>1, <2>1
    <3>b. r > h /\ r \in Nat /\ h \in Nat
      BY <1>7, <1>4, <1>0
    <3>2. ~ e[2] <= h
      BY <3>a, <3>b
    <3> QED  BY <3>2, <1>4, <2>3, <1>0
  <2>5. e[2] \in LoopOf(g, d, h)
    BY <2>4, <2>1, <1>2
  <2>6. e[1] \in LoopOf(g, d, h)
    BY <2>1, <2>3, <2>4, <2>5, <1>0, EnteringInside DEF LoopOf
  <2> QED  BY <2>1, <2>2, <2>5, <2>6
<1>9. ASSUME NEW p \in Numbers(g), NEW x \in Numbers(g), Entering(g, d, 0, p, x), Meet(g, d, h, p, x)
      PROVE  s.rep[x] \in R /\ <<p, x>> \in t.origin[s.rep[x]]
  <2>1. p \in LoopOf(g, d, h) /\ x \in LoopOf(g, d, h) /\ s.rep[p] # s.rep[x]
    BY <1>9, <1>0, <1>1 DEF Meet
  <2>2. x # h /\ Entering(g, d, h - 1, p, x)
    BY <2>1, <1>9, <1>0, EntersAtMeet
  <2>3. x \in From(g, h + 1)
    <3>1. LoopFacts(g, d)
      BY <1>0, Loops
    <3>2. h <= x
      BY <3>1, <2>1, <1>0 DEF LoopFacts
    <3> QED  BY <3>2, <2>2, <1>0, <1>4
  <2> QED  BY <2>1, <2>2, <2>3, <1>2, <1>3 DEF OriginOK
<1>10. Joining(g, d, h, s.rep, t.origin, R, t.d2i, s.exit, t)
  BY <1>1, <1>5, <1>6, <1>7, <1>8, <1>9 DEF Joining
<1> QED  BY <1>10 DEF h

------------------------------------------------------------------------------
(* What a turn does to the constraints.                                     *)

(* There are no constraints at the beginning.                               *)
LEMMA LinksAtInit ==
  ASSUME NEW g, NEW d, SearchDone(g, d)
  PROVE  LinksOK(g, d, InitScc(d), InitScc(d).h + 1)
<1>0. SccOK(g, d, InitScc(d)) /\ NumBlocks(g) \in Nat
  BY SccInitOK, SearchTypes DEF SearchDone, SearchInv
<1>1. InitScc(d).links = {}
  BY DEF InitScc
<1>2. InitScc(d).h = Cardinality(DOMAIN d.back)
  BY InitSame
<1>3. DOMAIN d.back = Numbers(g)
  <2>1. d.back \in [Numbers(g) -> SUBSET Numbers(g)]
    BY DEF SearchDone, SearchInv, SearchStates
  <2> QED  BY <2>1
<1>4. Cardinality(Numbers(g)) = NumBlocks(g)
  <2>1. Cardinality(1..NumBlocks(g)) = NumBlocks(g) - 1 + 1
    BY <1>0, FS_Interval
  <2> QED  BY <2>1, <1>0 DEF Numbers
<1>5. \A k \in (NumBlocks(g) + 1)..NumBlocks(g) : FALSE
  BY <1>0
<1> QED  BY <1>1, <1>2, <1>3, <1>4, <1>5 DEF LinksOK

(* The constraints of the turns before stay, whatever is added.             *)
Grows(s, t) == \A a, b : Has(s, a, b) => Has(t, a, b)

(* Adding constraints is such a change.                                     *)
LEMMA AddedGrows ==
  ASSUME NEW s, NEW t, NEW ls, Added(s.links, ls, t.links)
  PROVE  Grows(s, t) /\ \A l \in ls : Has(t, l.from, l.to)
<1>1. s.links \subseteq t.links /\ \A l \in ls : \E k \in t.links : k.from = l.from /\ k.to = l.to
  BY DEF Added, SameKey
<1> QED  BY <1>1 DEF Grows, Has

(* So what is said of the levels after h stays true.                        *)
LEMMA LinksBefore ==
  ASSUME NEW g, NEW d, SearchDone(g, d), NEW s, NEW t, NEW h \in Nat, KeepsCells(g, s, t, h), Grows(s, t),
         LinksOK(g, d, s, h + 1), NEW k \in (h + 1)..NumBlocks(g)
  PROVE  /\ \A l : InnerForm(g, d, s, k, l) \/ ExitForm(g, d, s, k, l) =>
                     InnerForm(g, d, t, k, l) \/ ExitForm(g, d, t, k, l)
         /\ InnerThere(g, d, t, k) /\ ExitThere(g, d, t, k)
<1>0. NumBlocks(g) \in Nat
  BY SearchTypes DEF SearchDone, SearchInv
<1>1. k \in Numbers(g) /\ k > h
  BY <1>0 DEF Numbers
<1>2. InnerThere(g, d, s, k) /\ ExitThere(g, d, s, k)
  BY DEF LinksOK
<1> QED  BY <1>1, <1>2, LevelKept DEF Grows

(* A turn keeps the cells of the vertices after h.                          *)
LEMMA KeepsInTurn ==
  ASSUME NEW g, NEW d, NEW s, NEW t, Turn(g, d, s, t)
  PROVE  KeepsCells(g, s, t, s.h)
<1>1. \A v \in Numbers(g) : v > s.h => v \in From(g, s.h + 1)
  <2>1. \A v \in Numbers(g) : v \in Nat
    BY DEF Numbers
  <2>2. s.h \in Nat
    BY DEF Turn
  <2> QED  BY <2>1, <2>2 DEF From
<1> QED  BY <1>1 DEF Turn, Enlarged, KeepsCells

(* The exit of h waits for the components with an edge back to h.           *)
ExitJoined(g, d, s, t, from) ==
  /\ \A l \in ExitLinks(t.d2i, from, s.next) : ExitForm(g, d, t, s.h, l)
  /\ IF d.back[s.h] \subseteq {s.h}
     THEN \E l \in ExitLinks(t.d2i, from, s.next) : l.from = t.d2i[s.h] /\ l.to = LastOf(t, s.h)
     ELSE \A v \in d.back[s.h] \ {s.h} : \E l \in ExitLinks(t.d2i, from, s.next) :
            l.from = Source(g, d, t, s.h, v) /\ l.to = LastOf(t, s.h)

(* The constraints that construct_wpo adds to the exit are these.           *)
LEMMA ExitSources ==
  ASSUME NEW g, NEW d, NEW s, NEW t, Turn(g, d, s, t), OriginOK(g, d, s.h, s.rep, s.origin), d.back[s.h] # {},
         NEW from, from = IF Targets(d, s.h, s.rep) = {} THEN {s.h} ELSE {s.exit[v] : v \in Targets(d, s.h, s.rep)}
  PROVE  ExitJoined(g, d, s, t, from)
<1> DEFINE h == s.h
           D == t.d2i
           x == s.next
           B == Targets(d, h, s.rep)
<1>0. SearchDone(g, d) /\ h \in Numbers(g) /\ h \in Nat /\ h # 0 /\ Placed(g, d, s)
  BY DEF Turn
<1>1. h \in Cyclic(d)
  <2>1. d.back \in [Numbers(g) -> SUBSET Numbers(g)]
    BY <1>0 DEF SearchDone, SearchInv, SearchStates
  <2> QED  BY <2>1, <1>0 DEF Cyclic
<1>2. LastOf(t, h) = D[x]
  <2>1. t.exit = [s.exit EXCEPT ![h] = x]
    BY DEF Turn, ComponentStep
  <2>2. h \in DOMAIN s.exit
    BY <1>0 DEF Placed, FieldsOK
  <2> QED  BY <2>1, <2>2 DEF LastOf
<1>3. \A v \in d.back[h] \ {h} : s.rep[v] \in B /\ D[s.exit[s.rep[v]]] = Source(g, d, t, h, v)
  <2> TAKE v \in d.back[h] \ {h}
  <2>1. s.rep[v] \in B
    BY DEF Targets
  <2>2. v \in Numbers(g)
    <3>1. d.back \in [Numbers(g) -> SUBSET Numbers(g)]
      BY <1>0 DEF SearchDone, SearchInv, SearchStates
    <3> QED  BY <3>1, <1>0
  <2>3. v \in LoopOf(g, d, h)
    <3>1. IsEdge(g, d, v, h) /\ h \in Up(d, v)
      BY <2>2, <1>0, EdgeKinds
    <3> QED  BY <3>1, <2>2, <1>0, BackEdge
  <2>4. PICK R : R = Nested(d, s.h, s.rep, Restored(d, s.h, s.rep, s.nonback))
    OBVIOUS
  <2>5. Joining(g, d, h, s.rep, t.origin, R, D, s.exit, t)
    BY <2>4, StepJoins
  <2> QED  BY <2>1, <2>2, <2>3, <2>5, <1>0, JoinSource
<1>4. \A r \in B : \E v \in d.back[h] \ {h} : r = s.rep[v]
  BY DEF Targets
<1>5. D[s.exit[h]] = D[h] /\ s.exit[h] = h
  <2>1. s.exit[h] = h
    BY <1>0 DEF Placed, CellsOK
  <2> QED  BY <2>1
<1>6. d.back[h] \subseteq {h} <=> B = {}
  BY <1>3, <1>4
<1>7. from = IF B = {} THEN {h} ELSE {s.exit[v] : v \in B}
  OBVIOUS
<1>8. ExitLinks(D, from, x) = {[from |-> D[p], to |-> D[x], exit |-> D[x], outer |-> FALSE] : p \in from}
  BY DEF ExitLinks
<1> HIDE DEF h, D, x, B
<1>9. ASSUME NEW l \in ExitLinks(D, from, x) PROVE ExitForm(g, d, t, h, l)
  <2>1. PICK p \in from : l = [from |-> D[p], to |-> D[x], exit |-> D[x], outer |-> FALSE]
    BY <1>8, <1>9
  <2>2. l.from = D[p] /\ l.to = D[x] /\ l.exit = D[x] /\ l.outer = FALSE
    BY <2>1
  <2>3. CASE B = {}
    BY <2>2, <2>3, <1>1, <1>2, <1>6, <1>7 DEF ExitForm, D
  <2>4. CASE B # {}
    <3>1. PICK r \in B : p = s.exit[r]
      BY <2>4, <1>7
    <3>2. PICK v \in d.back[h] \ {h} : r = s.rep[v]
      BY <1>4
    <3>3. l.from = Source(g, d, t, h, v)
      BY <3>1, <3>2, <2>2, <1>3
    <3> QED  BY <3>3, <2>2, <2>4, <1>1, <1>2, <1>6 DEF ExitForm
  <2> QED  BY <2>3, <2>4
<1>10. ASSUME d.back[h] \subseteq {h}
       PROVE  \E l \in ExitLinks(D, from, x) : l.from = D[h] /\ l.to = D[x]
  <2> DEFINE l == [from |-> D[h], to |-> D[x], exit |-> D[x], outer |-> FALSE]
  <2>0. h \in from
    BY <1>6, <1>7, <1>10
  <2>1. l \in ExitLinks(D, from, x)
    BY <2>0, <1>8
  <2> QED  BY <2>1
<1>11. ASSUME ~ d.back[h] \subseteq {h}, NEW v \in d.back[h] \ {h}
       PROVE  \E l \in ExitLinks(D, from, x) : l.from = Source(g, d, t, h, v) /\ l.to = D[x]
  <2> DEFINE l == [from |-> D[s.exit[s.rep[v]]], to |-> D[x], exit |-> D[x], outer |-> FALSE]
  <2>1. s.exit[s.rep[v]] \in from
    BY <1>3, <1>6, <1>7, <1>11
  <2>2. l \in ExitLinks(D, from, x)
    BY <2>1, <1>8
  <2>3. l.from = Source(g, d, t, h, v)
    BY <1>3
  <2> QED  BY <2>2, <2>3
<1> QED  BY <1>9, <1>10, <1>11, <1>2 DEF h, D, x, B, ExitJoined

(* One turn adds the constraints of its level, and keeps the others.        *)
LEMMA LinksStep ==
  ASSUME NEW g, NEW d, NEW s, NEW t, Turn(g, d, s, t), OriginOK(g, d, s.h, s.rep, s.origin),
         LinksOK(g, d, s, s.h + 1)
  PROVE  LinksOK(g, d, t, t.h + 1)
<1> DEFINE h == s.h
           N == NumBlocks(g)
<1>0. /\ SearchDone(g, d) /\ h \in Numbers(g) /\ h \in Nat /\ h # 0 /\ N \in Nat /\ t.h + 1 = h
  <2>1. SearchDone(g, d) /\ h \in Numbers(g) /\ h \in Nat /\ h # 0 /\ t.h = h - 1
    BY DEF Turn, Enlarged
  <2>2. N \in Nat
    BY <2>1, SearchTypes DEF SearchDone, SearchInv
  <2> HIDE DEF h
  <2> QED  BY <2>1, <2>2
<1>1. KeepsCells(g, s, t, h)
  BY KeepsInTurn
<1>2. CASE d.back[h] = {}
  <2>1. t.links = s.links
    BY <1>2 DEF Turn
  <2>2. Grows(s, t)
    BY <2>1 DEF Grows, Has
  <2>3. h \notin Cyclic(d) /\ LoopOf(g, d, h) = {h}
    <3>1. h \notin Cyclic(d)
      BY <1>2 DEF Cyclic
    <3> QED  BY <3>1, <1>0, Loops DEF LoopFacts
  <2>4. InnerThere(g, d, t, h) /\ ExitThere(g, d, t, h)
    <3>1. \A p, x : ~ Meet(g, d, h, p, x)
      BY <2>3, <1>0 DEF Meet
    <3> QED  BY <3>1, <2>3 DEF InnerThere, ExitThere
  <2> HIDE DEF h, N
  <2>5. \A k \in h..N : k = h \/ k \in (h + 1)..N
    BY <1>0
  <2>6. \A k \in (h + 1)..N : k \in h..N
    BY <1>0
  <2>7. LinksOK(g, d, s, h + 1)
    BY DEF h
  <2>8. \A k \in (h + 1)..N :
          /\ \A l : InnerForm(g, d, s, k, l) \/ ExitForm(g, d, s, k, l) =>
                      InnerForm(g, d, t, k, l) \/ ExitForm(g, d, t, k, l)
          /\ InnerThere(g, d, t, k) /\ ExitThere(g, d, t, k)
    BY <1>0, <1>1, <2>2, <2>7, LinksBefore DEF N
  <2>9. \A l \in t.links : \E k \in (h + 1)..N : InnerForm(g, d, s, k, l) \/ ExitForm(g, d, s, k, l)
    BY <2>1, <2>7 DEF LinksOK, N
  <2>10. LinksOK(g, d, t, h)
    BY <2>4, <2>5, <2>6, <2>8, <2>9 DEF LinksOK, N
  <2> QED  BY <2>10, <1>0
<1>3. CASE d.back[h] # {}
  <2> DEFINE R == Nested(d, h, s.rep, Restored(d, h, s.rep, s.nonback))
             B == Targets(d, h, s.rep)
             from == IF B = {} THEN {h} ELSE {s.exit[v] : v \in B}
             e1 == ExitLinks(t.d2i, from, s.next)
             e2 == InnerLinks(t.d2i, s.exit, s.rep, t.origin, R)
  <2>1. Added(s.links, e1 \cup e2, t.links)
    <3>1. ComponentStep(d, s, t)
      BY <1>3 DEF Turn
    <3> DEFINE D == [[s.d2i EXCEPT ![s.next] = Len(s.space)] EXCEPT ![s.h] = Len(s.space) + 1]
    <3>2. t.d2i = D /\ t.origin = AlsoInto(d, s.h, s.rep, s.origin)
      BY <3>1 DEF ComponentStep
    <3>3. Added(s.links, ExitLinks(D, from, s.next) \cup InnerLinks(D, s.exit, s.rep, AlsoInto(d, s.h, s.rep, s.origin), R), t.links)
      BY <3>1 DEF ComponentStep
    <3> HIDE DEF D, R, from
    <3> QED  BY <3>2, <3>3
  <2>2. Grows(s, t) /\ \A l \in e1 \cup e2 : Has(t, l.from, l.to)
    <3> HIDE DEF e1, e2
    <3> QED  BY <2>1, AddedGrows
  <2>3. Joining(g, d, h, s.rep, t.origin, R, t.d2i, s.exit, t)
    <3> HIDE DEF R
    <3>1. R = Nested(d, s.h, s.rep, Restored(d, s.h, s.rep, s.nonback))
      BY DEF R
    <3> QED  BY <1>3, <3>1, StepJoins
  <2>4. /\ \A l \in e2 : InnerForm(g, d, t, h, l)
        /\ \A p, x \in Numbers(g) : Entering(g, d, 0, p, x) /\ Meet(g, d, h, p, x) =>
             \E l \in e2 : l.from = Source(g, d, t, h, p) /\ l.to = t.d2i[x]
    <3> HIDE DEF R, h
    <3> QED  BY <2>3, <1>0, JoinForms
  <2>5. /\ \A l \in e1 : ExitForm(g, d, t, h, l)
        /\ IF d.back[h] \subseteq {h}
            THEN \E l \in e1 : l.from = t.d2i[h] /\ l.to = LastOf(t, h)
            ELSE \A v \in d.back[h] \ {h} : \E l \in e1 :
                   l.from = Source(g, d, t, h, v) /\ l.to = LastOf(t, h)
    <3>1. from = IF Targets(d, s.h, s.rep) = {} THEN {s.h} ELSE {s.exit[v] : v \in Targets(d, s.h, s.rep)}
      OBVIOUS
    <3> HIDE DEF from
    <3>2. ExitJoined(g, d, s, t, from)
      BY <1>3, <3>1, ExitSources
    <3> QED  BY <3>2 DEF ExitJoined
  <2> HIDE DEF e1, e2, R, B, from
  <2>6. InnerThere(g, d, t, h)
    <3> SUFFICES ASSUME NEW p \in Numbers(g), NEW x \in Numbers(g), Entering(g, d, 0, p, x), Meet(g, d, h, p, x)
                 PROVE  Has(t, Source(g, d, t, h, p), t.d2i[x])
      BY DEF InnerThere
    <3>1. PICK l \in e2 : l.from = Source(g, d, t, h, p) /\ l.to = t.d2i[x]
      BY <2>4
    <3>2. Has(t, l.from, l.to)
      BY <2>2
    <3> QED  BY <3>1, <3>2
  <2>7. ExitThere(g, d, t, h)
    <3>1. CASE d.back[h] \subseteq {h}
      <4>1. PICK l \in e1 : l.from = t.d2i[h] /\ l.to = LastOf(t, h)
        BY <3>1, <2>5
      <4>2. Has(t, l.from, l.to)
        BY <2>2
      <4> QED  BY <4>1, <4>2, <3>1 DEF ExitThere
    <3>2. CASE ~ d.back[h] \subseteq {h}
      <4>1. ASSUME NEW v \in d.back[h] \ {h} PROVE Has(t, Source(g, d, t, h, v), LastOf(t, h))
        <5>1. PICK l \in e1 : l.from = Source(g, d, t, h, v) /\ l.to = LastOf(t, h)
          BY <3>2, <2>5
        <5>2. Has(t, l.from, l.to)
          BY <2>2
        <5> QED  BY <5>1, <5>2
      <4> QED  BY <4>1, <3>2 DEF ExitThere
    <3> QED  BY <3>1, <3>2
  <2> HIDE DEF h, N
  <2>8. \A k \in h..N : k = h \/ k \in (h + 1)..N
    BY <1>0
  <2>9. \A k \in (h + 1)..N : k \in h..N
    BY <1>0
  <2>a. h \in h..N
    BY <1>0 DEF Numbers, N
  <2>10. LinksOK(g, d, s, h + 1)
    BY DEF h
  <2>11. \A k \in (h + 1)..N :
          /\ \A l : InnerForm(g, d, s, k, l) \/ ExitForm(g, d, s, k, l) =>
                      InnerForm(g, d, t, k, l) \/ ExitForm(g, d, t, k, l)
          /\ InnerThere(g, d, t, k) /\ ExitThere(g, d, t, k)
    BY <1>0, <1>1, <2>2, <2>10, LinksBefore DEF N
  <2>12. \A l \in t.links : l \in s.links \/ l \in e1 \/ l \in e2
    BY <2>1 DEF Added
  <2>13. \A l \in s.links : \E k \in (h + 1)..N : InnerForm(g, d, s, k, l) \/ ExitForm(g, d, s, k, l)
    BY <2>10 DEF LinksOK, N
  <2>14. \A l \in t.links : \E k \in h..N : InnerForm(g, d, t, k, l) \/ ExitForm(g, d, t, k, l)
    BY <2>4, <2>5, <2>9, <2>a, <2>11, <2>12, <2>13
  <2>15. LinksOK(g, d, t, h)
    BY <2>6, <2>7, <2>8, <2>11, <2>14 DEF LinksOK, N
  <2> QED  BY <2>15, <1>0
<1> QED  BY <1>2, <1>3

------------------------------------------------------------------------------
(* The constraints between the maximal components.                          *)

(* The last turn joins the maximal components, ...                          *)
LEMMA TopJoins ==
  ASSUME NEW g, NEW d, NEW s, NEW t, SccOK(g, d, s), Placed(g, d, s), s.h = 0,
         OriginOK(g, d, s.h, s.rep, s.origin), TopStep(s, t), NEW tops, tops = {v \in DOMAIN s.rep : s.rep[v] = v}
  PROVE  Joining(g, d, 0, s.rep, s.origin, tops, s.d2i, s.exit, t)
<1>0. SearchDone(g, d) /\ NumBlocks(g) \in Nat /\ DOMAIN s.rep = Numbers(g)
  BY PlacedTypes DEF Placed, SccOK, RepOK
<1>1. 0 \in Levels(g) /\ \A v \in Numbers(g) : s.rep[v] = Group(g, d, 0, v) /\ s.rep[v] \in Numbers(g)
  BY <1>0 DEF Levels, SccOK, RepOK, Group
<1>2. \A v \in Numbers(g) : v \in Nat /\ v > 0 /\ v \in From(g, s.h + 1)
  BY <1>0 DEF Numbers, From
<1>3. t.d2i = s.d2i /\ t.exit = s.exit
  BY DEF TopStep
<1>4. ASSUME NEW v \in Numbers(g)
      PROVE  s.d2i[s.exit[v]] = LastOf(t, v) /\ (s.exit[v] # v <=> v \in Cyclic(d))
  <2>1. v \in From(g, s.h + 1)
    BY <1>2
  <2>2. v \notin Cyclic(d) => s.exit[v] = v
    BY <2>1, <1>0 DEF Placed, CellsOK
  <2>3. v \in Cyclic(d) => s.exit[v] \in (NumBlocks(g) + 1)..(s.next - 1)
    BY <2>1, <1>0 DEF Placed, CellsOK
  <2>4. v \in Cyclic(d) => s.exit[v] # v
    <3>1. s.next \in Nat
      BY <1>0, PlacedTypes
    <3> QED  BY <2>3, <3>1, <1>0 DEF Numbers
  <2> QED  BY <2>2, <2>4, <1>3 DEF LastOf
<1>5. \A r \in tops : r \in Numbers(g) /\ s.rep[r] = r
  BY <1>0
<1>6. ASSUME NEW r \in tops, NEW e \in s.origin[r]
      PROVE  /\ e \in Numbers(g) \X Numbers(g) /\ s.rep[e[2]] = r
             /\ Entering(g, d, 0, e[1], e[2]) /\ e[1] \notin LoopOf(g, d, r)
  BY <1>5 DEF OriginOK
<1>7. ASSUME NEW p \in Numbers(g), NEW x \in Numbers(g), Entering(g, d, 0, p, x), Meet(g, d, 0, p, x)
      PROVE  s.rep[x] \in tops /\ <<p, x>> \in s.origin[s.rep[x]]
  <2>1. s.rep[p] # s.rep[x]
    BY <1>1, <1>7 DEF Meet
  <2>2. <<p, x>> \in s.origin[s.rep[x]]
    BY <2>1, <1>7 DEF OriginOK
  <2>3. Group(g, d, 0, Group(g, d, 0, x)) = Group(g, d, 0, x)
    BY <1>0, <1>1, Groups DEF GroupFacts
  <2>4. s.rep[s.rep[x]] = s.rep[x]
    BY <2>3, <1>1
  <2> QED  BY <2>2, <2>4, <1>0, <1>1
<1> QED  BY <1>1, <1>2, <1>3, <1>4, <1>5, <1>6, <1>7 DEF Joining

(* ... so that the constraints of all levels are there.                     *)
LEMMA TopLinks ==
  ASSUME NEW g, NEW d, NEW s, NEW t, SccOK(g, d, s), Placed(g, d, s), s.h = 0,
         OriginOK(g, d, s.h, s.rep, s.origin), LinksOK(g, d, s, s.h + 1), TopStep(s, t)
  PROVE  LinksOK(g, d, t, 0)
<1> DEFINE N == NumBlocks(g)
           tops == {v \in DOMAIN s.rep : s.rep[v] = v}
           e == InnerLinks(s.d2i, s.exit, s.rep, s.origin, tops)
<1>0. SearchDone(g, d) /\ N \in Nat
  BY PlacedTypes DEF Placed, SccOK, RepOK
<1>1. KeepsCells(g, s, t, 0)
  BY DEF TopStep, KeepsCells, LastOf
<1>2. Added(s.links, e, t.links)
  BY DEF TopStep
<1>3. /\ \A l \in e : InnerForm(g, d, t, 0, l)
      /\ \A p, x \in Numbers(g) : Entering(g, d, 0, p, x) /\ Meet(g, d, 0, p, x) =>
           \E l \in e : l.from = Source(g, d, t, 0, p) /\ l.to = t.d2i[x]
  <2>1. Joining(g, d, 0, s.rep, s.origin, tops, s.d2i, s.exit, t)
    BY TopJoins
  <2> HIDE DEF tops
  <2> QED  BY <2>1, <1>0, JoinForms
<1> HIDE DEF e, tops
<1>4. Grows(s, t) /\ \A l \in e : Has(t, l.from, l.to)
  BY <1>2, AddedGrows
<1>5. InnerThere(g, d, t, 0)
  <2> SUFFICES ASSUME NEW p \in Numbers(g), NEW x \in Numbers(g), Entering(g, d, 0, p, x), Meet(g, d, 0, p, x)
               PROVE  Has(t, Source(g, d, t, 0, p), t.d2i[x])
    BY DEF InnerThere
  <2>1. PICK l \in e : l.from = Source(g, d, t, 0, p) /\ l.to = t.d2i[x]
    BY <1>3
  <2>2. Has(t, l.from, l.to)
    BY <1>4
  <2> QED  BY <2>1, <2>2
<1>6. ExitThere(g, d, t, 0)
  <2>1. 0 \notin Cyclic(d)
    <3>1. Cyclic(d) \subseteq Numbers(g)
      BY PlacedTypes
    <3> QED  BY <3>1 DEF Numbers
  <2> QED  BY <2>1 DEF ExitThere
<1>7. LinksOK(g, d, s, 0 + 1)
  OBVIOUS
<1> HIDE DEF N
<1>8. \A k \in (0 + 1)..N :
          /\ \A l : InnerForm(g, d, s, k, l) \/ ExitForm(g, d, s, k, l) =>
                      InnerForm(g, d, t, k, l) \/ ExitForm(g, d, t, k, l)
          /\ InnerThere(g, d, t, k) /\ ExitThere(g, d, t, k)
  <2>1. 0 \in Nat
    OBVIOUS
  <2> QED  BY <2>1, <1>0, <1>1, <1>4, <1>7, LinksBefore DEF N
<1>9. 0 \in 0..N /\ (\A k \in (0 + 1)..N : k \in 0..N) /\ \A k \in 0..N : k = 0 \/ k \in (0 + 1)..N
  BY <1>0
<1>10. \A l \in t.links : l \in s.links \/ l \in e
  BY <1>2 DEF Added
<1>11. \A l \in s.links : \E k \in (0 + 1)..N : InnerForm(g, d, s, k, l) \/ ExitForm(g, d, s, k, l)
  BY <1>7 DEF LinksOK, N
<1>12. \A l \in t.links : \E k \in 0..N : InnerForm(g, d, t, k, l) \/ ExitForm(g, d, t, k, l)
  BY <1>3, <1>8, <1>9, <1>10, <1>11
<1>13. \A k \in 0..N : InnerThere(g, d, t, k) /\ ExitThere(g, d, t, k)
  BY <1>5, <1>6, <1>8, <1>9
<1> QED  BY <1>12, <1>13 DEF LinksOK, N

(* The order of the constraints, from here on as a relation.                *)

(* All components are found and all constraints are there.                  *)
Tied(g, d, s) == Settled(g, d, s) /\ LinksOK(g, d, s, 0)

(* The cells, one by one.                                                   *)
LEMMA TiedCells ==
  ASSUME NEW g, NEW d, NEW s, Tied(g, d, s)
  PROVE  /\ SearchDone(g, d) /\ LoopFacts(g, d) /\ GroupFacts(g, d) /\ MeetFacts(g, d) /\ NumBlocks(g) \in Nat
         /\ Cyclic(d) \subseteq Numbers(g)
         /\ \A v \in Numbers(g) :
              /\ v \in Nat /\ s.d2i[v] \in Indices(s) /\ LastOf(s, v) \in Indices(s)
              /\ VertexAt(s, s.d2i[v]) = v /\ VertexAt(s, LastOf(s, v)) = v
              /\ v \notin Cyclic(d) => LastOf(s, v) = s.d2i[v]
              /\ v \in Cyclic(d) => LastOf(s, v) # s.d2i[v]
         /\ \A u, v \in Numbers(g) : u # v =>
              /\ s.d2i[u] # s.d2i[v] /\ LastOf(s, u) # LastOf(s, v) /\ LastOf(s, u) # s.d2i[v]
         /\ \A c \in Indices(s) : \E v \in Numbers(g) : VertexAt(s, c) = v /\ (c = s.d2i[v] \/ (v \in Cyclic(d) /\ c = LastOf(s, v)))
<1>1. Placed(g, d, s) /\ s.h = 0 /\ SearchDone(g, d) /\ From(g, s.h + 1) = Numbers(g)
  BY RootLoops DEF Tied, Settled
<1>2. LoopFacts(g, d) /\ GroupFacts(g, d) /\ MeetFacts(g, d) /\ NumBlocks(g) \in Nat
  BY <1>1, Loops, Groups, Meets, PlacedTypes
<1>3. Cyclic(d) \subseteq Numbers(g)
  BY <1>1, PlacedTypes
<1>4. ASSUME NEW v \in Numbers(g)
      PROVE  /\ v \in Nat /\ s.d2i[v] \in Indices(s) /\ LastOf(s, v) \in Indices(s)
             /\ VertexAt(s, s.d2i[v]) = v /\ VertexAt(s, LastOf(s, v)) = v
             /\ v \notin Cyclic(d) => LastOf(s, v) = s.d2i[v]
             /\ v \in Cyclic(d) => LastOf(s, v) # s.d2i[v]
  <2>1. v \in From(g, s.h + 1)
    BY <1>1
  <2>2. /\ s.d2i[v] \in Indices(s) /\ LastOf(s, v) \in Indices(s)
        /\ VertexAt(s, s.d2i[v]) = v /\ VertexAt(s, LastOf(s, v)) = v
        /\ v \notin Cyclic(d) => LastOf(s, v) = s.d2i[v]
    BY <2>1, <1>1, IndexOfVertex
  <2>3. v \in Cyclic(d) => TypeAt(s, s.d2i[v]) = "head" /\ TypeAt(s, LastOf(s, v)) = "exit"
    BY <2>1, <1>1 DEF Placed, CellsOK
  <2>4. v \in Nat
    BY DEF Numbers
  <2> QED  BY <2>2, <2>3, <2>4
<1>5. ASSUME NEW u \in Numbers(g), NEW v \in Numbers(g), u # v
      PROVE  /\ s.d2i[u] # s.d2i[v] /\ LastOf(s, u) # LastOf(s, v) /\ LastOf(s, u) # s.d2i[v]
  BY <1>4, <1>5
<1>6. ASSUME NEW c \in Indices(s)
      PROVE  \E v \in Numbers(g) : VertexAt(s, c) = v /\ (c = s.d2i[v] \/ (v \in Cyclic(d) /\ c = LastOf(s, v)))
  <2> DEFINE v == VertexAt(s, c)
  <2>1. /\ v \in From(g, s.h + 1)
        /\ (TypeAt(s, c) # "exit" /\ c = s.d2i[v]) \/ (v \in Cyclic(d) /\ c = LastOf(s, v))
    BY <1>1 DEF Placed, CellsOK
  <2>2. VertexAt(s, c) = v
    OBVIOUS
  <2> HIDE DEF v
  <2>3. From(g, s.h + 1) = Numbers(g)
    BY <1>1
  <2>4. v \in Numbers(g)
    BY <2>1, <2>3
  <2> QED  BY <2>1, <2>2, <2>4
<1> QED  BY <1>1, <1>2, <1>3, <1>4, <1>5, <1>6

------------------------------------------------------------------------------
(* Where a constraint comes from.                                           *)

(* The components of a loop.                                                *)
LEMMA GroupInLoop ==
  ASSUME NEW g, NEW d, SearchDone(g, d), NEW k \in Numbers(g), NEW p \in LoopOf(g, d, k)
  PROVE  /\ k \in Levels(g) /\ k # 0 /\ p \in Numbers(g) /\ k <= p
         /\ Group(g, d, k, p) \in LoopOf(g, d, k) /\ Group(g, d, k, p) \in Numbers(g)
         /\ p = k => Group(g, d, k, p) = k
         /\ p # k => p > k /\ Group(g, d, k, p) > k
<1>0. GroupFacts(g, d) /\ LoopFacts(g, d) /\ NumBlocks(g) \in Nat
  BY Groups, Loops, SearchTypes DEF SearchDone, SearchInv
<1>1. k \in Levels(g) /\ k # 0 /\ k \in Nat /\ p \in Numbers(g) /\ k <= p
  BY <1>0 DEF Levels, Numbers, LoopFacts
<1>2. p \in Nat
  BY <1>1, <1>0 DEF Numbers
<1>3. CASE p = k
  <2>1. Group(g, d, k, p) = k
    BY <1>3, <1>1, <1>0 DEF GroupFacts
  <2> QED  BY <2>1, <1>1, <1>3
<1>4. CASE p # k
  <2>1. p > k
    BY <1>4, <1>1, <1>2
  <2>2. Group(g, d, k, p) > k /\ Group(g, d, k, p) \in Numbers(g) /\ p \in LoopOf(g, d, Group(g, d, k, p))
    BY <2>1, <1>1, <1>0 DEF GroupFacts
  <2>3. Group(g, d, k, p) \in LoopOf(g, d, k)
    <3> DEFINE u == Group(g, d, k, p)
    <3>1. u \in Nat /\ k <= u
      BY <2>2, <1>1, <1>0 DEF Numbers
    <3>2. LoopOf(g, d, u) \subseteq LoopOf(g, d, k) /\ u \in LoopOf(g, d, u)
      BY <3>1, <2>2, <1>0 DEF LoopFacts
    <3> QED  BY <3>2
  <2> QED  BY <2>1, <2>2, <2>3, <1>1, <1>4
<1> QED  BY <1>3, <1>4

(* The two kinds of constraint at level k that start in the component of p. *)
LinkCase(g, d, s, l, k, p) ==
  /\ k # 0 => p \in LoopOf(g, d, k)
  /\ l.from = Source(g, d, s, k, p) /\ l.from \in Indices(s) /\ l.to \in Indices(s)
  /\ VertexAt(s, l.from) = Group(g, d, k, p)
  /\ \/ \E x \in Numbers(g) : IsInner(g, d, s, k, l, p, x)
     \/ k \in Cyclic(d) /\ l.to = LastOf(s, k) /\ l.outer = FALSE

(* The cell where a constraint starts is one of the component of p.         *)
LEMMA SourceFacts ==
  ASSUME NEW g, NEW d, NEW s, Tied(g, d, s), NEW k \in Levels(g), NEW p \in Numbers(g)
  PROVE  /\ Source(g, d, s, k, p) \in Indices(s) /\ Group(g, d, k, p) \in Numbers(g)
         /\ VertexAt(s, Source(g, d, s, k, p)) = Group(g, d, k, p)
<1>0. GroupFacts(g, d)
  BY TiedCells
<1>1. Group(g, d, k, p) \in Numbers(g)
  BY <1>0 DEF GroupFacts
<1>2. p = k => Group(g, d, k, p) = k
  BY <1>0 DEF GroupFacts
<1>3. \A v \in Numbers(g) : /\ s.d2i[v] \in Indices(s) /\ LastOf(s, v) \in Indices(s)
                            /\ VertexAt(s, s.d2i[v]) = v /\ VertexAt(s, LastOf(s, v)) = v
  BY TiedCells
<1>4. CASE p = k
  BY <1>2, <1>3, <1>4 DEF Source
<1>5. CASE p # k
  BY <1>1, <1>3, <1>5 DEF Source
<1> QED  BY <1>1, <1>4, <1>5

(* Every constraint is of one of the two kinds.                             *)
LEMMA LinkCases ==
  ASSUME NEW g, NEW d, NEW s, Tied(g, d, s), NEW l \in s.links
  PROVE  \E k \in Levels(g) : \E p \in Numbers(g) : LinkCase(g, d, s, l, k, p)
<1>0. /\ SearchDone(g, d) /\ LoopFacts(g, d) /\ NumBlocks(g) \in Nat /\ Cyclic(d) \subseteq Numbers(g)
      /\ \A v \in Numbers(g) : s.d2i[v] \in Indices(s) /\ LastOf(s, v) \in Indices(s)
  BY TiedCells
<1>1. PICK k \in Levels(g) : InnerForm(g, d, s, k, l) \/ ExitForm(g, d, s, k, l)
  BY DEF Tied, LinksOK, Levels
<1>2. CASE InnerForm(g, d, s, k, l)
  <2>1. PICK p, x \in Numbers(g) : IsInner(g, d, s, k, l, p, x)
    BY <1>2 DEF InnerForm
  <2>2. l.from = Source(g, d, s, k, p) /\ l.to = s.d2i[x] /\ (k # 0 => p \in LoopOf(g, d, k))
    BY <2>1 DEF IsInner, Meet
  <2>3. LinkCase(g, d, s, l, k, p)
    BY <2>1, <2>2, <1>0, SourceFacts DEF LinkCase
  <2> QED  BY <2>3
<1>3. CASE ExitForm(g, d, s, k, l)
  <2>1. k \in Cyclic(d) /\ k \in Numbers(g) /\ l.to = LastOf(s, k) /\ l.outer = FALSE
    BY <1>3, <1>0 DEF ExitForm
  <2>2. PICK p \in LoopOf(g, d, k) : l.from = Source(g, d, s, k, p)
    <3>1. CASE d.back[k] \subseteq {k}
      <4>1. l.from = Source(g, d, s, k, k) /\ k \in LoopOf(g, d, k)
        BY <1>3, <3>1, <2>1, <1>0 DEF ExitForm, Source, LoopFacts
      <4> QED  BY <4>1
    <3>2. CASE ~ d.back[k] \subseteq {k}
      <4>1. PICK v \in d.back[k] : l.from = Source(g, d, s, k, v)
        BY <1>3, <3>2 DEF ExitForm
      <4>2. v \in Numbers(g)
        <5>1. d.back \in [Numbers(g) -> SUBSET Numbers(g)]
          BY <1>0 DEF SearchDone, SearchInv, SearchStates
        <5> QED  BY <5>1, <2>1
      <4>3. IsEdge(g, d, v, k) /\ k \in Up(d, v)
        BY <4>1, <4>2, <2>1, <1>0, EdgeKinds
      <4>4. v \in LoopOf(g, d, k)
        BY <4>2, <4>3, <2>1, <1>0 DEF LoopFacts
      <4> QED  BY <4>1, <4>4
    <3> QED  BY <3>1, <3>2
  <2>3. p \in Numbers(g)
    BY <2>1, <1>0 DEF LoopFacts
  <2>4. LinkCase(g, d, s, l, k, p)
    BY <2>1, <2>2, <2>3, <1>0, SourceFacts DEF LinkCase
  <2> QED  BY <2>3, <2>4
<1> QED  BY <1>1, <1>2, <1>3

(* An edge of the tree comes from within every loop around its target, but  *)
(* for the head.                                                            *)
LEMMA ParentInLoop ==
  ASSUME NEW g, NEW d, SearchDone(g, d), NEW k \in Numbers(g), NEW x \in LoopOf(g, d, k), x # k
  PROVE  \E p \in Numbers(g) : p \in d.nonback[x] /\ p \in LoopOf(g, d, k) /\ p < x /\ Entering(g, d, 0, p, x)
<1>0. LoopFacts(g, d)
  BY Loops
<1>1. x \in Numbers(g) /\ k \in Up(d, x)
  BY <1>0 DEF LoopFacts
<1>2. PICK p \in d.nonback[x] : TRUE
  BY <1>1, Ancestors
<1>3. p \in Numbers(g) /\ p < x
  BY <1>1, <1>2, Ancestors
<1>4. Entering(g, d, k - 1, p, x) /\ Entering(g, d, 0, p, x)
  BY <1>2 DEF Entering
<1>5. p \in LoopOf(g, d, k)
  BY <1>1, <1>3, <1>4, EnteringInside DEF LoopOf
<1> QED  BY <1>2, <1>3, <1>4, <1>5

(* A back edge to k comes from the loop of k.                               *)
LEMMA BackInLoop ==
  ASSUME NEW g, NEW d, SearchDone(g, d), NEW k \in Numbers(g), NEW v \in d.back[k]
  PROVE  v \in LoopOf(g, d, k) /\ v \in Numbers(g)
<1>1. v \in Numbers(g)
  <2>1. d.back \in [Numbers(g) -> SUBSET Numbers(g)]
    BY DEF SearchDone, SearchInv, SearchStates
  <2> QED  BY <2>1
<1>2. IsEdge(g, d, v, k) /\ k \in Up(d, v)
  BY <1>1, EdgeKinds
<1> QED  BY <1>1, <1>2, Loops DEF LoopFacts

(* Each component nested in loop k leads on in it.                          *)

(* From every component of a loop an edge leads back to the head, or on to  *)
(* another component.                                                       *)
LEMMA LeadsOn ==
  ASSUME NEW g, NEW d, SearchDone(g, d), NEW k \in Numbers(g), NEW y \in LoopOf(g, d, k), y # k,
         Group(g, d, k, y) = y
  PROVE  \/ \E v \in d.back[k] \ {k} : Group(g, d, k, v) = y
         \/ \E p, x \in Numbers(g) : /\ Entering(g, d, 0, p, x) /\ Meet(g, d, k, p, x)
                                     /\ p # k /\ Group(g, d, k, p) = y
<1> DEFINE rep == [v \in Numbers(g) |-> Group(g, d, k, v)]
           nonback == [r \in Numbers(g) |-> {p \in Numbers(g) : \E x \in Numbers(g) :
                                               rep[x] = r /\ Entering(g, d, k - 1, p, x)}]
           R == Nested(d, k, rep, nonback)
           B == Targets(d, k, rep)
           Q == PredsOf(k, rep, nonback)
           T == {r \in R : r \in B \/ \E q \in R : q # r /\ r \in Q[q]}
<1>0. GroupFacts(g, d) /\ LoopFacts(g, d) /\ NumBlocks(g) \in Nat
  BY Groups, Loops, SearchTypes DEF SearchDone, SearchInv
<1>1. k \in Levels(g) /\ k \in Nat /\ k - 1 \in Nat /\ k # 0
  BY <1>0 DEF Levels, Numbers
<1>2. \A v \in Numbers(g) : rep[v] \in Numbers(g) /\ rep[rep[v]] = rep[v]
  BY <1>0, <1>1 DEF GroupFacts
<1>3. RepOK(g, d, k, rep)
  BY <1>2 DEF RepOK, Group
<1>4. PredsOK(g, d, k - 1, rep, nonback)
  <2> HIDE DEF rep
  <2>1. ASSUME NEW r \in Numbers(g), NEW p \in nonback[r]
        PROVE  \E x \in Numbers(g) : rep[x] = rep[r] /\ Entering(g, d, k - 1, p, x)
    <3>1. PICK x \in Numbers(g) : rep[x] = r /\ Entering(g, d, k - 1, p, x)
      OBVIOUS
    <3>2. rep[r] = rep[x]
      BY <3>1, <1>2
    <3> QED  BY <3>1, <3>2
  <2>2. ASSUME NEW p \in Numbers(g), NEW x \in Numbers(g), Entering(g, d, k - 1, p, x)
        PROVE  p \in nonback[rep[x]]
    BY <2>2, <1>2
  <2>3. nonback \in [Numbers(g) -> SUBSET Numbers(g)]
    OBVIOUS
  <2> HIDE DEF nonback
  <2> QED  BY <2>1, <2>2, <2>3 DEF PredsOK
<1>5. Trying(g, d, k, rep, nonback)
  <2> HIDE DEF rep, nonback
  <2> QED  BY <1>3, <1>4 DEF Trying
<1>6. /\ \A v \in Numbers(g) : rep[v] = Group(g, d, k, v)
      /\ \A r \in Numbers(g) : \A p \in nonback[r] : p \in Numbers(g) /\ \E x \in Numbers(g) :
                                               rep[x] = r /\ Entering(g, d, k - 1, p, x)
  OBVIOUS
<1> HIDE DEF rep, nonback
<1>7. /\ IsEdges(Q, Numbers(g)) /\ B \in SUBSET Numbers(g) /\ R = Reach(Q, B)
      /\ \A r \in Numbers(g) : Q[r] = {rep[p] : p \in nonback[r]} \ {k}
  BY <1>5, NestedTypes DEF Nested
<1>8. R \in SUBSET Numbers(g) /\ B \subseteq R /\ Closed(Q, R)
  <2> HIDE DEF Q, B, R
  <2> QED  BY <1>7, ReachClosed
<1>9. y \in R
  <2>1. rep[y] \in R
    BY <1>5, NestedAll DEF LoopOf
  <2>2. y \in Numbers(g)
    BY <1>0 DEF LoopFacts
  <2> QED  BY <2>1, <2>2, <1>6
<1>10. R \subseteq T
  <2> HIDE DEF Q, B, R
  <2>1. T \in SUBSET Numbers(g) /\ B \subseteq T
    BY <1>8
  <2>2. Closed(Q, T)
    <3> SUFFICES ASSUME NEW q \in T, NEW r \in Q[q] PROVE r \in T
      BY DEF Closed
    <3>1. q \in R /\ r \in R
      BY <1>8 DEF Closed
    <3> QED  BY <3>1
  <2> HIDE DEF T
  <2> QED  BY <2>1, <2>2, <1>7, ReachLeast
<1>11. y \in B \/ \E q \in R : q # y /\ y \in Q[q]
  BY <1>9, <1>10
<1>12. CASE y \in B
  <2>1. PICK v \in d.back[k] \ {k} : rep[v] = y
    BY <1>12 DEF Targets
  <2>2. v \in Numbers(g)
    BY BackInLoop
  <2> QED  BY <2>1, <2>2, <1>6
<1>13. ASSUME NEW q \in R, q # y, y \in Q[q]
       PROVE  \E p, x \in Numbers(g) : /\ Entering(g, d, 0, p, x) /\ Meet(g, d, k, p, x)
                                       /\ p # k /\ Group(g, d, k, p) = y
  <2>1. q \in From(g, k + 1) /\ q \in LoopOf(g, d, k) /\ rep[q] = q
    BY <1>5, NestedInside DEF LoopOf
  <2>2. q \in Numbers(g) /\ q > k /\ q \in Nat
    BY <2>1, <1>1 DEF From, Numbers
  <2> HIDE DEF R, B, Q, T
  <2>3. PICK p \in nonback[q] : y = rep[p]
    BY <2>2, <1>7, <1>13
  <2>4. PICK x \in Numbers(g) : p \in Numbers(g) /\ rep[x] = q /\ Entering(g, d, k - 1, p, x)
    BY <2>2, <2>3, <1>6
  <2>5. Group(g, d, k, p) = y /\ Group(g, d, k, x) = q
    BY <2>3, <2>4, <1>6
  <2>6. x > k /\ x \in LoopOf(g, d, q)
    <3>1. x \in Nat /\ (x <= k => Group(g, d, k, x) = x) /\ (x > k => x \in LoopOf(g, d, Group(g, d, k, x)))
      BY <1>0, <1>1 DEF GroupFacts
    <3> QED  BY <3>1, <2>5, <2>2, <1>1
  <2>7. x \in LoopOf(g, d, k) /\ x # k
    <3>1. k <= q /\ q \in LoopOf(g, d, q)
      BY <2>2, <1>1, <1>0 DEF LoopFacts
    <3>2. LoopOf(g, d, q) \subseteq LoopOf(g, d, k)
      BY <3>1, <2>1, <2>2, <1>0 DEF LoopFacts
    <3>3. x # k
      BY <2>6, <1>1
    <3> QED  BY <3>2, <3>3, <2>6
  <2>8. p \in LoopOf(g, d, k)
    BY <2>4, <2>7, EnteringInside DEF LoopOf
  <2>9. Meet(g, d, k, p, x)
    BY <2>5, <2>7, <2>8, <1>13 DEF Meet
  <2>10. p # k
    BY <2>5, <1>0, <1>1 DEF GroupFacts
  <2>11. Entering(g, d, 0, p, x)
    BY <2>4, <1>1, EntersFirst
  <2> QED  BY <2>4, <2>5, <2>9, <2>10, <2>11
<1> QED  BY <1>11, <1>12, <1>13

------------------------------------------------------------------------------
(* What the constraints do at the border of a loop, ...                     *)

(* The cells of vertices, compared.                                         *)
Apart(g, d, s) ==
  \A u, v \in Numbers(g) :
    /\ s.d2i[u] = s.d2i[v] => u = v
    /\ LastOf(s, u) = LastOf(s, v) => u = v
    /\ LastOf(s, u) = s.d2i[v] => u = v /\ u \notin Cyclic(d)

(* Different vertices have different cells.                                 *)
LEMMA TiedApart == ASSUME NEW g, NEW d, NEW s, Tied(g, d, s) PROVE Apart(g, d, s)
<1> SUFFICES ASSUME NEW u \in Numbers(g), NEW v \in Numbers(g)
             PROVE  /\ s.d2i[u] = s.d2i[v] => u = v
                    /\ LastOf(s, u) = LastOf(s, v) => u = v
                    /\ LastOf(s, u) = s.d2i[v] => u = v /\ u \notin Cyclic(d)
  BY DEF Apart
<1>1. u # v => s.d2i[u] # s.d2i[v] /\ LastOf(s, u) # LastOf(s, v) /\ LastOf(s, u) # s.d2i[v]
  BY TiedCells
<1>2. u \in Cyclic(d) => LastOf(s, u) # s.d2i[u]
  BY TiedCells
<1> QED  BY <1>1, <1>2

(* What a link does in the loop of k: where it comes from and leads to.     *)
LEMMA LinkFrom ==
  ASSUME NEW g, NEW d, NEW s, Tied(g, d, s), NEW k \in Cyclic(d), NEW j \in Levels(g), NEW p \in Numbers(g),
         NEW l, LinkCase(g, d, s, l, j, p), l.from \in Within(g, d, s, k)
  PROVE  \/ j # 0 /\ k <= j /\ LoopOf(g, d, j) \subseteq LoopOf(g, d, k) /\ l.from # LastOf(s, k)
         \/ k > j /\ Group(g, d, j, p) = k /\ l.from = LastOf(s, k)
<1>0. /\ Apart(g, d, s) /\ SearchDone(g, d) /\ LoopFacts(g, d) /\ GroupFacts(g, d) /\ Cyclic(d) \subseteq Numbers(g)
      /\ NumBlocks(g) \in Nat
  BY TiedCells, TiedApart
<1>1. k \in Numbers(g) /\ k \in Nat /\ j \in Nat
  BY <1>0 DEF Levels, Numbers
<1>2. /\ j # 0 => p \in LoopOf(g, d, j)
      /\ l.from = Source(g, d, s, j, p) /\ VertexAt(s, l.from) = Group(g, d, j, p)
  BY DEF LinkCase
<1>3. Group(g, d, j, p) \in LoopOf(g, d, k)
  BY <1>2 DEF Within
<1>4. CASE j # 0 /\ k <= j /\ LoopOf(g, d, j) \subseteq LoopOf(g, d, k)
  <2>1. j \in Numbers(g)
    BY <1>4, <1>0 DEF Levels, Numbers
  <2>2. p \in LoopOf(g, d, j)
    BY <1>4, <1>2
  <2>3. CASE p = j
    <3>1. l.from = s.d2i[j]
      BY <2>3, <1>2 DEF Source
    <3>2. s.d2i[j] # LastOf(s, k)
      BY <2>1, <1>1, TiedCells
    <3> QED  BY <3>1, <3>2, <1>4
  <2>4. CASE p # j
    <3>1. l.from = LastOf(s, Group(g, d, j, p))
      BY <2>4, <1>2 DEF Source
    <3>2. Group(g, d, j, p) > j /\ Group(g, d, j, p) \in Numbers(g)
      BY <2>1, <2>2, <2>4, <1>0, GroupInLoop
    <3>3. Group(g, d, j, p) # k
      <4> DEFINE u == Group(g, d, j, p)
      <4>1. u \in Nat
        BY <3>2 DEF Numbers
      <4> HIDE DEF u
      <4>2. u > j
        BY <3>2 DEF u
      <4> QED  BY <4>1, <4>2, <1>4, <1>1 DEF u
    <3>4. LastOf(s, Group(g, d, j, p)) # LastOf(s, k)
      <4> DEFINE u == Group(g, d, j, p)
      <4>1. u \in Numbers(g) /\ u # k
        BY <3>2, <3>3
      <4> HIDE DEF u
      <4>2. LastOf(s, u) = LastOf(s, k) => u = k
        BY <1>0, <4>1, <1>1 DEF Apart
      <4> QED  BY <4>1, <4>2 DEF u
    <3> QED  BY <3>1, <3>4, <1>4
  <2> QED  BY <2>3, <2>4
<1>5. CASE k > j /\ Group(g, d, j, p) = k
  <2>1. p # j
    <3>1. p <= j => Group(g, d, j, p) = p
      BY <1>0 DEF GroupFacts
    <3> QED  BY <3>1, <1>1, <1>5
  <2>2. l.from = LastOf(s, k)
    BY <2>1, <1>2, <1>5 DEF Source
  <2> QED  BY <2>2, <1>5
<1> QED  BY <1>1, <1>2, <1>3, <1>4, <1>5, <1>0, SourceInLoop

(* Constraints out of a loop leave from its exit, ...                       *)
LEMMA StaysWithin ==
  ASSUME NEW g, NEW d, NEW s, Tied(g, d, s), NEW k \in Cyclic(d), NEW l \in s.links,
         l.from \in Within(g, d, s, k), l.from # LastOf(s, k)
  PROVE  l.to \in Within(g, d, s, k)
<1>0. /\ Apart(g, d, s) /\ SearchDone(g, d) /\ LoopFacts(g, d) /\ Cyclic(d) \subseteq Numbers(g) /\ NumBlocks(g) \in Nat
  BY TiedCells, TiedApart
<1>1. PICK j \in Levels(g), p \in Numbers(g) : LinkCase(g, d, s, l, j, p)
  BY LinkCases
<1>2. j # 0 /\ LoopOf(g, d, j) \subseteq LoopOf(g, d, k)
  BY <1>1, LinkFrom
<1>3. l.to \in Indices(s)
  BY <1>1 DEF LinkCase
<1>4. j \in Numbers(g)
  BY <1>2, <1>0 DEF Levels, Numbers
<1>5. CASE \E x \in Numbers(g) : IsInner(g, d, s, j, l, p, x)
  <2>1. PICK x \in Numbers(g) : IsInner(g, d, s, j, l, p, x)
    BY <1>5
  <2>2. x \in LoopOf(g, d, j) /\ l.to = s.d2i[x]
    BY <2>1, <1>2 DEF IsInner, Meet
  <2>3. VertexAt(s, s.d2i[x]) = x
    BY TiedCells
  <2> QED  BY <2>2, <2>3, <1>2, <1>3 DEF Within
<1>6. CASE j \in Cyclic(d) /\ l.to = LastOf(s, j) /\ l.outer = FALSE
  <2>1. VertexAt(s, LastOf(s, j)) = j
    BY <1>4, TiedCells
  <2>2. j \in LoopOf(g, d, j)
    BY <1>4, <1>0 DEF LoopFacts
  <2> QED  BY <2>1, <2>2, <1>2, <1>3, <1>6 DEF Within
<1> QED  BY <1>1, <1>5, <1>6 DEF LinkCase

(* ... and those from the exit lead out of it;                              *)
LEMMA LeavesFromExit ==
  ASSUME NEW g, NEW d, NEW s, Tied(g, d, s), NEW k \in Cyclic(d), NEW l \in s.links, l.from = LastOf(s, k)
  PROVE  l.to \notin Within(g, d, s, k)
<1>0. /\ Apart(g, d, s) /\ SearchDone(g, d) /\ LoopFacts(g, d) /\ GroupFacts(g, d) /\ Cyclic(d) \subseteq Numbers(g)
      /\ NumBlocks(g) \in Nat
  BY TiedCells, TiedApart
<1>1. k \in Numbers(g) /\ k \in Nat
  BY <1>0 DEF Numbers
<1>2. LastOf(s, k) \in Within(g, d, s, k)
  <2>1. LastOf(s, k) \in Indices(s) /\ VertexAt(s, LastOf(s, k)) = k
    BY <1>1, TiedCells
  <2>2. k \in LoopOf(g, d, k)
    BY <1>1, <1>0 DEF LoopFacts
  <2> QED  BY <2>1, <2>2 DEF Within
<1>3. PICK j \in Levels(g), p \in Numbers(g) : LinkCase(g, d, s, l, j, p)
  BY LinkCases
<1>4. k > j /\ Group(g, d, j, p) = k
  BY <1>2, <1>3, LinkFrom
<1>5. Group(g, d, j, k) = k
  <2>1. Group(g, d, j, Group(g, d, j, p)) = Group(g, d, j, p)
    BY <1>0 DEF GroupFacts
  <2> QED  BY <2>1, <1>4
<1>6. CASE \E x \in Numbers(g) : IsInner(g, d, s, j, l, p, x)
  <2>1. PICK x \in Numbers(g) : IsInner(g, d, s, j, l, p, x)
    BY <1>6
  <2>2. Group(g, d, j, p) # Group(g, d, j, x) /\ l.to = s.d2i[x]
    BY <2>1 DEF IsInner, Meet
  <2>3. VertexAt(s, s.d2i[x]) = x
    BY TiedCells
  <2>4. x \notin LoopOf(g, d, k)
    <3>1. x \in LoopOf(g, d, k) => Group(g, d, j, k) = Group(g, d, j, x)
      BY <1>1, <1>4, <1>0 DEF GroupFacts
    <3> QED  BY <3>1, <2>2, <1>4, <1>5
  <2> QED  BY <2>2, <2>3, <2>4 DEF Within
<1>7. CASE j \in Cyclic(d) /\ l.to = LastOf(s, j) /\ l.outer = FALSE
  <2>1. j \in Numbers(g)
    BY <1>7, <1>0
  <2>2. VertexAt(s, LastOf(s, j)) = j
    BY <2>1, TiedCells
  <2>3. j \notin LoopOf(g, d, k)
    <3>1. j \in LoopOf(g, d, k) => k <= j
      BY <1>1, <1>0 DEF LoopFacts
    <3>2. j \in Nat
      BY <1>0, <2>1 DEF Numbers
    <3> QED  BY <3>1, <3>2, <1>1, <1>4
  <2> QED  BY <2>2, <2>3, <1>7 DEF Within
<1> QED  BY <1>3, <1>6, <1>7 DEF LinkCase

(* constraints to the exit come from within, ...                            *)
LEMMA ExitWaitsWithin ==
  ASSUME NEW g, NEW d, NEW s, Tied(g, d, s), NEW k \in Cyclic(d), NEW l \in s.links, l.to = LastOf(s, k)
  PROVE  l.from \in Within(g, d, s, k) /\ l.from # LastOf(s, k)
<1>0. /\ Apart(g, d, s) /\ SearchDone(g, d) /\ LoopFacts(g, d) /\ Cyclic(d) \subseteq Numbers(g) /\ NumBlocks(g) \in Nat
  BY TiedCells, TiedApart
<1>1. k \in Numbers(g)
  BY <1>0
<1>2. PICK j \in Levels(g), p \in Numbers(g) : LinkCase(g, d, s, l, j, p)
  BY LinkCases
<1>3. CASE \E x \in Numbers(g) : IsInner(g, d, s, j, l, p, x)
  <2>1. PICK x \in Numbers(g) : IsInner(g, d, s, j, l, p, x)
    BY <1>3
  <2>2. s.d2i[x] = LastOf(s, k)
    BY <2>1 DEF IsInner
  <2> QED  BY <2>2, <1>1, TiedCells
<1>4. CASE j \in Cyclic(d) /\ l.to = LastOf(s, j) /\ l.outer = FALSE
  <2>1. j = k
    <3>1. j \in Numbers(g)
      BY <1>4, <1>0
    <3>2. LastOf(s, j) = LastOf(s, k) => j = k
      BY <1>0, <3>1, <1>1 DEF Apart
    <3> QED  BY <3>2, <1>4
  <2>2. p \in LoopOf(g, d, k)
    <3>1. k # 0
      BY <1>1, <1>0 DEF Numbers
    <3> QED  BY <3>1, <2>1, <1>2 DEF LinkCase
  <2>3. /\ Group(g, d, k, p) \in LoopOf(g, d, k) /\ Group(g, d, k, p) \in Numbers(g)
        /\ p # k => Group(g, d, k, p) > k
    BY <2>2, <1>1, <1>0, GroupInLoop
  <2>4. l.from \in Indices(s) /\ VertexAt(s, l.from) = Group(g, d, k, p) /\ l.from = Source(g, d, s, k, p)
    BY <2>1, <1>2 DEF LinkCase
  <2>5. CASE p = k
    <3>1. l.from = s.d2i[k]
      BY <2>4, <2>5 DEF Source
    <3>2. s.d2i[k] # LastOf(s, k)
      BY <1>1, TiedCells
    <3> QED  BY <3>1, <3>2, <2>3, <2>4 DEF Within
  <2>6. CASE p # k
    <3>1. l.from = LastOf(s, Group(g, d, k, p))
      BY <2>4, <2>6 DEF Source
    <3>2. Group(g, d, k, p) # k
      <4> DEFINE u == Group(g, d, k, p)
      <4>1. u \in Nat /\ k \in Nat
        BY <2>3, <1>1 DEF Numbers
      <4>2. u > k
        BY <2>3, <2>6
      <4> HIDE DEF u
      <4>3. u # k
        BY <4>1, <4>2
      <4> QED  BY <4>3 DEF u
    <3>3. LastOf(s, Group(g, d, k, p)) # LastOf(s, k)
      BY <3>2, <2>3, <1>1, TiedCells
    <3> QED  BY <3>1, <3>3, <2>3, <2>4 DEF Within
  <2> QED  BY <2>5, <2>6
<1> QED  BY <1>2, <1>3, <1>4 DEF LinkCase

(* ... and those to the head from outside.                                  *)
LEMMA HeadWaitsOutside ==
  ASSUME NEW g, NEW d, NEW s, Tied(g, d, s), NEW k \in Cyclic(d), NEW l \in s.links, l.to = s.d2i[k]
  PROVE  l.from \notin Within(g, d, s, k)
<1>0. /\ Apart(g, d, s) /\ SearchDone(g, d) /\ LoopFacts(g, d) /\ GroupFacts(g, d) /\ Cyclic(d) \subseteq Numbers(g)
      /\ NumBlocks(g) \in Nat
  BY TiedCells, TiedApart
<1>1. k \in Numbers(g) /\ k \in Nat
  BY <1>0 DEF Numbers
<1>2. SUFFICES ASSUME l.from \in Within(g, d, s, k) PROVE FALSE
  OBVIOUS
<1>3. PICK j \in Levels(g), p \in Numbers(g) : LinkCase(g, d, s, l, j, p)
  BY LinkCases
<1>4. CASE \E x \in Numbers(g) : IsInner(g, d, s, j, l, p, x)
  <2>1. PICK x \in Numbers(g) : IsInner(g, d, s, j, l, p, x)
    BY <1>4
  <2>2. x = k
    <3>1. s.d2i[x] = s.d2i[k]
      BY <2>1 DEF IsInner
    <3> QED  BY <3>1, <1>1, TiedCells
  <2>3. Entering(g, d, 0, p, k) /\ Meet(g, d, j, p, k)
    BY <2>1, <2>2 DEF IsInner
  <2>4. CASE j # 0 /\ k <= j /\ LoopOf(g, d, j) \subseteq LoopOf(g, d, k)
    <3>1. j \in Numbers(g) /\ p \in LoopOf(g, d, j)
      BY <2>3, <2>4, <1>0 DEF Meet, Levels, Numbers
    <3> QED  BY <3>1, <2>3, <2>4, <1>0, <1>1, NotIntoHead
  <2>5. CASE k > j /\ Group(g, d, j, p) = k
    <3>1. Group(g, d, j, Group(g, d, j, p)) = Group(g, d, j, p)
      BY <1>0 DEF GroupFacts
    <3> QED  BY <3>1, <2>3, <2>5 DEF Meet
  <2> QED  BY <2>4, <2>5, <1>2, <1>3, LinkFrom
<1>5. CASE j \in Cyclic(d) /\ l.to = LastOf(s, j) /\ l.outer = FALSE
  <2>1. j \in Numbers(g)
    BY <1>5, <1>0
  <2>2. LastOf(s, j) = s.d2i[k] => j = k /\ j \notin Cyclic(d)
    BY <1>0, <2>1, <1>1 DEF Apart
  <2> QED  BY <2>2, <1>5
<1> QED  BY <1>3, <1>4, <1>5 DEF LinkCase

------------------------------------------------------------------------------
(* ... and within it.                                                       *)

(* Each cell of a loop but the head waits for another one of it, ...        *)
LEMMA EnteredWithin ==
  ASSUME NEW g, NEW d, NEW s, Tied(g, d, s), NEW k \in Cyclic(d), NEW c \in Within(g, d, s, k), c # s.d2i[k]
  PROVE  \E l \in s.links : l.to = c /\ l.from \in Within(g, d, s, k)
<1>0. /\ Apart(g, d, s) /\ SearchDone(g, d) /\ LoopFacts(g, d) /\ GroupFacts(g, d) /\ MeetFacts(g, d)
      /\ Cyclic(d) \subseteq Numbers(g) /\ NumBlocks(g) \in Nat
  BY TiedCells, TiedApart
<1>1. k \in Numbers(g) /\ k \in Nat
  BY <1>0 DEF Numbers
<1>2. c \in Indices(s) /\ VertexAt(s, c) \in LoopOf(g, d, k)
  BY DEF Within
<1>3. PICK v \in Numbers(g) : VertexAt(s, c) = v /\ (c = s.d2i[v] \/ (v \in Cyclic(d) /\ c = LastOf(s, v)))
  BY <1>2, TiedCells
<1>4. v \in LoopOf(g, d, k)
  BY <1>2, <1>3
<1>5. ASSUME NEW j \in Numbers(g), LoopOf(g, d, j) \subseteq LoopOf(g, d, k), NEW p \in LoopOf(g, d, j)
      PROVE  Source(g, d, s, j, p) \in Within(g, d, s, k)
  <2>1. Group(g, d, j, p) \in LoopOf(g, d, k) /\ p \in Numbers(g) /\ j \in Levels(g)
    BY <1>0, <1>5, GroupInLoop
  <2>2. Source(g, d, s, j, p) \in Indices(s) /\ VertexAt(s, Source(g, d, s, j, p)) = Group(g, d, j, p)
    BY <2>1, SourceFacts
  <2> QED  BY <2>1, <2>2 DEF Within
<1>6. CASE c = s.d2i[v]
  <2>1. v # k
    BY <1>6
  <2>2. PICK p \in Numbers(g) : p \in LoopOf(g, d, k) /\ p < v /\ Entering(g, d, 0, p, v)
    BY <1>0, <1>1, <1>4, <2>1, ParentInLoop
  <2>3. p # v
    <3>1. p \in Nat /\ v \in Nat
      BY <1>0 DEF Numbers
    <3> QED  BY <2>2, <3>1
  <2>4. PICK j \in Levels(g) : Meet(g, d, j, p, v)
    BY <1>0, <2>3 DEF MeetFacts
  <2>5. j # 0 /\ LoopOf(g, d, j) \subseteq LoopOf(g, d, k)
    BY <1>0, <1>1, <1>4, <2>2, <2>4 DEF MeetFacts
  <2>6. j \in Numbers(g) /\ p \in LoopOf(g, d, j)
    BY <2>4, <2>5, <1>0 DEF Levels, Numbers, Meet
  <2>7. Has(s, Source(g, d, s, j, p), s.d2i[v])
    BY <2>2, <2>4 DEF Tied, LinksOK, Levels, InnerThere
  <2> QED  BY <1>5, <1>6, <2>5, <2>6, <2>7 DEF Has
<1>7. CASE v \in Cyclic(d) /\ c = LastOf(s, v)
  <2>1. LoopOf(g, d, v) \subseteq LoopOf(g, d, k) /\ v \in LoopOf(g, d, v)
    BY <1>0, <1>1, <1>4 DEF LoopFacts
  <2>2. ExitThere(g, d, s, v)
    BY <1>0 DEF Tied, LinksOK, Numbers
  <2>3. CASE d.back[v] \subseteq {v}
    <3>1. Has(s, s.d2i[v], LastOf(s, v))
      BY <1>7, <2>2, <2>3 DEF ExitThere
    <3>2. s.d2i[v] = Source(g, d, s, v, v)
      BY DEF Source
    <3> QED  BY <1>5, <1>7, <2>1, <3>1, <3>2 DEF Has
  <2>4. CASE ~ d.back[v] \subseteq {v}
    <3>1. PICK b \in d.back[v] \ {v} : TRUE
      BY <2>4
    <3>2. Has(s, Source(g, d, s, v, b), LastOf(s, v))
      BY <1>7, <2>2, <2>4, <3>1 DEF ExitThere
    <3>3. b \in LoopOf(g, d, v)
      BY <1>0, BackInLoop
    <3> QED  BY <1>5, <1>7, <2>1, <3>2, <3>3 DEF Has
  <2> QED  BY <2>3, <2>4
<1> QED  BY <1>3, <1>6, <1>7

(* The innermost loop around y, as the vertex that comes last before it.    *)
LEMMA NextOutwards ==
  ASSUME NEW g, NEW d, SearchDone(g, d), NEW k \in Numbers(g), NEW y \in LoopOf(g, d, k), y # k
  PROVE  \E j \in Cyclic(d) : /\ j \in Numbers(g) /\ y \in LoopOf(g, d, j) /\ y # j /\ Group(g, d, j, y) = y
<1>0. GroupFacts(g, d) /\ LoopFacts(g, d) /\ NumBlocks(g) \in Nat /\ DOMAIN d.back = Numbers(g)
  <2>1. d.back \in [Numbers(g) -> SUBSET Numbers(g)]
    BY DEF SearchDone, SearchInv, SearchStates
  <2> QED  BY <2>1, Groups, Loops, SearchTypes DEF SearchDone, SearchInv
<1> DEFINE T == {j \in Numbers(g) : y \in LoopOf(g, d, j) /\ j < y}
<1>1. y \in Numbers(g) /\ k \in Nat /\ y \in Nat /\ k <= y
  BY <1>0 DEF LoopFacts, Numbers
<1>2. k \in T
  BY <1>1
<1>3. T \in SUBSET (0..NumBlocks(g))
  BY <1>0 DEF Numbers
<1>4. PICK j \in T : \A i \in T : i <= j
  <2> HIDE DEF T
  <2> QED  BY <1>0, <1>2, <1>3, GreatestLevel
<1>5. j \in Numbers(g) /\ y \in LoopOf(g, d, j) /\ j \in Nat /\ j < y /\ y # j
  BY <1>0, <1>1 DEF Numbers
<1>6. Group(g, d, j, y) = y
  <2> DEFINE r == Group(g, d, j, y)
  <2>1. r \in Numbers(g) /\ r > j /\ y \in LoopOf(g, d, r) /\ r <= y
    BY <1>0, <1>1, <1>5 DEF GroupFacts, Levels, Numbers
  <2>2. r \in Nat
    BY <2>1 DEF Numbers
  <2> HIDE DEF r
  <2>3. r \notin T
    BY <1>4, <1>5, <2>1, <2>2
  <2>4. ~ r < y
    BY <2>1, <2>3
  <2>5. r = y
    BY <2>1, <2>2, <2>4, <1>1
  <2> QED  BY <2>5 DEF r
<1>7. j \in Cyclic(d)
  BY <1>0, <1>5 DEF LoopFacts
<1> QED  BY <1>5, <1>6, <1>7

(* ... and each cell of a loop but the exit leads on.                       *)
LEMMA LeadsWithin ==
  ASSUME NEW g, NEW d, NEW s, Tied(g, d, s), NEW k \in Cyclic(d), NEW c \in Within(g, d, s, k), c # LastOf(s, k)
  PROVE  \E l \in s.links : l.from = c
<1>0. /\ Apart(g, d, s) /\ SearchDone(g, d) /\ LoopFacts(g, d) /\ GroupFacts(g, d) /\ MeetFacts(g, d)
      /\ Cyclic(d) \subseteq Numbers(g) /\ NumBlocks(g) \in Nat
  BY TiedCells, TiedApart
<1>1. k \in Numbers(g) /\ k \in Nat
  BY <1>0 DEF Numbers
<1>2. c \in Indices(s) /\ VertexAt(s, c) \in LoopOf(g, d, k)
  BY DEF Within
<1>3. PICK y \in Numbers(g) : VertexAt(s, c) = y /\ (c = s.d2i[y] \/ (y \in Cyclic(d) /\ c = LastOf(s, y)))
  BY <1>2, TiedCells
<1>4. y \in LoopOf(g, d, k)
  BY <1>2, <1>3
<1>5. CASE y \in Cyclic(d) /\ c = s.d2i[y]
  <2>1. ExitThere(g, d, s, y) /\ InnerThere(g, d, s, y)
    BY <1>0 DEF Tied, LinksOK, Numbers
  <2>2. CASE d.back[y] \subseteq {y}
    BY <1>5, <2>1, <2>2 DEF ExitThere, Has
  <2>3. CASE ~ d.back[y] \subseteq {y}
    <3>1. PICK b \in d.back[y] : b # y
      BY <2>3
    <3>2. b \in LoopOf(g, d, y)
      BY <1>0, BackInLoop
    <3> DEFINE T == LoopOf(g, d, y) \ {y}
    <3>3. T \in SUBSET Nat /\ b \in T
      BY <1>0, <3>1, <3>2 DEF LoopFacts, Numbers
    <3>4. PICK m \in T : \A i \in T : m <= i
      <4> HIDE DEF T
      <4> QED  BY <3>3, LeastNatural
    <3>5. m \in LoopOf(g, d, y) /\ m # y /\ m \in Numbers(g) /\ m \in Nat
      BY <1>0 DEF LoopFacts, Numbers
    <3>6. PICK p \in Numbers(g) : p \in LoopOf(g, d, y) /\ p < m /\ Entering(g, d, 0, p, m)
      BY <1>0, <3>5, ParentInLoop
    <3>7. p = y
      <4>1. p \in Nat
        BY <1>0 DEF Numbers
      <4>2. p \notin T
        BY <4>1, <3>4, <3>5, <3>6
      <4> QED  BY <4>2, <3>6
    <3>8. Meet(g, d, y, y, m)
      <4>1. y \in LoopOf(g, d, y) /\ y \in Nat
        BY <1>0 DEF LoopFacts
      <4>2. Group(g, d, y, y) = y /\ Group(g, d, y, m) > y
        BY <1>0, <3>5, <4>1, GroupInLoop
      <4>3. Group(g, d, y, y) # Group(g, d, y, m)
        <5> DEFINE u == Group(g, d, y, m)
        <5>1. u > y
          BY <4>2
        <5> HIDE DEF u
        <5>2. u # y
          BY <5>1, <4>1
        <5> QED  BY <5>2, <4>2 DEF u
      <4> QED  BY <4>1, <4>3, <3>5 DEF Meet
    <3>9. Has(s, Source(g, d, s, y, y), s.d2i[m])
      BY <2>1, <3>5, <3>6, <3>7, <3>8 DEF InnerThere
    <3>10. Source(g, d, s, y, y) = c
      BY <1>5 DEF Source
    <3> QED  BY <3>9, <3>10 DEF Has
  <2> QED  BY <2>2, <2>3
<1>6. CASE c = LastOf(s, y)
  <2>1. y # k
    BY <1>6
  <2>2. PICK j \in Cyclic(d) : j \in Numbers(g) /\ y \in LoopOf(g, d, j) /\ y # j /\ Group(g, d, j, y) = y
    BY <1>0, <1>1, <1>4, <2>1, NextOutwards
  <2>3. ExitThere(g, d, s, j) /\ InnerThere(g, d, s, j)
    BY <1>0, <2>2 DEF Tied, LinksOK, Numbers
  <2>4. CASE \E v \in d.back[j] \ {j} : Group(g, d, j, v) = y
    <3>1. PICK v \in d.back[j] \ {j} : Group(g, d, j, v) = y
      BY <2>4
    <3>2. Has(s, Source(g, d, s, j, v), LastOf(s, j))
      BY <2>2, <2>3, <3>1 DEF ExitThere
    <3>3. Source(g, d, s, j, v) = c
      BY <3>1, <1>6 DEF Source
    <3> QED  BY <3>2, <3>3 DEF Has
  <2>5. CASE \E p, x \in Numbers(g) : /\ Entering(g, d, 0, p, x) /\ Meet(g, d, j, p, x)
                                      /\ p # j /\ Group(g, d, j, p) = y
    <3>1. PICK p, x \in Numbers(g) : /\ Entering(g, d, 0, p, x) /\ Meet(g, d, j, p, x)
                                     /\ p # j /\ Group(g, d, j, p) = y
      BY <2>5
    <3>2. Has(s, Source(g, d, s, j, p), s.d2i[x])
      BY <2>3, <3>1 DEF InnerThere
    <3>3. Source(g, d, s, j, p) = c
      BY <3>1, <1>6 DEF Source
    <3> QED  BY <3>2, <3>3 DEF Has
  <2> QED  BY <1>0, <2>2, <2>4, <2>5, LeadsOn
<1>7. y \notin Cyclic(d) => LastOf(s, y) = s.d2i[y]
  BY TiedCells
<1> QED  BY <1>3, <1>5, <1>6, <1>7

(* What the constraints do around the loop of k.                            *)
Around(g, d, s, k) ==
  LET C == Within(g, d, s, k)
  IN  /\ s.d2i[k] \in C /\ LastOf(s, k) \in C
      /\ \A l \in s.links : l.from \in C /\ l.from # LastOf(s, k) => l.to \in C
      /\ \A l \in s.links : l.from = LastOf(s, k) => l.to \notin C
      /\ \A l \in s.links : l.to = LastOf(s, k) => l.from \in C /\ l.from # LastOf(s, k)
      /\ \A l \in s.links : l.to = s.d2i[k] => l.from \notin C
      /\ \A c \in C : c # s.d2i[k] => \E l \in s.links : l.to = c /\ l.from \in C
      /\ \A c \in C : c # LastOf(s, k) => \E l \in s.links : l.from = c

(* All of this, for every loop.                                             *)
LEMMA Arounds == ASSUME NEW g, NEW d, NEW s, Tied(g, d, s), NEW k \in Cyclic(d) PROVE Around(g, d, s, k)
<1>0. k \in Numbers(g) /\ LoopFacts(g, d)
  BY TiedCells
<1>1. s.d2i[k] \in Within(g, d, s, k) /\ LastOf(s, k) \in Within(g, d, s, k)
  <2>1. /\ s.d2i[k] \in Indices(s) /\ VertexAt(s, s.d2i[k]) = k
        /\ LastOf(s, k) \in Indices(s) /\ VertexAt(s, LastOf(s, k)) = k
    BY <1>0, TiedCells
  <2>2. k \in LoopOf(g, d, k)
    BY <1>0 DEF LoopFacts
  <2> QED  BY <2>1, <2>2 DEF Within
<1>2. \A l \in s.links : l.from \in Within(g, d, s, k) /\ l.from # LastOf(s, k) => l.to \in Within(g, d, s, k)
  BY StaysWithin
<1>3. \A l \in s.links : l.from = LastOf(s, k) => l.to \notin Within(g, d, s, k)
  BY LeavesFromExit
<1>4. \A l \in s.links : l.to = LastOf(s, k) => l.from \in Within(g, d, s, k) /\ l.from # LastOf(s, k)
  BY ExitWaitsWithin
<1>5. \A l \in s.links : l.to = s.d2i[k] => l.from \notin Within(g, d, s, k)
  BY HeadWaitsOutside
<1>6. \A c \in Within(g, d, s, k) : c # s.d2i[k] => \E l \in s.links : l.to = c /\ l.from \in Within(g, d, s, k)
  BY EnteredWithin
<1>7. \A c \in Within(g, d, s, k) : c # LastOf(s, k) => \E l \in s.links : l.from = c
  BY LeadsWithin
<1> QED  BY <1>1, <1>2, <1>3, <1>4, <1>5, <1>6, <1>7 DEF Around

------------------------------------------------------------------------------
(* The post-order numbers fall along the constraints.                       *)

(* The post-order number of the block with number v.                        *)
PostOf(g, d, v) == d.post[BlockOf(g, d, v)]

(* It is less than that of the ancestors and more than that of what lies to *)
(* the left.                                                                *)
LEMMA PostsOrdered ==
  ASSUME NEW g, NEW d, SearchDone(g, d), RootOK(g, d), AllReached(g), PostOK(g, d)
  PROVE  /\ d.nextPost \in Nat
         /\ \A v \in Numbers(g) : PostOf(g, d, v) \in Nat /\ PostOf(g, d, v) < d.nextPost
         /\ \A u, v \in Numbers(g) : u < v =>
              /\ u \in Up(d, v) => PostOf(g, d, v) < PostOf(g, d, u)
              /\ u \notin Up(d, v) => PostOf(g, d, u) < PostOf(g, d, v)
<1>1. d \in SearchStates(g)
  BY DEF SearchDone, SearchInv
<1>2. d.nextPost \in Nat /\ d.post \in [g.node -> Nat]
  BY <1>1 DEF SearchStates
<1>3. \A v \in Numbers(g) : /\ BlockOf(g, d, v) \in g.node /\ d.dfn[BlockOf(g, d, v)] = v
                            /\ v \in d.black
  BY AllBlocks, SeenBlocks
<1>4. \A v \in Numbers(g) : PostOf(g, d, v) \in Nat /\ PostOf(g, d, v) < d.nextPost
  BY <1>2, <1>3 DEF PostOf, PostOK
<1>5. ASSUME NEW u \in Numbers(g), NEW v \in Numbers(g), u < v
      PROVE  /\ u \in Up(d, v) => PostOf(g, d, v) < PostOf(g, d, u)
             /\ u \notin Up(d, v) => PostOf(g, d, u) < PostOf(g, d, v)
  <2>1. IF u \in Up(d, v) THEN PostOf(g, d, v) < PostOf(g, d, u) ELSE PostOf(g, d, u) < PostOf(g, d, v)
    <3> DEFINE m == BlockOf(g, d, u)
               n == BlockOf(g, d, v)
    <3>1. m \in g.node /\ n \in g.node /\ d.dfn[m] = u /\ d.dfn[n] = v /\ u \in d.black /\ v \in d.black
      BY <1>3
    <3> HIDE DEF m, n
    <3>2. IF u \in Up(d, v) THEN d.post[n] < d.post[m] ELSE d.post[m] < d.post[n]
      BY <3>1, <1>5 DEF PostOK
    <3> QED  BY <3>2 DEF m, n, PostOf
  <2> QED  BY <2>1
<1> QED  BY <1>2, <1>4, <1>5

(* In a loop, the search leads on to components with smaller numbers.       *)
LEMMA PostFalls ==
  ASSUME NEW g, NEW d, SearchDone(g, d), RootOK(g, d), AllReached(g), PostOK(g, d), NEW k \in Levels(g),
         NEW p \in Numbers(g), NEW x \in Numbers(g), Entering(g, d, 0, p, x), Meet(g, d, k, p, x)
  PROVE  PostOf(g, d, Group(g, d, k, x)) < PostOf(g, d, Group(g, d, k, p))
<1> DEFINE P == Group(g, d, k, p)
           X == Group(g, d, k, x)
<1>0. /\ GroupFacts(g, d) /\ LoopFacts(g, d) /\ NumBlocks(g) \in Nat /\ k \in Nat
  BY Groups, Loops, SearchTypes DEF SearchDone, SearchInv, Levels
<1>1. /\ P \in Numbers(g) /\ X \in Numbers(g) /\ P # X /\ P <= p /\ X <= x
      /\ P \in Nat /\ X \in Nat /\ p \in Nat /\ x \in Nat
  <2>1. P \in Numbers(g) /\ X \in Numbers(g) /\ P <= p /\ X <= x
    BY <1>0 DEF GroupFacts
  <2>2. P # X
    BY DEF Meet
  <2> HIDE DEF P, X
  <2> QED  BY <2>1, <2>2 DEF Numbers
<1>2. ASSUME NEW v \in Numbers(g) PROVE Group(g, d, k, v) \in Up(d, v)
  <2>1. v \in Nat
    BY DEF Numbers
  <2>2. CASE v <= k
    <3>1. Group(g, d, k, v) = v /\ v \in Up(d, v)
      BY <1>0, <2>2, Ancestors DEF GroupFacts
    <3> QED  BY <3>1
  <2>3. CASE v > k
    <3>1. v \in LoopOf(g, d, Group(g, d, k, v)) /\ Group(g, d, k, v) \in Numbers(g)
      BY <1>0, <2>3 DEF GroupFacts
    <3> QED  BY <3>1, <1>0 DEF LoopFacts
  <2> QED  BY <1>0, <2>1, <2>2, <2>3
<1>3. P \in Up(d, p) /\ X \in Up(d, x)
  BY <1>2
<1>4. X > k => x \in LoopOf(g, d, X)
  <2>1. x <= k => X = x
    BY <1>0 DEF GroupFacts
  <2>2. x > k => x \in LoopOf(g, d, X)
    BY <1>0 DEF GroupFacts
  <2> HIDE DEF X
  <2> QED  BY <1>0, <1>1, <2>1, <2>2
<1>5. X <= k => X = x
  <2>1. (x <= k => X = x) /\ (x > k => X > k)
    BY <1>0 DEF GroupFacts
  <2> HIDE DEF X
  <2> QED  BY <1>0, <1>1, <2>1
<1>6. ASSUME X > k, p \in LoopOf(g, d, X) PROVE FALSE
  <2>1. Group(g, d, k, X) = Group(g, d, k, p)
    BY <1>0, <1>1, <1>6 DEF GroupFacts
  <2>2. Group(g, d, k, X) = X
    BY <1>0 DEF GroupFacts
  <2> QED  BY <2>1, <2>2, <1>1
<1> HIDE DEF P, X
<1>7. ASSUME X # x, Entering(g, d, X - 1, p, x) PROVE FALSE
  <2>1. X > k
    BY <1>0, <1>1, <1>5, <1>7
  <2>2. x \in LoopOf(g, d, X)
    BY <1>4, <2>1
  <2>3. p \in LoopOf(g, d, X)
    BY <1>1, <1>7, <2>2, EnteringInside DEF LoopOf
  <2> QED  BY <1>6, <2>1, <2>3
<1>8. CASE p \in d.nonback[x]
  <2>1. p < x /\ p \in Up(d, x)
    <3>1. p < x /\ IsEdge(g, d, p, x)
      BY <1>8, Ancestors
    <3>2. Up(d, p) \subseteq Up(d, x)
      <4>1. IsEdges(d.nonback, Numbers(g))
        BY SearchTypes DEF SearchDone, SearchInv
      <4> QED  BY <4>1, <1>8, ReachUnfold DEF Up
    <3> QED  BY <3>1, <3>2, Ancestors
  <2>2. X = x
    BY <1>7, <1>8 DEF Entering
  <2>3. P \in Up(d, x) /\ P < x
    BY <1>1, <1>3, <2>1, Ancestors
  <2>4. PostOf(g, d, x) < PostOf(g, d, P)
    BY <1>1, <2>3, PostsOrdered
  <2> QED  BY <2>2, <2>4 DEF P, X
<1>9. CASE \E l \in Numbers(g) : l > 0 /\ <<p, x>> \in d.cross[l]
  <2>1. PICK l \in Numbers(g) : <<p, x>> \in d.cross[l]
    BY <1>9
  <2>2. x < p /\ l < x /\ \A c \in Up(d, p) : c \in Up(d, x) => c <= l
    BY <2>1, EdgeKinds
  <2>3. l \in Nat
    BY DEF Numbers
  <2>4. X \notin Up(d, p)
    <3>1. SUFFICES ASSUME X \in Up(d, p) PROVE FALSE
      OBVIOUS
    <3>2. X <= l
      BY <2>2, <3>1, <1>3
    <3>3. X # x /\ l > X - 1
      BY <3>2, <2>2, <2>3, <1>1
    <3>4. Entering(g, d, X - 1, p, x)
      BY <2>1, <3>3 DEF Entering
    <3> QED  BY <3>3, <3>4, <1>7
  <2>5. X \notin Up(d, P)
    BY <2>4, <1>3, <1>1, Ancestors
  <2>6. CASE X < P
    <3>1. PostOf(g, d, X) < PostOf(g, d, P)
      BY <1>1, <2>5, <2>6, PostsOrdered
    <3> QED  BY <3>1 DEF P, X
  <2>7. CASE P < X
    <3>1. P <= X /\ X <= p
      BY <2>7, <2>2, <1>1
    <3>2. P \in Up(d, X)
      BY <1>1, <1>3, <3>1, Ancestors
    <3>3. PostOf(g, d, X) < PostOf(g, d, P)
      BY <1>1, <2>7, <3>2, PostsOrdered
    <3> QED  BY <3>3 DEF P, X
  <2>8. X < P \/ P < X
    BY <1>1
  <2> QED  BY <2>6, <2>7, <2>8
<1> QED  BY <1>8, <1>9 DEF Entering

------------------------------------------------------------------------------
(* The constraints have no cycle.                                           *)

(* Cells that wait for each other: each of T waits for one of T.            *)
Trapped(s, T) ==
  /\ T \subseteq Indices(s) /\ T # {}
  /\ \A c \in T : \E l \in s.links : l.to = c /\ l.from \in T

(* All constraints are there, and the post-order numbers are known.         *)
Ranked(g, d, s) == Tied(g, d, s) /\ Posted(g, d) /\ AllReached(g)

(* The vertices of the cells that are in question: in loop k, after its     *)
(* head.                                                                    *)
After(g, d, k, v) == v \in Numbers(g) /\ v > k /\ (k # 0 => v \in LoopOf(g, d, k))

(* Between two such cells the component is the same or its number falls.    *)
LEMMA LinkFalls ==
  ASSUME NEW g, NEW d, NEW s, Ranked(g, d, s), NEW k \in Levels(g), k # 0 => k \in Cyclic(d),
         NEW l \in s.links, After(g, d, k, VertexAt(s, l.from)), After(g, d, k, VertexAt(s, l.to)),
         NEW u, u = VertexAt(s, l.from), NEW v, v = VertexAt(s, l.to)
  PROVE  \/ Group(g, d, k, v) = Group(g, d, k, u)
         \/ PostOf(g, d, Group(g, d, k, v)) < PostOf(g, d, Group(g, d, k, u))
<1>0. /\ Tied(g, d, s) /\ Apart(g, d, s) /\ SearchDone(g, d) /\ LoopFacts(g, d) /\ GroupFacts(g, d)
      /\ Cyclic(d) \subseteq Numbers(g) /\ NumBlocks(g) \in Nat
      /\ RootOK(g, d) /\ PostOK(g, d) /\ AllReached(g)
  BY TiedCells, TiedApart DEF Ranked, Posted
<1>1. k \in Nat /\ u \in Numbers(g) /\ u > k /\ v \in Numbers(g) /\ v > k
      /\ (k # 0 => u \in LoopOf(g, d, k) /\ v \in LoopOf(g, d, k))
  BY DEF After, Levels
<1>2. PICK j \in Levels(g), p \in Numbers(g) : LinkCase(g, d, s, l, j, p)
  BY <1>0, LinkCases
<1>3. u = Group(g, d, j, p) /\ l.from = Source(g, d, s, j, p) /\ l.from \in Indices(s) /\ j \in Nat
      /\ (j # 0 => p \in LoopOf(g, d, j)) /\ l.to \in Indices(s)
  BY <1>2 DEF LinkCase, Levels
<1>4. j >= k
  <2>1. CASE k = 0
    BY <2>1, <1>3
  <2>2. CASE k # 0
    <3>1. k \in Cyclic(d) /\ l.from \in Within(g, d, s, k)
      BY <2>2, <1>1, <1>3 DEF Within
    <3>2. l.from # LastOf(s, k)
      <4>1. VertexAt(s, LastOf(s, k)) = k
        BY <3>1, <1>0, TiedCells
      <4> QED  BY <4>1, <1>1
    <3>3. k <= j
      BY <3>1, <3>2, <1>0, <1>2, LinkFrom
    <3> QED  BY <3>3, <1>1, <1>3
  <2> QED  BY <2>1, <2>2
<1>5. CASE j = k
  <2>1. CASE \E x \in Numbers(g) : IsInner(g, d, s, j, l, p, x)
    <3>1. PICK x \in Numbers(g) : IsInner(g, d, s, j, l, p, x)
      BY <2>1
    <3>2. l.to = s.d2i[x] /\ Entering(g, d, 0, p, x) /\ Meet(g, d, k, p, x)
      BY <3>1, <1>5 DEF IsInner
    <3>3. v = x
      BY <3>2, <1>0, TiedCells
    <3>4. PostOf(g, d, Group(g, d, k, x)) < PostOf(g, d, Group(g, d, k, p))
      BY <3>2, <1>0, PostFalls
    <3>5. Group(g, d, k, u) = Group(g, d, k, p)
      BY <1>0, <1>3, <1>5 DEF GroupFacts
    <3> QED  BY <3>3, <3>4, <3>5
  <2>2. CASE j \in Cyclic(d) /\ l.to = LastOf(s, j) /\ l.outer = FALSE
    <3>1. v = k
      BY <2>2, <1>5, <1>0, TiedCells
    <3> QED  BY <3>1, <1>1
  <2> QED  BY <2>1, <2>2, <1>2 DEF LinkCase
<1>6. CASE j # k
  <2>1. j > k /\ j # 0 /\ j \in Numbers(g)
    BY <1>1, <1>3, <1>4, <1>6, <1>0 DEF Levels, Numbers
  <2>2. u \in LoopOf(g, d, j)
    BY <2>1, <1>0, <1>3, GroupInLoop
  <2>3. v \in LoopOf(g, d, j)
    <3>1. CASE \E x \in Numbers(g) : IsInner(g, d, s, j, l, p, x)
      <4>1. PICK x \in Numbers(g) : IsInner(g, d, s, j, l, p, x)
        BY <3>1
      <4>2. l.to = s.d2i[x] /\ x \in LoopOf(g, d, j)
        BY <4>1, <2>1 DEF IsInner, Meet
      <4>3. v = x
        BY <4>2, <1>0, TiedCells
      <4> QED  BY <4>2, <4>3
    <3>2. CASE j \in Cyclic(d) /\ l.to = LastOf(s, j) /\ l.outer = FALSE
      <4>1. v = j
        BY <3>2, <2>1, <1>0, TiedCells
      <4> QED  BY <4>1, <2>1, <1>0 DEF LoopFacts
    <3> QED  BY <3>1, <3>2, <1>2 DEF LinkCase
  <2>4. Group(g, d, k, j) = Group(g, d, k, u) /\ Group(g, d, k, j) = Group(g, d, k, v)
    BY <2>1, <2>2, <2>3, <1>1, <1>0 DEF GroupFacts
  <2> QED  BY <2>4
<1> QED  BY <1>5, <1>6

(* What is trapped in a loop is trapped without its head and its exit.      *)
LEMMA TrappedAfter ==
  ASSUME NEW g, NEW d, NEW s, Tied(g, d, s), NEW k \in Cyclic(d), NEW T, Trapped(s, T), T \subseteq Within(g, d, s, k)
  PROVE  \E U : Trapped(s, U) /\ \A c \in U : c \in Indices(s) /\ After(g, d, k, VertexAt(s, c))
<1> DEFINE U == T \ {LastOf(s, k)}
           C == Within(g, d, s, k)
<1>0. /\ Around(g, d, s, k) /\ LoopFacts(g, d) /\ k \in Numbers(g) /\ k # 0 /\ k \in Nat
  <2>1. k \in Numbers(g) /\ LoopFacts(g, d)
    BY TiedCells
  <2> QED  BY <2>1, Arounds DEF Numbers
<1>1. /\ T \subseteq C /\ T \subseteq Indices(s) /\ T # {}
      /\ \A c \in T : \E l \in s.links : l.to = c /\ l.from \in T
  BY DEF Trapped
<1>2. /\ \A l \in s.links : l.from = LastOf(s, k) => l.to \notin C
      /\ \A l \in s.links : l.to = s.d2i[k] => l.from \notin C
  BY <1>0 DEF Around
<1> HIDE DEF C
<1>3. s.d2i[k] \notin T
  BY <1>1, <1>2
<1>4. \A c \in T : \E l \in s.links : l.to = c /\ l.from \in U
  BY <1>1, <1>2
<1>5. Trapped(s, U)
  <2>1. U # {}
    BY <1>1, <1>4
  <2>2. \A c \in U : \E l \in s.links : l.to = c /\ l.from \in U
    BY <1>4
  <2> QED  BY <1>1, <2>1, <2>2 DEF Trapped
<1>6. ASSUME NEW c \in U PROVE c \in Indices(s) /\ After(g, d, k, VertexAt(s, c))
  <2>1. c \in Indices(s) /\ VertexAt(s, c) \in LoopOf(g, d, k)
    BY <1>1 DEF C, Within
  <2>2. VertexAt(s, c) \in Numbers(g) /\ k <= VertexAt(s, c)
    BY <1>0, <2>1 DEF LoopFacts
  <2>3. VertexAt(s, c) # k
    <3>1. PICK v \in Numbers(g) : VertexAt(s, c) = v /\ (c = s.d2i[v] \/ (v \in Cyclic(d) /\ c = LastOf(s, v)))
      BY <2>1, TiedCells
    <3> QED  BY <3>1, <1>3
  <2>4. VertexAt(s, c) > k
    <3> DEFINE v == VertexAt(s, c)
    <3>1. v \in Nat /\ k <= v /\ v # k
      BY <2>2, <2>3 DEF Numbers
    <3> HIDE DEF v
    <3>2. v > k
      BY <3>1, <1>0
    <3> QED  BY <3>2 DEF v
  <2> QED  BY <2>1, <2>2, <2>4 DEF After
<1> QED  BY <1>5, <1>6

(* What is trapped after the head of a loop is trapped in one component of  *)
(* it, the one with the greatest post-order number.                         *)
LEMMA TrappedInside ==
  ASSUME NEW g, NEW d, NEW s, Ranked(g, d, s), NEW k \in Levels(g), k # 0 => k \in Cyclic(d),
         NEW U, Trapped(s, U), \A c \in U : c \in Indices(s) /\ After(g, d, k, VertexAt(s, c))
  PROVE  \E q \in Numbers(g) : q > k /\ \E T : Trapped(s, T) /\ T \subseteq Within(g, d, s, q)
<1> DEFINE G(c) == Group(g, d, k, VertexAt(s, c))
           posts == {PostOf(g, d, G(c)) : c \in U}
<1>0. /\ GroupFacts(g, d) /\ RootOK(g, d) /\ PostOK(g, d) /\ AllReached(g) /\ SearchDone(g, d) /\ k \in Nat
  BY TiedCells DEF Ranked, Posted, Levels
<1>1. \A c \in U : /\ VertexAt(s, c) \in Numbers(g) /\ VertexAt(s, c) > k /\ G(c) \in Numbers(g) /\ G(c) > k
                   /\ VertexAt(s, c) \in LoopOf(g, d, G(c))
  BY <1>0 DEF After, GroupFacts
<1>2. /\ U # {} /\ U \subseteq Indices(s)
      /\ \A c \in U : \E l \in s.links : l.to = c /\ l.from \in U
  BY DEF Trapped
<1>3. d.nextPost \in Nat /\ \A c \in U : PostOf(g, d, G(c)) \in Nat /\ PostOf(g, d, G(c)) < d.nextPost
  <2> HIDE DEF G
  <2>1. d.nextPost \in Nat /\ \A v \in Numbers(g) : PostOf(g, d, v) \in Nat /\ PostOf(g, d, v) < d.nextPost
    BY <1>0, PostsOrdered
  <2> QED  BY <1>1, <2>1
<1>4. PICK c \in U : \A b \in U : PostOf(g, d, G(b)) <= PostOf(g, d, G(c))
  <2> HIDE DEF G
  <2>1. posts \in SUBSET (0..d.nextPost)
    BY <1>3
  <2>2. posts # {}
    BY <1>2
  <2> HIDE DEF posts
  <2>3. PICK m \in posts : \A j \in posts : j <= m
    BY <1>3, <2>1, <2>2, GreatestLevel
  <2> QED  BY <2>3 DEF posts
<1> DEFINE T == {b \in U : G(b) = G(c)}
<1>5. ASSUME NEW b \in T PROVE \E l \in s.links : l.to = b /\ l.from \in T
  <2>1. PICK l \in s.links : l.to = b /\ l.from \in U
    BY <1>2
  <2>2. G(b) = G(l.from) \/ PostOf(g, d, G(b)) < PostOf(g, d, G(l.from))
    BY <2>1, LinkFalls
  <2>3. PostOf(g, d, G(l.from)) <= PostOf(g, d, G(b))
    BY <2>1, <1>4
  <2>4. PostOf(g, d, G(b)) \in Nat /\ PostOf(g, d, G(l.from)) \in Nat
    BY <2>1, <1>3
  <2> HIDE DEF G
  <2>5. ~ PostOf(g, d, G(b)) < PostOf(g, d, G(l.from))
    BY <2>3, <2>4
  <2>6. G(l.from) = G(c)
    BY <2>2, <2>5
  <2> QED  BY <2>1, <2>6
<1>6. Trapped(s, T)
  <2>1. c \in T /\ T \subseteq Indices(s)
    BY <1>2
  <2> HIDE DEF T
  <2> QED  BY <2>1, <1>5 DEF Trapped
<1>7. T \subseteq Within(g, d, s, G(c))
  BY <1>1, <1>2 DEF Within
<1>8. G(c) \in Numbers(g) /\ G(c) > k
  BY <1>1
<1> HIDE DEF G, T
<1> QED  BY <1>6, <1>7, <1>8

(* A cell that heads no loop does not wait for itself.                      *)
LEMMA TrivialWaits ==
  ASSUME NEW g, NEW d, NEW s, Tied(g, d, s), NEW k \in Numbers(g), k \notin Cyclic(d), NEW T, Trapped(s, T),
         T \subseteq Within(g, d, s, k)
  PROVE  FALSE
<1>0. LoopFacts(g, d) /\ GroupFacts(g, d) /\ Cyclic(d) \subseteq Numbers(g)
  BY TiedCells
<1>1. PICK c \in T, l \in s.links : l.to = c /\ l.from \in T
  BY DEF Trapped
<1>2. VertexAt(s, l.from) = k /\ VertexAt(s, l.to) = k
  BY <1>0, <1>1 DEF Within, LoopFacts
<1>3. PICK j \in Levels(g), p \in Numbers(g) : LinkCase(g, d, s, l, j, p)
  BY LinkCases
<1>4. Group(g, d, j, p) = k /\ Group(g, d, j, k) = k
  <2>1. Group(g, d, j, Group(g, d, j, p)) = Group(g, d, j, p)
    BY <1>0 DEF GroupFacts
  <2> QED  BY <2>1, <1>2, <1>3 DEF LinkCase
<1>5. CASE \E x \in Numbers(g) : IsInner(g, d, s, j, l, p, x)
  <2>1. PICK x \in Numbers(g) : IsInner(g, d, s, j, l, p, x)
    BY <1>5
  <2>2. x = k
    <3>1. l.to = s.d2i[x] /\ VertexAt(s, s.d2i[x]) = x
      BY <2>1, TiedCells DEF IsInner
    <3> QED  BY <3>1, <1>2
  <2> QED  BY <2>1, <2>2, <1>4 DEF IsInner, Meet
<1>6. CASE j \in Cyclic(d) /\ l.to = LastOf(s, j) /\ l.outer = FALSE
  <2>1. VertexAt(s, LastOf(s, j)) = j
    BY <1>6, <1>0, TiedCells
  <2> QED  BY <2>1, <1>2, <1>6
<1> QED  BY <1>3, <1>5, <1>6 DEF LinkCase

(* No cells wait for each other: the constraints have no cycle.             *)
LEMMA NoneTrapped ==
  ASSUME NEW g, NEW d, NEW s, Ranked(g, d, s), NEW T, Trapped(s, T)
  PROVE  FALSE
<1> DEFINE K == {k \in Levels(g) : \E S : Trapped(s, S) /\ (k # 0 => S \subseteq Within(g, d, s, k))}
<1>0. Tied(g, d, s) /\ NumBlocks(g) \in Nat /\ LoopFacts(g, d)
  BY TiedCells DEF Ranked
<1>1. 0 \in K
  BY <1>0 DEF Levels
<1>2. PICK k \in K : \A j \in K : j <= k
  <2>1. K \in SUBSET (0..NumBlocks(g))
    BY DEF Levels
  <2> HIDE DEF K
  <2> QED  BY <1>0, <1>1, <2>1, GreatestLevel
<1>3. k \in Levels(g) /\ k \in Nat
  BY DEF Levels
<1>4. PICK S : Trapped(s, S) /\ (k # 0 => S \subseteq Within(g, d, s, k))
  OBVIOUS
<1>5. \E U : /\ Trapped(s, U) /\ (k # 0 => k \in Cyclic(d))
             /\ \A c \in U : c \in Indices(s) /\ After(g, d, k, VertexAt(s, c))
  <2>1. CASE k = 0
    <3>1. \A c \in S : c \in Indices(s) /\ VertexAt(s, c) \in Numbers(g)
      BY <1>0, <1>4, TiedCells DEF Trapped
    <3>2. \A c \in S : c \in Indices(s) /\ After(g, d, k, VertexAt(s, c))
      <4> TAKE c \in S
      <4> DEFINE v == VertexAt(s, c)
      <4>1. v \in Numbers(g) /\ c \in Indices(s)
        BY <3>1
      <4> HIDE DEF v
      <4>2. v > 0
        BY <4>1 DEF Numbers
      <4> QED  BY <4>1, <4>2, <2>1 DEF After, v
    <3> QED  BY <3>2, <1>4, <2>1
  <2>2. CASE k # 0
    <3>1. k \in Numbers(g)
      BY <2>2, <1>0, <1>3 DEF Levels, Numbers
    <3>2. k \in Cyclic(d)
      BY <3>1, <2>2, <1>0, <1>4, TrivialWaits
    <3> QED  BY <3>2, <2>2, <1>0, <1>4, TrappedAfter
  <2> QED  BY <2>1, <2>2
<1>6. PICK U : /\ Trapped(s, U) /\ (k # 0 => k \in Cyclic(d))
               /\ \A c \in U : c \in Indices(s) /\ After(g, d, k, VertexAt(s, c))
  BY <1>5
<1>7. PICK q \in Numbers(g) : q > k /\ \E V : Trapped(s, V) /\ V \subseteq Within(g, d, s, q)
  BY <1>3, <1>6, TrappedInside
<1>8. q \in K
  BY <1>0, <1>7 DEF Levels, Numbers
<1>9. q \in Nat /\ q <= k
  BY <1>2, <1>7, <1>8 DEF Numbers
<1> QED  BY <1>3, <1>7, <1>9

------------------------------------------------------------------------------
(* What follows for any order without cycles.                               *)

(* Constraints without a cycle, whatever the order w.                       *)
Acyclic(w) ==
  /\ IsFiniteSet(Cells(w))
  /\ \A c \in Cells(w) : w.pred[c] \subseteq Cells(w)
  /\ \A T \in SUBSET Cells(w) : (\A c \in T : w.pred[c] \cap T # {}) => T = {}

(* What is before a cell.                                                   *)
BeforeFacts(w, before) ==
  /\ \A c \in Cells(w) : before[c] \subseteq Cells(w) /\ w.pred[c] \subseteq before[c]
  /\ \A c \in Cells(w) : \A b \in before[c] : w.pred[b] \subseteq before[c] /\ before[b] \subseteq before[c]
  /\ \A c \in Cells(w) : \A b \in before[c] : \E a \in w.pred[c] : a = b \/ b \in before[a]
  /\ \A c \in Cells(w) : c \notin before[c]

(* Before(w), a least fixpoint, is that.                                    *)
LEMMA BeforeHolds == ASSUME NEW w, Acyclic(w) PROVE BeforeFacts(w, Before(w))
<1> DEFINE N == Cells(w)
           Closures(c) == {S \in ClosedSets(w) : w.pred[c] \subseteq S}
           before == Before(w)
<1>0. \A c \in N : w.pred[c] \subseteq N
  BY DEF Acyclic
<1>1. \A c \in N : before[c] = {b \in N : \A S \in Closures(c) : b \in S}
  BY DEF Before
<1>2. \A S : S \in ClosedSets(w) <=> S \in SUBSET N /\ \A c \in S : w.pred[c] \subseteq S
  BY DEF ClosedSets
<1> HIDE DEF before
<1>3. ASSUME NEW c \in N PROVE before[c] \subseteq N /\ w.pred[c] \subseteq before[c]
  BY <1>0, <1>1
<1>4. ASSUME NEW c \in N PROVE before[c] \in ClosedSets(w)
  <2> SUFFICES ASSUME NEW b \in before[c], NEW a \in w.pred[b] PROVE a \in before[c]
    BY <1>2, <1>3
  <2>1. b \in N /\ a \in N
    BY <1>0, <1>3
  <2>2. \A S \in Closures(c) : a \in S
    BY <1>1, <1>2
  <2> QED  BY <1>1, <2>1, <2>2
<1>5. ASSUME NEW c \in N, NEW b \in before[c] PROVE w.pred[b] \subseteq before[c] /\ before[b] \subseteq before[c]
  <2>1. w.pred[b] \subseteq before[c] /\ b \in N
    BY <1>2, <1>3, <1>4
  <2>2. before[c] \in Closures(b)
    BY <1>4, <2>1
  <2> QED  BY <1>1, <2>1, <2>2
<1>6. ASSUME NEW c \in N, NEW b \in before[c] PROVE \E a \in w.pred[c] : a = b \/ b \in before[a]
  <2> DEFINE S == w.pred[c] \cup UNION {before[a] : a \in w.pred[c]}
  <2>1. S \in ClosedSets(w)
    <3>1. S \in SUBSET N
      BY <1>0, <1>3
    <3>2. ASSUME NEW e \in S PROVE w.pred[e] \subseteq S
      <4>1. CASE e \in w.pred[c]
        BY <4>1, <1>0, <1>3
      <4>2. CASE \E a \in w.pred[c] : e \in before[a]
        BY <4>2, <1>0, <1>5
      <4> QED  BY <4>1, <4>2
    <3> HIDE DEF S
    <3> QED  BY <1>2, <3>1, <3>2
  <2>2. S \in Closures(c)
    BY <2>1
  <2> HIDE DEF Closures
  <2>3. b \in S
    BY <1>1, <2>2
  <2> QED  BY <2>3
<1>7. ASSUME NEW c \in N PROVE c \notin before[c]
  <2> DEFINE T == {b \in N : c \in before[b]}
  <2>1. SUFFICES ASSUME c \in before[c] PROVE FALSE
    OBVIOUS
  <2>2. ASSUME NEW b \in T PROVE w.pred[b] \cap T # {}
    <3>1. PICK a \in w.pred[b] : a = c \/ c \in before[a]
      BY <1>6
    <3>2. a \in T
      BY <1>0, <2>1, <3>1
    <3> QED  BY <3>1, <3>2
  <2>3. T \in SUBSET N /\ c \in T
    BY <2>1
  <2> HIDE DEF T
  <2> QED  BY <2>2, <2>3 DEF Acyclic
<1> QED  BY <1>3, <1>5, <1>6, <1>7 DEF BeforeFacts, before

(* Nor does a finite set of cells lead on and on within itself.             *)
LEMMA SomeLast ==
  ASSUME NEW w, Acyclic(w), NEW T \in SUBSET Cells(w), \A c \in T : \E b \in T : c \in w.pred[b]
  PROVE  T = {}
<1> DEFINE N == Cells(w)
           before == Before(w)
           size(c) == Cardinality(before[c])
           sizes == {size(c) : c \in T}
<1>0. BeforeFacts(w, before) /\ IsFiniteSet(N)
  BY BeforeHolds DEF Acyclic
<1> HIDE DEF before
<1>1. ASSUME NEW c \in N PROVE IsFiniteSet(before[c]) /\ size(c) \in Nat /\ size(c) <= Cardinality(N)
  <2>1. before[c] \subseteq N
    BY <1>0 DEF BeforeFacts
  <2>2. IsFiniteSet(before[c]) /\ Cardinality(before[c]) <= Cardinality(N)
    BY <2>1, <1>0, FS_Subset
  <2> QED  BY <2>2, FS_CardinalityType
<1>2. ASSUME NEW c \in N, NEW b \in N, c \in w.pred[b] PROVE size(c) < size(b)
  <2>1. before[c] \subseteq before[b] /\ c \in before[b] /\ c \notin before[c]
    BY <1>0, <1>2 DEF BeforeFacts
  <2>2. size(c) <= size(b) /\ (size(c) = size(b) => before[c] = before[b])
    BY <2>1, <1>1, FS_Subset
  <2>3. size(c) # size(b)
    BY <2>1, <2>2
  <2> HIDE DEF size
  <2> QED  BY <2>2, <2>3, <1>1
<1>3. SUFFICES ASSUME T # {} PROVE FALSE
  OBVIOUS
<1>4. Cardinality(N) \in Nat
  BY <1>0, FS_CardinalityType
<1>5. PICK c \in T : \A b \in T : size(b) <= size(c)
  <2>1. sizes \in SUBSET (0..Cardinality(N))
    <3> HIDE DEF size
    <3> QED  BY <1>1, <1>4
  <2>2. sizes # {}
    BY <1>3
  <2> HIDE DEF sizes
  <2>3. PICK m \in sizes : \A j \in sizes : j <= m
    BY <1>4, <2>1, <2>2, GreatestLevel
  <2> HIDE DEF size
  <2> QED  BY <2>3 DEF sizes
<1>6. PICK b \in T : c \in w.pred[b]
  OBVIOUS
<1>7. size(c) < size(b) /\ size(b) <= size(c) /\ size(b) \in Nat /\ size(c) \in Nat
  <2> HIDE DEF size
  <2> QED  BY <1>1, <1>2, <1>5, <1>6
<1> HIDE DEF size
<1> QED  BY <1>7

(* Running the cells after their predecessors runs all of them.             *)
LEMMA AcyclicFounded == ASSUME NEW w, Acyclic(w) PROVE ConstraintsWellFounded(w)
<1> SUFFICES ASSUME NEW S \in SUBSET Cells(w), \A c \in Cells(w) : w.pred[c] \subseteq S => c \in S
             PROVE  S = Cells(w)
  BY DEF ConstraintsWellFounded
<1> DEFINE T == Cells(w) \ S
<1>1. \A c \in T : w.pred[c] \cap T # {}
  BY DEF Acyclic
<1>2. T \in SUBSET Cells(w)
  OBVIOUS
<1>3. T = {}
  <2> HIDE DEF T
  <2> QED  BY <1>1, <1>2 DEF Acyclic
<1> QED  BY <1>3

(* A set of cells that is entered at h and left at x.                       *)
Bounded(w, C, h, x) ==
  /\ C \subseteq Cells(w) /\ h \in C /\ x \in C
  /\ \A c \in C : c # h => w.pred[c] \cap C # {}
  /\ \A c \in C : c # x => \E b \in C : c \in w.pred[b]
  /\ \A b \in Cells(w) : b \notin C => w.pred[b] \cap C \subseteq {x}

(* It is what lies between them.                                            *)
LEMMA BetweenBounds ==
  ASSUME NEW w, Acyclic(w), NEW C, NEW h, NEW x, Bounded(w, C, h, x), NEW before, before = Before(w)
  PROVE  C = {c \in Cells(w) : (c = h \/ h \in before[c]) /\ (c = x \/ c \in before[x])}
<1> DEFINE N == Cells(w)
<1>0. BeforeFacts(w, before)
  BY BeforeHolds
<1>1. /\ C \subseteq N /\ h \in C /\ x \in C
      /\ \A c \in C : c # h => w.pred[c] \cap C # {}
      /\ \A c \in C : c # x => \E b \in C : c \in w.pred[b]
      /\ \A b \in N : b \notin C => w.pred[b] \cap C \subseteq {x}
  BY DEF Bounded
<1>2. /\ \A c \in N : before[c] \subseteq N /\ w.pred[c] \subseteq before[c]
      /\ \A c \in N : \A b \in before[c] : w.pred[b] \subseteq before[c] /\ before[b] \subseteq before[c]
      /\ \A c \in N : \A b \in before[c] : \E a \in w.pred[c] : a = b \/ b \in before[a]
      /\ \A c \in N : c \notin before[c]
  BY <1>0 DEF BeforeFacts
<1>3. /\ \A c \in N : w.pred[c] \subseteq N
      /\ \A T \in SUBSET N : (\A c \in T : w.pred[c] \cap T # {}) => T = {}
  BY DEF Acyclic
<1>4. \A c \in C : c = h \/ h \in before[c]
  <2> DEFINE T == {c \in C : c # h /\ h \notin before[c]}
  <2>1. ASSUME NEW c \in T PROVE w.pred[c] \cap T # {}
    <3>1. PICK a \in w.pred[c] : a \in C
      BY <1>1
    <3>2. c \in N /\ a \in before[c]
      BY <1>1, <1>2, <3>1
    <3>3. a # h /\ h \notin before[a]
      BY <1>2, <3>2
    <3> QED  BY <3>1, <3>3
  <2>2. T \in SUBSET N
    BY <1>1
  <2>3. T = {}
    <3> HIDE DEF T
    <3> QED  BY <1>3, <2>1, <2>2
  <2> QED  BY <2>3
<1>5. \A c \in C : c = x \/ c \in before[x]
  <2> DEFINE T == {c \in C : c # x /\ c \notin before[x]}
  <2>1. ASSUME NEW c \in T PROVE \E b \in T : c \in w.pred[b]
    <3>1. PICK b \in C : c \in w.pred[b]
      BY <1>1
    <3>2. b # x
      BY <1>1, <1>2, <3>1
    <3>3. b \notin before[x]
      BY <1>1, <1>2, <3>1
    <3> QED  BY <3>1, <3>2, <3>3
  <2>2. T \in SUBSET N
    BY <1>1
  <2>3. T = {}
    <3> HIDE DEF T
    <3> QED  BY <2>1, <2>2, SomeLast
  <2> QED  BY <2>3
<1>6. ASSUME NEW c \in N, c = h \/ h \in before[c], c = x \/ c \in before[x] PROVE c \in C
  <2>1. SUFFICES ASSUME c \notin C PROVE FALSE
    OBVIOUS
  <2> DEFINE T == {b \in N : b \notin C /\ h \in before[b] /\ x \notin before[b]}
  <2>2. ASSUME NEW b \in T PROVE w.pred[b] \cap T # {}
    <3>1. PICK a \in w.pred[b] : a = h \/ h \in before[a]
      BY <1>2
    <3>2. a \in N /\ a \in before[b]
      BY <1>2, <1>3
    <3>3. a \notin C
      BY <1>1, <3>2
    <3>4. h \in before[a] /\ x \notin before[a]
      BY <1>1, <1>2, <3>1, <3>2, <3>3
    <3> QED  BY <3>1, <3>2, <3>3, <3>4
  <2>3. T \in SUBSET N
    OBVIOUS
  <2>4. T = {}
    <3> HIDE DEF T
    <3> QED  BY <1>3, <2>2, <2>3
  <2>5. h \in before[c] /\ c \in before[x] /\ x \in N
    BY <1>1, <1>6, <2>1
  <2>6. x \in before[c]
    BY <2>1, <2>4, <2>5
  <2>7. c \in before[c]
    BY <1>2, <2>5, <2>6
  <2> QED  BY <1>2, <2>7
<1> QED  BY <1>1, <1>4, <1>5, <1>6

------------------------------------------------------------------------------
(* The finished order.                                                      *)

(* The constraints of the finished order.                                   *)

(* The constraints that the outer predecessors of exit x are counted from.  *)
OuterLinks(s, x) == {l \in s.links : l.outer /\ x \in ExitsUpTo(s, l.to, l.exit)}

(* The constraints of the finished order.                                   *)
FinishedLinks(s, w) ==
  /\ w.succ = [c \in Indices(s) |-> {l.to : l \in {k \in s.links : k.from = c}}]
  /\ w.pred = [c \in Indices(s) |-> {l.from : l \in {k \in s.links : k.to = c}}]
  /\ w.outer = [x \in {c \in Indices(s) : TypeAt(s, c) = "exit"} |->
                  [c \in {l.to : l \in OuterLinks(s, x)} |->
                     Cardinality({l \in OuterLinks(s, x) : l.to = c})]]

(* The constructor stores them so.                                          *)
LEMMA FinishedConstraints == ASSUME NEW g, NEW d, NEW s PROVE FinishedLinks(s, Finished(g, d, s))
BY DEF Finished, FinishedLinks, Indices, TypeAt, OuterLinks

(* The finished order w, and what the search tells of it.                   *)
FinishedOrder(g, d, s, w) == Ranked(g, d, s) /\ FinishedCells(g, d, s, w) /\ FinishedLinks(s, w)

(* Who waits for whom.                                                      *)
WaitFacts(s, w) ==
  /\ Cells(w) = Indices(s) /\ IsFiniteSet(Cells(w))
  /\ \A l \in s.links : l.from \in Cells(w) /\ l.to \in Cells(w)
  /\ \A c \in Cells(w) : \A b : b \in w.pred[c] <=> \E l \in s.links : l.from = b /\ l.to = c
  /\ \A c \in Cells(w) : \A b : b \in w.succ[c] <=> \E l \in s.links : l.from = c /\ l.to = b

(* It is so in the finished order.                                          *)
LEMMA Waits == ASSUME NEW g, NEW d, NEW s, NEW w, FinishedOrder(g, d, s, w) PROVE WaitFacts(s, w)
<1>1. Tied(g, d, s) /\ FinishedCells(g, d, s, w) /\ FinishedLinks(s, w)
  BY DEF FinishedOrder, Ranked
<1>2. Cells(w) = Indices(s)
  BY <1>1 DEF FinishedCells, Cells
<1>3. IsFiniteSet(Indices(s))
  <2>1. Placed(g, d, s)
    BY <1>1 DEF Tied, Settled
  <2>2. Len(s.space) \in Nat
    BY <2>1, PlacedTypes
  <2> QED  BY <2>2, FS_Interval DEF Indices
<1>4. \A l \in s.links : l.from \in Indices(s) /\ l.to \in Indices(s)
  <2> TAKE l \in s.links
  <2>1. PICK k \in Levels(g), p \in Numbers(g) : LinkCase(g, d, s, l, k, p)
    BY <1>1, LinkCases
  <2> QED  BY <2>1 DEF LinkCase
<1>5. \A c \in Indices(s) : w.pred[c] = {l.from : l \in {k \in s.links : k.to = c}}
  BY <1>1 DEF FinishedLinks
<1>6. \A c \in Indices(s) : w.succ[c] = {l.to : l \in {k \in s.links : k.from = c}}
  BY <1>1 DEF FinishedLinks
<1>7. \A c \in Indices(s) : \A b : b \in w.pred[c] <=> \E l \in s.links : l.from = b /\ l.to = c
  BY <1>5
<1>8. \A c \in Indices(s) : \A b : b \in w.succ[c] <=> \E l \in s.links : l.from = c /\ l.to = b
  BY <1>6
<1> QED  BY <1>2, <1>3, <1>4, <1>7, <1>8 DEF WaitFacts

(* Predecessors and successors are the two sides of the same constraints.   *)
LEMMA LinksPaired == ASSUME NEW s, NEW w, WaitFacts(s, w) PROVE ConstraintsPaired(w)
<1>1. /\ \A l \in s.links : l.from \in Cells(w) /\ l.to \in Cells(w)
      /\ \A c \in Cells(w) : \A b : b \in w.pred[c] <=> \E l \in s.links : l.from = b /\ l.to = c
      /\ \A c \in Cells(w) : \A b : b \in w.succ[c] <=> \E l \in s.links : l.from = c /\ l.to = b
  BY DEF WaitFacts
<1>2. ASSUME NEW c \in Cells(w)
      PROVE  /\ w.succ[c] \subseteq Cells(w) /\ w.pred[c] \subseteq Cells(w)
             /\ \A t \in Cells(w) : t \in w.succ[c] <=> c \in w.pred[t]
  BY <1>1
<1> QED  BY <1>2 DEF ConstraintsPaired

(* Nothing is trapped: the constraints have no cycle.                       *)
LEMMA LinksAcyclic == ASSUME NEW g, NEW d, NEW s, NEW w, FinishedOrder(g, d, s, w) PROVE Acyclic(w)
<1>1. Ranked(g, d, s)
  BY DEF FinishedOrder
<1>2. /\ Cells(w) = Indices(s) /\ IsFiniteSet(Cells(w))
      /\ \A l \in s.links : l.from \in Cells(w) /\ l.to \in Cells(w)
      /\ \A c \in Cells(w) : \A b : b \in w.pred[c] <=> \E l \in s.links : l.from = b /\ l.to = c
  BY Waits DEF WaitFacts
<1>3. \A c \in Cells(w) : w.pred[c] \subseteq Cells(w)
  BY <1>2
<1>4. ASSUME NEW T \in SUBSET Cells(w), \A c \in T : w.pred[c] \cap T # {} PROVE T = {}
  <2>1. SUFFICES ASSUME T # {} PROVE FALSE
    OBVIOUS
  <2>2. \A c \in T : \E l \in s.links : l.to = c /\ l.from \in T
    <3> TAKE c \in T
    <3>1. PICK b \in T : b \in w.pred[c]
      BY <1>4
    <3>2. \E l \in s.links : l.from = b /\ l.to = c
      BY <3>1, <1>2
    <3> QED  BY <3>2
  <2>3. Trapped(s, T)
    BY <2>1, <2>2, <1>2 DEF Trapped
  <2> QED  BY <2>3, <1>1, NoneTrapped
<1> QED  BY <1>2, <1>3, <1>4 DEF Acyclic

(* The cells of a loop are what lies between its head and its exit.         *)
LEMMA LoopBounded ==
  ASSUME NEW g, NEW d, NEW s, NEW w, FinishedOrder(g, d, s, w), NEW k \in Cyclic(d)
  PROVE  Bounded(w, Within(g, d, s, k), s.d2i[k], LastOf(s, k))
<1> DEFINE C == Within(g, d, s, k)
<1>1. Tied(g, d, s)
  BY DEF FinishedOrder, Ranked
<1>2. /\ Cells(w) = Indices(s)
      /\ \A l \in s.links : l.from \in Cells(w) /\ l.to \in Cells(w)
      /\ \A c \in Cells(w) : \A b : b \in w.pred[c] <=> \E l \in s.links : l.from = b /\ l.to = c
  BY Waits DEF WaitFacts
<1>3. Around(g, d, s, k)
  BY <1>1, Arounds
<1>4. /\ s.d2i[k] \in C /\ LastOf(s, k) \in C
      /\ \A l \in s.links : l.from \in C /\ l.from # LastOf(s, k) => l.to \in C
      /\ \A c \in C : c # s.d2i[k] => \E l \in s.links : l.to = c /\ l.from \in C
      /\ \A c \in C : c # LastOf(s, k) => \E l \in s.links : l.from = c
  BY <1>3 DEF Around
<1>5. C \subseteq Cells(w)
  BY <1>2 DEF Within
<1> HIDE DEF C
<1>6. \A c \in C : c # s.d2i[k] => w.pred[c] \cap C # {}
  <2> TAKE c \in C
  <2> HAVE c # s.d2i[k]
  <2>1. PICK l \in s.links : l.to = c /\ l.from \in C
    BY <1>4
  <2>2. l.from \in w.pred[c]
    BY <2>1, <1>2, <1>5
  <2> QED  BY <2>1, <2>2
<1>7. \A c \in C : c # LastOf(s, k) => \E b \in C : c \in w.pred[b]
  <2> TAKE c \in C
  <2> HAVE c # LastOf(s, k)
  <2>1. PICK l \in s.links : l.from = c
    BY <1>4
  <2>2. l.to \in C
    BY <2>1, <1>4
  <2>3. c \in w.pred[l.to]
    BY <2>1, <2>2, <1>2, <1>5
  <2> QED  BY <2>2, <2>3
<1>8. \A b \in Cells(w) : b \notin C => w.pred[b] \cap C \subseteq {LastOf(s, k)}
  BY <1>2, <1>4
<1> QED  BY <1>4, <1>5, <1>6, <1>7, <1>8 DEF Bounded, C

------------------------------------------------------------------------------
(* The sizes of the components.                                             *)

(* The sizes of the components.                                             *)

(* The sum of the sizes of disjoint sets is the size of their union.        *)
Counted(S, f, cells) ==
  /\ IsFiniteSet(S)
  /\ \A v \in S : IsFiniteSet(cells[v]) /\ f[v] = Cardinality(cells[v])
  /\ \A u, v \in S : u # v => cells[u] \cap cells[v] = {}

(* What the sets have together.                                             *)
AllOf(cells, S) == UNION {cells[v] : v \in S}

(* The sum of their sizes is the size of their union, by induction over the *)
(* subsets of S.                                                            *)
LEMMA SumOfSizes ==
  ASSUME NEW S, NEW f, NEW cells, Counted(S, f, cells)
  PROVE  IsFiniteSet(AllOf(cells, S)) /\ SumFunctionOnSet(f, S) = Cardinality(AllOf(cells, S))
<1>0. /\ IsFiniteSet(S)
      /\ \A v \in S : IsFiniteSet(cells[v]) /\ f[v] = Cardinality(cells[v])
      /\ \A u, v \in S : u # v => cells[u] \cap cells[v] = {}
  BY DEF Counted
<1>1. \A v \in S : f[v] \in Nat
  BY <1>0, FS_CardinalityType
<1>2. PICK J : PartialSums(J, f, S) /\ SumFunctionOnSet(f, S) = J[S]
  BY <1>0, <1>1, SumFacts
<1> DEFINE All(T) == UNION {cells[v] : v \in T}
           good == {k \in Nat : \A T \in SUBSET S :
                   Cardinality(T) = k => IsFiniteSet(All(T)) /\ J[T] = Cardinality(All(T))}
<1>3. \A T \in SUBSET S : IsFiniteSet(T) /\ Cardinality(T) \in Nat
  BY <1>0, FS_Subset, FS_CardinalityType
<1>4. 0 \in good
  <2>1. ASSUME NEW T \in SUBSET S, Cardinality(T) = 0 PROVE IsFiniteSet(All(T)) /\ J[T] = Cardinality(All(T))
    <3>1. T = {} /\ All(T) = {}
      BY <1>3, <2>1, FS_EmptySet
    <3> QED BY <1>2, <3>1, FS_EmptySet DEF PartialSums
  <2> QED BY <2>1
<1>5. ASSUME NEW k \in good PROVE k + 1 \in good
  <2>0. ASSUME NEW T \in SUBSET S, Cardinality(T) = k + 1
                PROVE IsFiniteSet(All(T)) /\ J[T] = Cardinality(All(T))
    <3>0. k \in Nat /\ k + 1 # 0 /\ (k + 1) - 1 = k
      BY <1>5
    <3>1. T # {}
      BY <2>0, <3>0, FS_EmptySet
    <3>2. PICK x \in T : J[T] = f[x] + J[T \ {x}]
      BY <1>2, <3>1 DEF PartialSums
    <3> DEFINE A == All(T \ {x})
               B == cells[x]
    <3>3. Cardinality(T \ {x}) = k /\ T \ {x} \in SUBSET S
      <4>1. IsFiniteSet(T) /\ x \in T
        BY <1>3
      <4>2. Cardinality(T \ {x}) = Cardinality(T) - 1
        BY <4>1, FS_RemoveElement
      <4> QED BY <2>0, <3>0, <4>2
    <3>4. IsFiniteSet(A) /\ J[T \ {x}] = Cardinality(A)
      BY <1>5, <3>3
    <3>5. IsFiniteSet(B) /\ f[x] = Cardinality(B)
      BY <1>0
    <3>6. A \cap B = {}
      <4>1. \A v \in T \ {x} : cells[v] \cap B = {}
        BY <1>0
      <4> QED BY <4>1
    <3>7. All(T) = A \cup B
      OBVIOUS
    <3> HIDE DEF A, B, All
    <3>8. IsFiniteSet(A \cup B) /\ Cardinality(A \cup B) = Cardinality(A) + Cardinality(B)
      <4>1. Cardinality(A) \in Nat /\ Cardinality(B) \in Nat
        BY <3>4, <3>5, FS_CardinalityType
      <4>2. Cardinality(A \cap B) = 0
        BY <3>6, FS_EmptySet
      <4>3. IsFiniteSet(A \cup B)
            /\ Cardinality(A \cup B) = Cardinality(A) + Cardinality(B) - Cardinality(A \cap B)
        BY <3>4, <3>5, FS_Union
      <4> QED BY <4>1, <4>2, <4>3
    <3>9. Cardinality(A) \in Nat /\ Cardinality(B) \in Nat
      BY <3>4, <3>5, FS_CardinalityType
    <3> QED BY <3>2, <3>4, <3>5, <3>7, <3>8, <3>9
  <2> HIDE DEF All
  <2> QED BY <2>0
<1>6. good = Nat
  <2>1. good \in SUBSET Nat
    OBVIOUS
  <2> HIDE DEF good
  <2> QED BY <1>4, <1>5, <2>1, SetInduction
<1>7. IsFiniteSet(All(S)) /\ J[S] = Cardinality(All(S))
  <2> HIDE DEF All
  <2>1. S \in SUBSET S /\ Cardinality(S) \in good
    BY <1>3, <1>6
  <2> QED BY <2>1
<1> QED BY <1>2, <1>7 DEF AllOf

(* The size of a component is the number of its cells.                      *)
SizesOK(g, d, s) ==
  /\ \A v \in From(g, s.h + 1) : s.size[v] = Cardinality(Within(g, d, s, v))
  /\ \A c \in Indices(s) : s.space[c + 1].size = Cardinality(Within(g, d, s, VertexAt(s, c)))

(* At the beginning there are no cells.                                     *)
LEMMA SizesInit == ASSUME NEW g, NEW d, SearchDone(g, d) PROVE SizesOK(g, d, InitScc(d))
<1>1. Placed(g, d, InitScc(d))
  BY PlacedInit
<1> DEFINE s == InitScc(d)
<1>2. s.h = NumBlocks(g) /\ s.h \in Nat
  <2>0. s.h = Cardinality(DOMAIN d.back)
    BY InitSame
  <2> HIDE DEF s
  <2>1. s.h = Cardinality(DOMAIN d.back) /\ DOMAIN d.back = Numbers(g) /\ NumBlocks(g) \in Nat
    <3>1. Placed(g, d, s)
      BY <1>1 DEF s
    <3> QED  BY <2>0, <3>1, PlacedTypes
  <2>2. Cardinality(1..NumBlocks(g)) = NumBlocks(g)
    <3> DEFINE N == NumBlocks(g)
    <3>1. N \in Nat
      BY <2>1
    <3> HIDE DEF N
    <3>2. Cardinality(1..N) = IF 1 > N THEN 0 ELSE N - 1 + 1
      BY <3>1, FS_Interval
    <3>3. Cardinality(1..N) = N
      BY <3>1, <3>2
    <3> QED  BY <3>3 DEF N
  <2> QED  BY <2>1, <2>2 DEF Numbers
<1>3. s.space = <<>>
  BY DEF InitScc
<1> HIDE DEF s
<1>4. From(g, s.h + 1) = {}
  BY <1>2 DEF From, Numbers
<1>5. Indices(s) = {}
  BY <1>3 DEF Indices
<1>6. SizesOK(g, d, s)
  BY <1>4, <1>5 DEF SizesOK
<1> QED  BY <1>6 DEF s

(* The cells of the other components stay what they are.                    *)
LEMMA WithinKept ==
  ASSUME NEW g, NEW d, NEW s, NEW t, SearchDone(g, d), s.h \in Nat, Enlarged(g, d, s, t), NEW v \in From(g, s.h + 1)
  PROVE  Within(g, d, t, v) = Within(g, d, s, v)
<1>1. s.h \notin LoopOf(g, d, v)
  <2>1. LoopFacts(g, d) /\ v \in Numbers(g) /\ v \in Nat /\ v > s.h
    BY Loops DEF From, Numbers
  <2>2. \A u \in LoopOf(g, d, v) : v <= u
    BY <2>1 DEF LoopFacts
  <2> QED  BY <2>1, <2>2
<1>2. /\ \A c \in Indices(s) : c \in Indices(t) /\ VertexAt(t, c) = VertexAt(s, c)
      /\ \A c \in Indices(t) : c \in Indices(s) \/ VertexAt(t, c) = s.h
  BY DEF Enlarged, VertexAt
<1> QED  BY <1>1, <1>2 DEF Within

(* The cells of the component of h: its own and those of what it merges.    *)
MergedCells(g, d, s, t, R) ==
  /\ Within(g, d, t, s.h) = {t.d2i[s.h], LastOf(t, s.h)} \cup UNION {Within(g, d, s, r) : r \in R}
  /\ \A q, r \in R : q # r => Within(g, d, s, q) \cap Within(g, d, s, r) = {}
  /\ R \subseteq Numbers(g) /\ R \subseteq From(g, s.h + 1)

(* It is so after each turn.                                                *)
LEMMA WithinMerged ==
  ASSUME NEW g, NEW d, NEW s, NEW t, SccOK(g, d, s), Placed(g, d, s), s.h # 0, Enlarged(g, d, s, t), RepStep(g, d, s, t),
         NEW R, R = Nested(d, s.h, s.rep, Restored(d, s.h, s.rep, s.nonback))
  PROVE  MergedCells(g, d, s, t, R)
<1> DEFINE h == s.h
<1>1. SearchDone(g, d) /\ h \in Numbers(g) /\ h \in Nat /\ LoopFacts(g, d)
  BY TryingNow, PlacedTypes, Loops DEF SccOK
<1>2. /\ RootFacts(g, d, h, s.rep) /\ R \subseteq From(g, h + 1)
      /\ \A r \in R : s.rep[r] = r /\ r \in LoopOf(g, d, h)
      /\ \A v \in From(g, h + 1) : v \in LoopOf(g, d, h) => s.rep[v] \in R
  BY DEF RepStep
<1>3. \A v \in From(g, h + 1) : v \in Numbers(g)
  BY DEF From
<1>4. R \subseteq Numbers(g)
  BY <1>2, <1>3
<1>5. /\ \A r \in R : \A v \in Numbers(g) : s.rep[v] = r <=> v \in LoopOf(g, d, r)
      /\ \A v \in From(g, h + 1) : v \in LoopOf(g, d, s.rep[v])
  BY <1>2 DEF RootFacts
<1>6. /\ \A c \in Indices(s) : VertexAt(s, c) \in From(g, h + 1) /\ VertexAt(s, c) \in Numbers(g)
  BY <1>3 DEF Placed, CellsOK
<1>7. /\ \A c \in Indices(s) : c \in Indices(t) /\ VertexAt(t, c) = VertexAt(s, c)
      /\ \A c \in Indices(t) : c \in Indices(s) \/ c = t.d2i[h] \/ c = LastOf(t, h)
      /\ t.d2i[h] \in Indices(t) /\ LastOf(t, h) \in Indices(t)
      /\ VertexAt(t, t.d2i[h]) = h /\ VertexAt(t, LastOf(t, h)) = h
  BY DEF Enlarged, VertexAt
<1>8. h \in LoopOf(g, d, h)
  BY <1>1 DEF LoopFacts
<1>9. \A r \in R : LoopOf(g, d, r) \subseteq LoopOf(g, d, h)
  <2> TAKE r \in R
  <2>1. r \in Numbers(g) /\ r \in LoopOf(g, d, h) /\ r \in LoopOf(g, d, r) /\ h <= r
    BY <1>1, <1>2, <1>4 DEF LoopFacts
  <2> QED  BY <1>1, <2>1 DEF LoopFacts
<1>10. \A v \in From(g, h + 1) : v \in LoopOf(g, d, h) <=> \E r \in R : v \in LoopOf(g, d, r)
  BY <1>2, <1>5, <1>9
<1> HIDE DEF h
<1>11. \A c \in Indices(s) : VertexAt(s, c) \in LoopOf(g, d, h) <=> \E r \in R : c \in Within(g, d, s, r)
  BY <1>6, <1>10 DEF Within
<1>12. \A c : c \in Within(g, d, t, h) <=> c \in {t.d2i[h], LastOf(t, h)} \/ \E r \in R : c \in Within(g, d, s, r)
  <2>1. \A c : (\E r \in R : c \in Within(g, d, s, r)) => c \in Indices(s)
    BY DEF Within
  <2>2. \A c : c \in Within(g, d, t, h) <=> c \in Indices(t) /\ VertexAt(t, c) \in LoopOf(g, d, h)
    BY DEF Within
  <2> QED  BY <2>1, <2>2, <1>7, <1>8, <1>11
<1>13. \A q, r \in R : q # r => Within(g, d, s, q) \cap Within(g, d, s, r) = {}
  BY <1>5, <1>6 DEF Within
<1>14. Within(g, d, t, h) = {t.d2i[h], LastOf(t, h)} \cup UNION {Within(g, d, s, r) : r \in R}
  BY <1>12
<1> QED  BY <1>2, <1>4, <1>13, <1>14 DEF h, MergedCells

------------------------------------------------------------------------------
(* The sizes after each turn.                                               *)

(* The cells that a turn appends are of the component's size.               *)
Sized(g, s, t, z) ==
  /\ z \in Nat /\ t.size = [s.size EXCEPT ![s.h] = z]
  /\ \A c \in Indices(t) : c \in Indices(s) \/ t.space[c + 1].size = z

(* A vertex that heads no loop has one cell.                                *)
LEMMA TrivialSized ==
  ASSUME NEW g, NEW d, NEW s, NEW t, Placed(g, d, s), s.h # 0, TrivialStep(d, s, t)
  PROVE  Sized(g, s, t, 1)
<1> DEFINE e == [vertex |-> s.h, type |-> "plain", size |-> 1]
<1>1. s.space \in Seq(CellSet(g)) /\ s.h \in Numbers(g)
  <2>1. s.h \in Nat /\ s.h <= NumBlocks(g) /\ NumBlocks(g) \in Nat /\ s.space \in Seq(CellSet(g))
    BY PlacedTypes
  <2> QED  BY <2>1 DEF Numbers
<1>2. e \in CellSet(g) /\ e.size = 1
  BY <1>1 DEF CellSet
<1>3. t.space = Append(s.space, e) /\ t.size = [s.size EXCEPT ![s.h] = 1]
  BY DEF TrivialStep
<1> HIDE DEF e
<1>4. /\ Len(t.space) = Len(s.space) + 1 /\ Len(s.space) \in Nat
      /\ t.space[Len(s.space) + 1] = e
  BY <1>1, <1>2, <1>3, AppendFacts
<1>5. ASSUME NEW c \in Indices(t), c \notin Indices(s) PROVE t.space[c + 1].size = 1
  <2>1. c = Len(s.space)
    BY <1>4, <1>5 DEF Indices
  <2> QED  BY <2>1, <1>2, <1>4
<1> QED  BY <1>3, <1>5 DEF Sized

(* A component has a head, an exit, and what it consists of.                *)
LEMMA ComponentSized ==
  ASSUME NEW g, NEW d, NEW s, NEW t, Placed(g, d, s), SccOK(g, d, s), s.h # 0, ComponentStep(d, s, t)
  PROVE  Sized(g, s, t, 2 + SumFunctionOnSet(s.size, Nested(d, s.h, s.rep, Restored(d, s.h, s.rep, s.nonback))))
<1>0. \E z \in Nat : CellsAppended(d, s, t, z)
  BY ComponentTypes
<1>9. PICK z \in Nat : CellsAppended(d, s, t, z)
  BY <1>0
<1>1. /\ z = 2 + SumFunctionOnSet(s.size, Nested(d, s.h, s.rep, Restored(d, s.h, s.rep, s.nonback)))
      /\ t.size = [s.size EXCEPT ![s.h] = z]
      /\ t.space = Append(Append(s.space, [vertex |-> s.h, type |-> "exit", size |-> z]),
                          [vertex |-> s.h, type |-> "head", size |-> z])
  BY <1>9 DEF CellsAppended
<1> DEFINE e == [vertex |-> s.h, type |-> "exit", size |-> z]
           f == [vertex |-> s.h, type |-> "head", size |-> z]
           q == Append(s.space, e)
<1>2. s.space \in Seq(CellSet(g)) /\ s.h \in Numbers(g)
  <2>1. s.h \in Nat /\ s.h <= NumBlocks(g) /\ NumBlocks(g) \in Nat /\ s.space \in Seq(CellSet(g))
    BY PlacedTypes
  <2> QED  BY <2>1 DEF Numbers
<1>3. e \in CellSet(g) /\ f \in CellSet(g) /\ e.size = z /\ f.size = z
  BY <1>2 DEF CellSet
<1>4. t.space = Append(q, f)
  BY <1>1
<1> HIDE DEF e, f
<1>5. /\ q \in Seq(CellSet(g)) /\ Len(q) = Len(s.space) + 1 /\ Len(s.space) \in Nat
      /\ q[Len(s.space) + 1] = e
  BY <1>2, <1>3, AppendFacts
<1> HIDE DEF q
<1>6. /\ Len(t.space) = Len(q) + 1 /\ Len(q) \in Nat
      /\ \A c \in 0..(Len(q) - 1) : t.space[c + 1] = q[c + 1]
      /\ t.space[Len(q) + 1] = f
  BY <1>3, <1>4, <1>5, AppendFacts
<1>7. ASSUME NEW c \in Indices(t), c \notin Indices(s) PROVE t.space[c + 1].size = z
  <2>1. c = Len(s.space) \/ c = Len(q)
    BY <1>5, <1>6, <1>7 DEF Indices
  <2>2. CASE c = Len(s.space)
    <3>1. c \in 0..(Len(q) - 1)
      BY <2>2, <1>5
    <3>2. t.space[c + 1] = e
      BY <3>1, <2>2, <1>5, <1>6
    <3> QED  BY <3>2, <1>3
  <2>3. CASE c = Len(q)
    <3>1. t.space[c + 1] = f
      BY <2>3, <1>6
    <3> QED  BY <3>1, <1>3
  <2> QED  BY <2>1, <2>2, <2>3
<1>8. Sized(g, s, t, z)
  BY <1>1, <1>7 DEF Sized
<1> QED  BY <1>1, <1>8

(* It is the number of the cells of the component of h.                     *)
LEMMA SizeOfHead ==
  ASSUME NEW g, NEW d, NEW s, SccOK(g, d, s), Placed(g, d, s), s.h # 0, SizesOK(g, d, s)
  PROVE  Sized(g, s, SccStep(d, s), Cardinality(Within(g, d, SccStep(d, s), s.h)))
<1> DEFINE t == SccStep(d, s)
           R == Nested(d, s.h, s.rep, Restored(d, s.h, s.rep, s.nonback))
           cells == [r \in R |-> Within(g, d, s, r)]
           U == UNION {Within(g, d, s, r) : r \in R}
<1>1. /\ SearchDone(g, d) /\ Enlarged(g, d, s, t) /\ RepStep(g, d, s, t) /\ IsScc(s)
      /\ s.h \in Numbers(g) /\ s.space \in Seq(CellSet(g))
  BY StepEffect, RepsStepped, TryingNow, PlacedTypes DEF SccOK
<1>2. d.back[s.h] = {} => TrivialStep(d, s, t)
  BY <1>1, TrivialFields
<1>3. d.back[s.h] # {} => ComponentStep(d, s, t)
  BY <1>1, ComponentFields
<1> HIDE DEF t
<1>r. R = Nested(d, s.h, s.rep, Restored(d, s.h, s.rep, s.nonback))
  OBVIOUS
<1> HIDE DEF R
<1>4. /\ Within(g, d, t, s.h) = {t.d2i[s.h], LastOf(t, s.h)} \cup U
      /\ \A q, r \in R : q # r => Within(g, d, s, q) \cap Within(g, d, s, r) = {}
      /\ R \subseteq Numbers(g) /\ R \subseteq From(g, s.h + 1)
  <2>1. MergedCells(g, d, s, t, R)
    BY <1>1, <1>r, WithinMerged
  <2> QED  BY <2>1 DEF MergedCells
<1>5. /\ IsFiniteSet(Indices(s)) /\ IsFiniteSet(Numbers(g))
  <2>1. Len(s.space) \in Nat /\ NumBlocks(g) \in Nat
    BY PlacedTypes
  <2> QED  BY <2>1, FS_Interval DEF Indices, Numbers
<1>6. IsFiniteSet(R) /\ \A r \in R : IsFiniteSet(Within(g, d, s, r)) /\ s.size[r] = Cardinality(Within(g, d, s, r))
  <2>1. \A r \in R : Within(g, d, s, r) \subseteq Indices(s)
    BY DEF Within
  <2>2. \A r \in R : s.size[r] = Cardinality(Within(g, d, s, r))
    BY <1>4 DEF SizesOK
  <2> QED  BY <2>1, <2>2, <1>4, <1>5, FS_Subset
<1>7. IsFiniteSet(U) /\ SumFunctionOnSet(s.size, R) = Cardinality(U)
  <2>1. \A r \in R : IsFiniteSet(cells[r]) /\ s.size[r] = Cardinality(cells[r])
    BY <1>6
  <2>2. \A q, r \in R : q # r => cells[q] \cap cells[r] = {}
    BY <1>4
  <2>3. U = AllOf(cells, R)
    BY DEF AllOf
  <2> HIDE DEF cells, U
  <2>4. Counted(R, s.size, cells)
    BY <2>1, <2>2, <1>6 DEF Counted
  <2> QED  BY <2>3, <2>4, SumOfSizes
<1>8. t.d2i[s.h] \notin U /\ LastOf(t, s.h) \notin U
  <2>1. U \subseteq Indices(s)
    BY DEF Within
  <2>2. t.d2i[s.h] \notin Indices(s) /\ LastOf(t, s.h) \notin Indices(s)
    BY <1>1 DEF Enlarged
  <2> QED  BY <2>1, <2>2
<1>9. CASE d.back[s.h] = {}
  <2>1. R = {} /\ t.exit[s.h] = s.h
    <3>1. s.h \notin Cyclic(d)
      BY <1>9 DEF Cyclic
    <3> QED  BY <3>1, <1>1, <1>r DEF RepStep, Enlarged
  <2>2. U = {}
    BY <2>1
  <2>3. LastOf(t, s.h) = t.d2i[s.h]
    BY <2>1 DEF LastOf
  <2>4. Within(g, d, t, s.h) = {t.d2i[s.h]}
    BY <2>2, <2>3, <1>4
  <2>5. Cardinality(Within(g, d, t, s.h)) = 1
    BY <2>4, FS_Singleton
  <2> QED  BY <2>5, <1>2, <1>9, TrivialSized DEF t
<1>10. CASE d.back[s.h] # {}
  <2>1. LastOf(t, s.h) # t.d2i[s.h]
    <3>1. s.h \in Cyclic(d)
      <4>1. DOMAIN d.back = Numbers(g)
        BY PlacedTypes
      <4> QED  BY <4>1, <1>1, <1>10 DEF Cyclic
    <3>2. LastOf(t, s.h) = t.d2i[s.h] - 1 /\ t.d2i[s.h] = Len(t.space) - 1
      BY <3>1, <1>1 DEF Enlarged
    <3>3. Len(t.space) \in Nat
      <4>1. Placed(g, d, t)
        BY StepEffect DEF t
      <4> QED  BY <4>1, PlacedTypes
    <3> DEFINE i == t.d2i[s.h]
    <3>4. i \in Int
      BY <3>2, <3>3
    <3> HIDE DEF i
    <3>5. LastOf(t, s.h) = i - 1
      BY <3>2 DEF i
    <3>6. LastOf(t, s.h) # i
      BY <3>4, <3>5
    <3> QED  BY <3>6 DEF i
  <2> DEFINE a == t.d2i[s.h]
             b == LastOf(t, s.h)
             n == Cardinality(U)
  <2>2. Within(g, d, t, s.h) = (U \cup {a}) \cup {b}
    BY <1>4
  <2>3. a \notin U /\ b \notin U /\ a # b /\ IsFiniteSet(U) /\ n \in Nat
    BY <2>1, <1>7, <1>8, FS_CardinalityType
  <2> HIDE DEF a, b, U
  <2>4. IsFiniteSet(U \cup {a}) /\ Cardinality(U \cup {a}) = n + 1
    BY <2>3, FS_AddElement
  <2>5. Cardinality((U \cup {a}) \cup {b}) = (n + 1) + 1
    <3> DEFINE W == U \cup {a}
    <3>1. b \notin W /\ IsFiniteSet(W) /\ Cardinality(W) = n + 1
      BY <2>3, <2>4
    <3> HIDE DEF W, n
    <3>2. Cardinality(W \cup {b}) = Cardinality(W) + 1
      BY <3>1, FS_AddElement
    <3> QED  BY <3>1, <3>2 DEF W
  <2>6. Cardinality(Within(g, d, t, s.h)) = 2 + SumFunctionOnSet(s.size, R)
    <3>1. Cardinality(Within(g, d, t, s.h)) = (n + 1) + 1
      BY <2>2, <2>5
    <3>2. SumFunctionOnSet(s.size, R) = n
      BY <1>7
    <3> HIDE DEF n
    <3>3. (n + 1) + 1 = 2 + n
      BY <2>3
    <3> QED  BY <3>1, <3>2, <3>3
  <2>7. Sized(g, s, t, 2 + SumFunctionOnSet(s.size, R))
    BY <1>3, <1>10, <1>r, ComponentSized
  <2> QED  BY <2>6, <2>7 DEF t
<1> QED  BY <1>9, <1>10

(* One turn keeps the sizes.                                                *)
LEMMA SizesStep ==
  ASSUME NEW g, NEW d, NEW s, SccOK(g, d, s), Placed(g, d, s), s.h # 0, SizesOK(g, d, s)
  PROVE  SizesOK(g, d, SccStep(d, s))
<1> DEFINE t == SccStep(d, s)
           z == Cardinality(Within(g, d, t, s.h))
<1>1. /\ SearchDone(g, d) /\ Enlarged(g, d, s, t) /\ Placed(g, d, t) /\ s.h \in Numbers(g) /\ s.h \in Nat
  BY StepEffect, TryingNow, PlacedTypes DEF SccOK
<1>2. Sized(g, s, t, z)
  BY SizeOfHead
<1> HIDE DEF t
<1>3. /\ \A v \in From(g, s.h) : v = s.h \/ v \in From(g, s.h + 1)
      /\ \A v \in From(g, s.h + 1) : v # s.h /\ v \in Numbers(g)
      /\ t.h + 1 = s.h
  <2>1. t.h = s.h - 1
    BY <1>1 DEF Enlarged
  <2> QED  BY <2>1, <1>1, Nearer
<1>4. \A v \in From(g, s.h + 1) : Within(g, d, t, v) = Within(g, d, s, v)
  BY <1>1, WithinKept
<1>5. \A v \in From(g, s.h + 1) : s.size[v] = Cardinality(Within(g, d, s, v))
  BY DEF SizesOK
<1>6. DOMAIN s.size = Numbers(g)
  BY DEF Placed, FieldsOK
<1>7. t.size[s.h] = z /\ \A v \in From(g, s.h + 1) : t.size[v] = s.size[v]
  BY <1>1, <1>2, <1>3, <1>6 DEF Sized
<1>8. \A v \in From(g, t.h + 1) : t.size[v] = Cardinality(Within(g, d, t, v))
  BY <1>3, <1>4, <1>5, <1>7
<1>9. ASSUME NEW c \in Indices(t) PROVE t.space[c + 1].size = Cardinality(Within(g, d, t, VertexAt(t, c)))
  <2>1. CASE c \in Indices(s)
    <3>1. t.space[c + 1] = s.space[c + 1] /\ VertexAt(t, c) = VertexAt(s, c)
      BY <2>1, <1>1 DEF Enlarged, VertexAt
    <3>2. VertexAt(s, c) \in From(g, s.h + 1)
      BY <2>1 DEF Placed, CellsOK
    <3>3. s.space[c + 1].size = Cardinality(Within(g, d, s, VertexAt(s, c)))
      BY <2>1 DEF SizesOK
    <3>4. Within(g, d, t, VertexAt(t, c)) = Within(g, d, s, VertexAt(s, c))
      BY <3>1, <3>2, <1>4
    <3> QED  BY <3>1, <3>3, <3>4
  <2>2. CASE c \notin Indices(s)
    <3>1. t.space[c + 1].size = z
      BY <2>2, <1>2 DEF Sized
    <3>2. VertexAt(t, c) = s.h
      BY <2>2, <1>1 DEF Enlarged
    <3> QED  BY <3>1, <3>2
  <2> QED  BY <2>1, <2>2
<1>10. SizesOK(g, d, t)
  BY <1>8, <1>9 DEF SizesOK
<1> QED  BY <1>10 DEF t

(* The last turn does not change them.                                      *)
LEMMA SizesTop ==
  ASSUME NEW g, NEW d, NEW s, NEW t, SizesOK(g, d, s), TopStep(s, t)
  PROVE  SizesOK(g, d, t)
<1>1. t.space = s.space /\ t.size = s.size /\ t.h = s.h
  BY DEF TopStep
<1>2. \A v : Within(g, d, t, v) = Within(g, d, s, v)
  BY <1>1 DEF Within, Indices, VertexAt
<1>3. Indices(t) = Indices(s) /\ \A c : VertexAt(t, c) = VertexAt(s, c)
  BY <1>1 DEF Indices, VertexAt
<1> QED  BY <1>1, <1>2, <1>3 DEF SizesOK

------------------------------------------------------------------------------
(* The exits that a constraint is counted at.                               *)

(* The outer predecessors.                                                  *)

(* The constraints are records with these fields and no others.             *)
IsLink(l) == l = [from |-> l.from, to |-> l.to, exit |-> l.exit, outer |-> l.outer]

(* So are all that have been added.                                         *)
Recorded(s) == \A l \in s.links : IsLink(l)

(* It is so of those inside of a loop, ...                                  *)
LEMMA InnerLinksRecorded ==
  ASSUME NEW D, NEW exit, NEW rep, NEW origin, NEW R, NEW l \in InnerLinks(D, exit, rep, origin, R)
  PROVE  IsLink(l)
<1>1. PICK v, e : l = InnerLink(D, exit, rep, v, e)
  BY DEF InnerLinks
<1> QED  BY <1>1 DEF InnerLink, IsLink

(* ... and of those to an exit; ...                                         *)
LEMMA ExitLinksRecorded ==
  ASSUME NEW D, NEW from, NEW x, NEW l \in ExitLinks(D, from, x)
  PROVE  IsLink(l)
BY DEF ExitLinks, IsLink

(* ... it stays so when these are added, ...                                *)
LEMMA AddedRecorded ==
  ASSUME NEW s, NEW t, NEW ls, Recorded(s), Added(s.links, ls, t.links), \A l \in ls : IsLink(l)
  PROVE  Recorded(t)
BY DEF Recorded, Added

(* ... from the beginning, ...                                              *)
LEMMA InitRecorded == ASSUME NEW d PROVE Recorded(InitScc(d))
BY DEF Recorded, InitScc

(* ... in each turn, ...                                                    *)
LEMMA StepRecorded ==
  ASSUME NEW g, NEW d, NEW s, NEW t, Turn(g, d, s, t), Recorded(s)
  PROVE  Recorded(t)
<1>1. CASE d.back[s.h] = {}
  BY <1>1 DEF Turn, Recorded
<1>2. CASE d.back[s.h] # {}
  <2>1. ComponentStep(d, s, t)
    BY <1>2 DEF Turn
  <2> DEFINE origin == AlsoInto(d, s.h, s.rep, s.origin)
             R == Nested(d, s.h, s.rep, Restored(d, s.h, s.rep, s.nonback))
             B == Targets(d, s.h, s.rep)
             D == [[s.d2i EXCEPT ![s.next] = Len(s.space)] EXCEPT ![s.h] = Len(s.space) + 1]
             from == IF B = {} THEN {s.h} ELSE {s.exit[v] : v \in B}
             ls == ExitLinks(D, from, s.next) \cup InnerLinks(D, s.exit, s.rep, origin, R)
  <2>2. Added(s.links, ls, t.links)
    BY <2>1 DEF ComponentStep
  <2> HIDE DEF origin, R, B, D, from
  <2>3. \A l \in ls : IsLink(l)
    BY ExitLinksRecorded, InnerLinksRecorded
  <2> HIDE DEF ls
  <2> QED  BY <2>2, <2>3, AddedRecorded
<1> QED  BY <1>1, <1>2

(* ... to the last.                                                         *)
LEMMA TopRecorded ==
  ASSUME NEW s, NEW t, TopStep(s, t), Recorded(s)
  PROVE  Recorded(t)
<1>1. PICK D, exit, rep, origin, R : Added(s.links, InnerLinks(D, exit, rep, origin, R), t.links)
  BY DEF TopStep
<1>2. \A l \in InnerLinks(D, exit, rep, origin, R) : IsLink(l)
  BY InnerLinksRecorded
<1> QED  BY <1>1, <1>2, AddedRecorded

(* The exits from a cell outwards, up to the exit last.                     *)
ExitClimbs(up, parent, last) ==
  up = [h \in DOMAIN parent |-> {h - 1} \cup IF h - 1 = last THEN {} ELSE up[parent[h]]]

(* There is such a function: what the parents lead to, when last ends them. *)
LEMMA ExitClimbExists ==
  ASSUME NEW P, IsFiniteSet(P), NEW parent \in [P -> P], NEW last
  PROVE  \E up : ExitClimbs(up, parent, last)
<1> DEFINE stop == [h \in P |-> IF h - 1 = last THEN h ELSE parent[h]]
<1>1. stop \in [P -> P]
  OBVIOUS
<1>2. PICK all : Climbs(all, stop)
  <2> HIDE DEF stop
  <2> QED  BY <1>1, ClimbExists
<1> DEFINE up == [h \in P |-> {b - 1 : b \in all[h]}]
<1>3. \A h \in P : all[h] = {h} \cup IF stop[h] = h THEN {} ELSE all[stop[h]]
  <2>1. DOMAIN stop = P
    OBVIOUS
  <2> HIDE DEF stop
  <2> QED  BY <2>1, <1>2 DEF Climbs
<1>4. ASSUME NEW h \in P PROVE up[h] = {h - 1} \cup IF h - 1 = last THEN {} ELSE up[parent[h]]
  <2>0. /\ h - 1 = last => stop[h] = h
        /\ h - 1 # last => stop[h] = parent[h]
        /\ parent[h] \in P
    OBVIOUS
  <2> HIDE DEF stop
  <2>1. CASE h - 1 = last
    <3>1. all[h] = {h}
      BY <2>0, <2>1, <1>3
    <3> QED  BY <3>1, <2>1
  <2>2. CASE h - 1 # last /\ parent[h] = h
    <3>1. all[h] = {h}
      BY <2>0, <2>2, <1>3
    <3> QED  BY <3>1, <2>2
  <2>3. CASE h - 1 # last /\ parent[h] # h
    <3>1. all[h] = {h} \cup all[parent[h]]
      BY <2>0, <2>3, <1>3
    <3>2. up[parent[h]] = {b - 1 : b \in all[parent[h]]}
      BY <2>0
    <3>3. up[h] = {h - 1} \cup up[parent[h]]
      BY <3>1, <3>2
    <3> QED  BY <3>3, <2>3
  <2> QED  BY <2>1, <2>2, <2>3
<1>5. up = [h \in P |-> up[h]]
  OBVIOUS
<1> HIDE DEF up
<1>6. up = [h \in P |-> {h - 1} \cup IF h - 1 = last THEN {} ELSE up[parent[h]]]
  BY <1>4, <1>5
<1>7. DOMAIN parent = P
  OBVIOUS
<1> QED  BY <1>6, <1>7 DEF ExitClimbs

(* From a head in the loop of v these are the exits of the loops around it, *)
(* up to that of v, by induction over the heads.                            *)
LEMMA ExitsAlong ==
  ASSUME NEW g, NEW d, NEW s, Tied(g, d, s), NEW v \in Cyclic(d), NEW up, ExitClimbs(up, s.parent, LastOf(s, v)),
         NEW w \in Cyclic(d), w \in LoopOf(g, d, v)
  PROVE  \A x : x \in up[s.d2i[w]] <=> \E k \in Cyclic(d) : v <= k /\ w \in LoopOf(g, d, k) /\ x = LastOf(s, k)
<1> DEFINE good(u) == \A x : x \in up[s.d2i[u]] <=> \E k \in Cyclic(d) : v <= k /\ u \in LoopOf(g, d, k) /\ x = LastOf(s, k)
           T == {u \in Cyclic(d) : u \in LoopOf(g, d, v) /\ ~ good(u)}
<1>1. SUFFICES ASSUME w \in T PROVE FALSE
  OBVIOUS
<1>2. Apart(g, d, s) /\ LoopFacts(g, d) /\ Cyclic(d) \subseteq Numbers(g) /\ Settled(g, d, s) /\ Placed(g, d, s)
  BY TiedApart, TiedCells DEF Tied, Settled
<1>3. /\ \A u \in Numbers(g) : u \in Nat /\ s.d2i[u] \in DOMAIN s.parent
      /\ \A u \in Numbers(g) : s.rep[u] = u => \A k \in Numbers(g) : u \in LoopOf(g, d, k) <=> k = u
      /\ \A u \in Numbers(g) : s.rep[u] # u =>
              \E j \in Numbers(g) : /\ Innermost(g, d, u, j) /\ s.parent[s.d2i[u]] = s.d2i[j]
                                    /\ \A k \in Numbers(g) : u \in LoopOf(g, d, k) <=> k = u \/ j \in LoopOf(g, d, k)
  BY <1>2, RootLoops
<1>4. PICK u \in T : \A j \in T : u <= j
  <2>1. T \in SUBSET Nat /\ T # {}
    BY <1>1, <1>2, <1>3
  <2> HIDE DEF T
  <2> QED  BY <2>1, LeastNatural
<1>5. u \in Cyclic(d) /\ u \in Numbers(g) /\ u \in LoopOf(g, d, v) /\ v \in Numbers(g) /\ u \in Nat /\ v \in Nat
  BY <1>2, <1>3
<1>6. s.d2i[u] - 1 = LastOf(s, u)
  <2>1. From(g, s.h + 1) = Numbers(g)
    BY <1>2, RootLoops
  <2> QED  BY <2>1, <1>2, <1>5 DEF Placed, CellsOK
<1>7. up[s.d2i[u]] = {LastOf(s, u)} \cup IF LastOf(s, u) = LastOf(s, v) THEN {} ELSE up[s.parent[s.d2i[u]]]
  <2>1. up[s.d2i[u]] = {s.d2i[u] - 1} \cup IF s.d2i[u] - 1 = LastOf(s, v) THEN {} ELSE up[s.parent[s.d2i[u]]]
    <3>1. s.d2i[u] \in DOMAIN s.parent
      BY <1>3, <1>5
    <3>2. \A h \in DOMAIN s.parent :
            up[h] = {h - 1} \cup IF h - 1 = LastOf(s, v) THEN {} ELSE up[s.parent[h]]
      BY DEF ExitClimbs
    <3> QED  BY <3>1, <3>2
  <2> QED  BY <2>1, <1>6
<1>8. v <= u /\ u \in LoopOf(g, d, u)
  BY <1>2, <1>5 DEF LoopFacts
<1>9. CASE u = v
  <2>1. up[s.d2i[u]] = {LastOf(s, u)}
    BY <1>7, <1>9
  <2>2. \A k \in Cyclic(d) : v <= k /\ u \in LoopOf(g, d, k) => k = u
    <3> TAKE k \in Cyclic(d)
    <3> HAVE v <= k /\ u \in LoopOf(g, d, k)
    <3>1. k \in Nat /\ k <= u
      BY <1>2, <1>3 DEF LoopFacts
    <3> QED  BY <3>1, <1>5, <1>9
  <2>3. good(u)
    BY <2>1, <2>2, <1>5, <1>8
  <2> QED  BY <2>3, <1>4
<1>10. CASE u # v
  <2>1. LastOf(s, u) # LastOf(s, v)
    BY <1>2, <1>5, <1>10 DEF Apart
  <2>2. s.rep[u] # u
    BY <1>3, <1>5, <1>10
  <2>3. PICK j \in Numbers(g) : /\ Innermost(g, d, u, j) /\ s.parent[s.d2i[u]] = s.d2i[j]
                                /\ \A k \in Numbers(g) : u \in LoopOf(g, d, k) <=> k = u \/ j \in LoopOf(g, d, k)
    BY <1>3, <1>5, <2>2
  <2>4. j < u /\ j \in Cyclic(d) /\ j \in LoopOf(g, d, v) /\ j \in Nat
    BY <2>3, <1>3, <1>5, <1>10 DEF Innermost
  <2>5. good(j)
    <3>1. ASSUME j \in T PROVE FALSE
      <4>1. u <= j
        BY <3>1, <1>4
      <4> QED  BY <4>1, <2>4, <1>5
    <3> QED  BY <3>1, <2>4
  <2>6. up[s.d2i[u]] = {LastOf(s, u)} \cup up[s.d2i[j]]
    BY <1>7, <2>1, <2>3
  <2>7. \A k \in Cyclic(d) : u \in LoopOf(g, d, k) <=> k = u \/ j \in LoopOf(g, d, k)
    BY <2>3, <1>2
  <2>8. good(u)
    BY <2>5, <2>6, <2>7, <1>5, <1>8
  <2> QED  BY <2>8, <1>4
<1> QED  BY <1>9, <1>10

------------------------------------------------------------------------------
(* They are those of the loops that it leads into, ...                      *)

(* The exits that count a constraint to the cell of y: those of the loops   *)
(* around y up to that of v.                                                *)
LEMMA ExitsBetween ==
  ASSUME NEW g, NEW d, NEW s, Tied(g, d, s), NEW v \in Cyclic(d), NEW y \in LoopOf(g, d, v)
  PROVE  \A x : x \in ExitsUpTo(s, s.d2i[y], LastOf(s, v)) <=>
                  \E k \in Cyclic(d) : v <= k /\ y \in LoopOf(g, d, k) /\ x = LastOf(s, k)
<1> DEFINE c == s.d2i[y]
           up == CHOOSE f : ExitClimbs(f, s.parent, LastOf(s, v))
           start == IF s.space[c + 1].type = "head" THEN c ELSE s.parent[c]
<1>1. LoopFacts(g, d) /\ Cyclic(d) \subseteq Numbers(g) /\ Settled(g, d, s) /\ Placed(g, d, s)
  BY TiedCells DEF Tied, Settled
<1>2. /\ From(g, s.h + 1) = Numbers(g) /\ s.parent \in [DOMAIN s.parent -> DOMAIN s.parent] /\ IsFiniteSet(DOMAIN s.parent)
      /\ \A u \in Numbers(g) : u \in Nat /\ s.d2i[u] \in DOMAIN s.parent
      /\ \A u \in Numbers(g) : s.rep[u] = u => \A k \in Numbers(g) : u \in LoopOf(g, d, k) <=> k = u
      /\ \A u \in Numbers(g) : s.rep[u] # u =>
              \E j \in Numbers(g) : /\ Innermost(g, d, u, j) /\ s.parent[s.d2i[u]] = s.d2i[j]
                                    /\ \A k \in Numbers(g) : u \in LoopOf(g, d, k) <=> k = u \/ j \in LoopOf(g, d, k)
  BY <1>1, RootLoops
<1>3. ExitsUpTo(s, c, LastOf(s, v)) = up[start]
  BY DEF ExitsUpTo, ExitClimbs
<1>4. ExitClimbs(up, s.parent, LastOf(s, v))
  BY <1>2, ExitClimbExists
<1> HIDE DEF up
<1>5. y \in Numbers(g) /\ v \in Numbers(g) /\ v <= y
  BY <1>1 DEF LoopFacts
<1>6. \E w \in Cyclic(d) : /\ start = s.d2i[w] /\ w \in LoopOf(g, d, v)
                           /\ \A k \in Cyclic(d) : y \in LoopOf(g, d, k) <=> w \in LoopOf(g, d, k)
  <2>1. CASE y \in Cyclic(d)
    <3>1. TypeAt(s, c) = "head"
      BY <2>1, <1>1, <1>2, <1>5 DEF Placed, CellsOK
    <3>2. start = c
      BY <3>1 DEF TypeAt
    <3> QED  BY <3>2, <2>1
  <2>2. CASE y \notin Cyclic(d)
    <3>1. TypeAt(s, c) = "plain"
      BY <2>2, <1>1, <1>2, <1>5 DEF Placed, CellsOK
    <3>2. start = s.parent[c]
      BY <3>1 DEF TypeAt
    <3>3. y # v
      BY <2>2
    <3>4. s.rep[y] # y
      BY <3>3, <1>2, <1>5
    <3>5. PICK j \in Numbers(g) : /\ Innermost(g, d, y, j) /\ s.parent[s.d2i[y]] = s.d2i[j]
                                  /\ \A k \in Numbers(g) : y \in LoopOf(g, d, k) <=> k = y \/ j \in LoopOf(g, d, k)
      BY <1>2, <1>5, <3>4
    <3>6. j \in Cyclic(d)
      BY <3>5 DEF Innermost
    <3>7. \A k \in Cyclic(d) : y \in LoopOf(g, d, k) <=> j \in LoopOf(g, d, k)
      BY <3>5, <2>2, <1>1
    <3>8. j \in LoopOf(g, d, v)
      BY <3>7
    <3> QED  BY <3>2, <3>5, <3>6, <3>7, <3>8
  <2> QED  BY <2>1, <2>2
<1> HIDE DEF start
<1>7. PICK w \in Cyclic(d) : /\ start = s.d2i[w] /\ w \in LoopOf(g, d, v)
                             /\ \A k \in Cyclic(d) : y \in LoopOf(g, d, k) <=> w \in LoopOf(g, d, k)
  BY <1>6
<1>8. \A x : x \in up[s.d2i[w]] <=> \E k \in Cyclic(d) : v <= k /\ w \in LoopOf(g, d, k) /\ x = LastOf(s, k)
  BY <1>4, <1>7, ExitsAlong
<1> QED  BY <1>3, <1>7, <1>8 DEF c

(* A constraint inside loop j between the components of p and x is counted  *)
(* at the exit of k where it leads into loop k.                             *)
LEMMA EntersLoop ==
  ASSUME NEW g, NEW d, SearchDone(g, d), NEW j \in Levels(g), NEW p \in Numbers(g), NEW x \in Numbers(g),
         Entering(g, d, 0, p, x), Meet(g, d, j, p, x), NEW k \in Cyclic(d)
  PROVE  /\ Group(g, d, j, x) \in Numbers(g) /\ x \in LoopOf(g, d, Group(g, d, j, x))
         /\ x \in LoopOf(g, d, k) =>
              (Group(g, d, j, x) \in Cyclic(d) /\ Group(g, d, j, x) <= k <=> Group(g, d, j, p) \notin LoopOf(g, d, k))
<1> DEFINE v == Group(g, d, j, x)
           u == Group(g, d, j, p)
<1>1. LoopFacts(g, d) /\ GroupFacts(g, d) /\ k \in Numbers(g) /\ DOMAIN d.back = Numbers(g)
  <2>1. DOMAIN d.back = Numbers(g)
    <3>1. d.back \in [Numbers(g) -> SUBSET Numbers(g)]
      BY DEF SearchDone, SearchInv, SearchStates
    <3> QED  BY <3>1
  <2> QED  BY <2>1, Loops, Groups DEF Cyclic
<1>2. j \in Nat /\ k \in Nat /\ p \in Nat /\ x \in Nat
  BY <1>1 DEF GroupFacts
<1>3. /\ j # 0 => p \in LoopOf(g, d, j) /\ x \in LoopOf(g, d, j)
      /\ u # v
  BY DEF Meet
<1>4. j # 0 => j \in Numbers(g)
  BY <1>2 DEF Levels, Numbers
<1>5. x > j
  <2>1. CASE j = 0
    BY <2>1, <1>2 DEF Numbers
  <2>2. CASE j # 0
    <3>1. x # j
      BY <2>2, <1>3, <1>4, EntersAtMeet
    <3>2. j <= x
      BY <2>2, <1>1, <1>3, <1>4 DEF LoopFacts
    <3> QED  BY <3>1, <3>2, <1>2
  <2> QED  BY <2>1, <2>2
<1>6. /\ v \in Numbers(g) /\ u \in Numbers(g) /\ v > j /\ x \in LoopOf(g, d, v)
      /\ Group(g, d, j, u) = u
      /\ \A i \in Numbers(g) : i > j /\ x \in LoopOf(g, d, i) => Group(g, d, j, i) = v
      /\ \A i \in Numbers(g) : i > j => i \in LoopOf(g, d, Group(g, d, j, i))
      /\ \A i \in Numbers(g) : Group(g, d, j, i) <= i
  BY <1>1, <1>5 DEF GroupFacts
<1>7. v \in Nat /\ u \in Nat
  BY <1>6, <1>1 DEF GroupFacts
<1> HIDE DEF u, v
<1>8. ASSUME x \in LoopOf(g, d, k), v \in Cyclic(d), v <= k PROVE u \notin LoopOf(g, d, k)
  <2>1. SUFFICES ASSUME u \in LoopOf(g, d, k) PROVE FALSE
    OBVIOUS
  <2>2. k > j
    BY <1>8, <1>6, <1>7, <1>2
  <2>3. u = k
    <3>1. \/ j # 0 /\ k <= j /\ LoopOf(g, d, j) \subseteq LoopOf(g, d, k)
          \/ k > j /\ Group(g, d, j, p) = k
      BY <1>1, <1>3, <2>1, SourceInLoop DEF u
    <3> QED  BY <3>1, <2>2, <1>2 DEF u
  <2>4. Group(g, d, j, k) = v
    BY <2>2, <1>1, <1>6, <1>8
  <2> QED  BY <2>3, <2>4, <1>3, <1>6
<1>9. ASSUME x \in LoopOf(g, d, k), u \notin LoopOf(g, d, k) PROVE v \in Cyclic(d) /\ v <= k
  <2>1. k > j
    <3>1. SUFFICES ASSUME k <= j PROVE FALSE
      BY <1>2
    <3>2. j # 0
      BY <3>1, <1>1, <1>2 DEF Numbers
    <3>3. LoopOf(g, d, j) \subseteq LoopOf(g, d, k)
      BY <3>1, <3>2, <1>1, <1>3, <1>4, <1>9 DEF LoopFacts
    <3>4. u \in LoopOf(g, d, j)
      BY <3>2, <1>3, <1>4, GroupInLoop DEF u
    <3> QED  BY <3>3, <3>4, <1>9
  <2>2. Group(g, d, j, k) = v
    BY <2>1, <1>1, <1>6, <1>9
  <2>3. v <= k /\ k \in LoopOf(g, d, v)
    BY <2>1, <2>2, <1>1, <1>6
  <2>4. v \in Cyclic(d)
    <3>1. SUFFICES ASSUME v \notin Cyclic(d) PROVE FALSE
      OBVIOUS
    <3>2. LoopOf(g, d, v) = {v}
      BY <3>1, <1>1, <1>6 DEF LoopFacts
    <3> QED  BY <3>1, <3>2, <2>3
  <2> QED  BY <2>3, <2>4
<1> QED  BY <1>6, <1>8, <1>9 DEF u, v

(* So the exit of k counts the constraints that lead into its loop.         *)
LEMMA OuterLinksEnter ==
  ASSUME NEW g, NEW d, NEW s, Tied(g, d, s), NEW k \in Cyclic(d), NEW l \in s.links
  PROVE  l \in OuterLinks(s, LastOf(s, k)) <=> l.to \in Within(g, d, s, k) /\ l.from \notin Within(g, d, s, k)
<1>1. /\ Apart(g, d, s) /\ SearchDone(g, d) /\ LoopFacts(g, d) /\ Cyclic(d) \subseteq Numbers(g)
  BY TiedApart, TiedCells
<1>2. PICK j \in Levels(g), p \in Numbers(g) : LinkCase(g, d, s, l, j, p)
  BY LinkCases
<1>3. /\ l.from \in Indices(s) /\ l.to \in Indices(s) /\ VertexAt(s, l.from) = Group(g, d, j, p)
  BY <1>2 DEF LinkCase
<1>4. CASE \E x \in Numbers(g) : IsInner(g, d, s, j, l, p, x)
  <2>1. PICK x \in Numbers(g) : IsInner(g, d, s, j, l, p, x)
    BY <1>4
  <2> DEFINE v == Group(g, d, j, x)
  <2>2. /\ Entering(g, d, 0, p, x) /\ Meet(g, d, j, p, x) /\ l.to = s.d2i[x]
        /\ l.exit = LastOf(s, v) /\ l.outer = (v \in Cyclic(d))
    BY <2>1 DEF IsInner
  <2>3. /\ v \in Numbers(g) /\ x \in LoopOf(g, d, v)
        /\ x \in LoopOf(g, d, k) => (v \in Cyclic(d) /\ v <= k <=> Group(g, d, j, p) \notin LoopOf(g, d, k))
    BY <2>2, <1>1, EntersLoop
  <2> HIDE DEF v
  <2>4. /\ l.to \in Within(g, d, s, k) <=> x \in LoopOf(g, d, k)
        /\ l.from \in Within(g, d, s, k) <=> Group(g, d, j, p) \in LoopOf(g, d, k)
    <3>1. VertexAt(s, s.d2i[x]) = x
      BY TiedCells
    <3> QED  BY <3>1, <2>2, <1>3 DEF Within
  <2>5. l.outer /\ LastOf(s, k) \in ExitsUpTo(s, l.to, l.exit) <=>
          v \in Cyclic(d) /\ v <= k /\ x \in LoopOf(g, d, k)
    <3>1. CASE v \notin Cyclic(d)
      BY <3>1, <2>2
    <3>2. CASE v \in Cyclic(d)
      <4>1. LastOf(s, k) \in ExitsUpTo(s, s.d2i[x], LastOf(s, v)) <=>
              \E i \in Cyclic(d) : v <= i /\ x \in LoopOf(g, d, i) /\ LastOf(s, k) = LastOf(s, i)
        BY <3>2, <2>3, ExitsBetween
      <4>2. \A i \in Cyclic(d) : LastOf(s, k) = LastOf(s, i) => k = i
        BY <1>1 DEF Apart
      <4> QED  BY <3>2, <4>1, <4>2, <2>2
    <3> QED  BY <3>1, <3>2
  <2> QED  BY <2>3, <2>4, <2>5 DEF OuterLinks
<1>5. CASE j \in Cyclic(d) /\ l.to = LastOf(s, j) /\ l.outer = FALSE
  <2>1. l \notin OuterLinks(s, LastOf(s, k))
    BY <1>5 DEF OuterLinks
  <2>2. l.from \in Within(g, d, s, j)
    BY <1>5, ExitWaitsWithin
  <2>3. ASSUME l.to \in Within(g, d, s, k) PROVE l.from \in Within(g, d, s, k)
    <3>1. j \in Numbers(g) /\ VertexAt(s, LastOf(s, j)) = j
      BY <1>1, <1>5, TiedCells
    <3>2. j \in LoopOf(g, d, k)
      BY <3>1, <2>3, <1>5 DEF Within
    <3>3. k <= j /\ j \in LoopOf(g, d, j)
      BY <3>1, <3>2, <1>1 DEF LoopFacts
    <3>4. LoopOf(g, d, j) \subseteq LoopOf(g, d, k)
      BY <3>1, <3>2, <3>3, <1>1 DEF LoopFacts
    <3> QED  BY <3>4, <2>2 DEF Within
  <2> QED  BY <2>1, <2>3
<1> QED  BY <1>2, <1>4, <1>5 DEF LinkCase

------------------------------------------------------------------------------
(* ... and it is counted once.                                              *)

(* A constraint that an exit counts is the only one between its cells.      *)
LEMMA CountedOnce ==
  ASSUME NEW g, NEW d, NEW s, Tied(g, d, s), Recorded(s), NEW l \in s.links, NEW m \in s.links,
         l.outer, m.outer, l.from = m.from, l.to = m.to
  PROVE  l = m
<1>1. /\ Apart(g, d, s) /\ SearchDone(g, d) /\ GroupFacts(g, d) /\ MeetFacts(g, d) /\ NumBlocks(g) \in Nat
  BY TiedApart, TiedCells
<1>2. PICK j \in Levels(g), p \in Numbers(g) : LinkCase(g, d, s, l, j, p)
  BY LinkCases
<1>3. PICK i \in Levels(g), q \in Numbers(g) : LinkCase(g, d, s, m, i, q)
  BY LinkCases
<1>4. PICK x \in Numbers(g) : IsInner(g, d, s, j, l, p, x)
  BY <1>2 DEF LinkCase
<1>5. PICK y \in Numbers(g) : IsInner(g, d, s, i, m, q, y)
  BY <1>3 DEF LinkCase
<1>6. x = y
  <2>1. s.d2i[x] = s.d2i[y]
    BY <1>4, <1>5 DEF IsInner
  <2> QED  BY <2>1, <1>1 DEF Apart
<1> DEFINE u == VertexAt(s, l.from)
<1>7. ASSUME NEW h \in Levels(g), NEW a \in Numbers(g), h # 0 => a \in LoopOf(g, d, h), u = Group(g, d, h, a),
             Meet(g, d, h, a, x)
      PROVE  u \in Numbers(g) /\ Meet(g, d, h, u, x)
  <2>1. u \in Numbers(g) /\ Group(g, d, h, u) = Group(g, d, h, a)
    BY <1>1, <1>7 DEF GroupFacts
  <2>2. h # 0 => u \in LoopOf(g, d, h)
    <3>1. h # 0 => h \in Numbers(g)
      BY <1>1 DEF Levels, Numbers
    <3> QED  BY <3>1, <1>1, <1>7, GroupInLoop
  <2> QED  BY <2>1, <2>2, <1>1, <1>7 DEF MeetFacts
<1>8. u \in Numbers(g) /\ Meet(g, d, j, u, x)
  BY <1>2, <1>4, <1>7 DEF LinkCase, IsInner
<1>9. Meet(g, d, i, u, x)
  BY <1>3, <1>5, <1>6, <1>7 DEF LinkCase, IsInner
<1> HIDE DEF u
<1>10. i = j
  BY <1>1, <1>8, <1>9 DEF MeetFacts
<1>11. l.exit = m.exit /\ l.outer = m.outer
  BY <1>4, <1>5, <1>6, <1>10 DEF IsInner
<1>12. IsLink(l) /\ IsLink(m)
  BY DEF Recorded
<1> QED  BY <1>11, <1>12 DEF IsLink

(* As many constraints are counted as cells are waited for.                 *)
LEMMA CountIsExact ==
  ASSUME NEW g, NEW d, NEW s, NEW w, FinishedOrder(g, d, s, w), Recorded(s), NEW k \in Cyclic(d),
         NEW c \in Within(g, d, s, k), NEW A, A = {l \in OuterLinks(s, LastOf(s, k)) : l.to = c}
  PROVE  Cardinality(A) = Cardinality(w.pred[c] \ Within(g, d, s, k))
<1> DEFINE C == Within(g, d, s, k)
           B == w.pred[c] \ C
           F == [b \in B |-> CHOOSE l \in A : l.from = b]
<1>1. Tied(g, d, s)
  BY DEF FinishedOrder, Ranked
<1>2. /\ Cells(w) = Indices(s) /\ IsFiniteSet(Cells(w))
      /\ \A l \in s.links : l.from \in Cells(w) /\ l.to \in Cells(w)
      /\ \A e \in Cells(w) : \A b : b \in w.pred[e] <=> \E l \in s.links : l.from = b /\ l.to = e
  BY Waits DEF WaitFacts
<1>3. c \in Cells(w)
  BY <1>2 DEF Within
<1>4. \A l : l \in A <=> l \in s.links /\ l.to = c /\ l.from \notin C
  <2>1. \A l \in s.links : l \in OuterLinks(s, LastOf(s, k)) <=> l.to \in C /\ l.from \notin C
    BY <1>1, OuterLinksEnter
  <2>2. \A l \in OuterLinks(s, LastOf(s, k)) : l \in s.links
    BY DEF OuterLinks
  <2> HIDE DEF C
  <2> QED  BY <2>1, <2>2 DEF C
<1>5. \A l \in A : l.outer
  BY DEF OuterLinks
<1>6. \A l, m \in A : l.from = m.from => l = m
  BY <1>1, <1>4, <1>5, CountedOnce
<1> HIDE DEF C
<1>7. \A b \in B : \E l \in A : l.from = b
  BY <1>2, <1>3, <1>4
<1>8. \A l \in A : l.from \in B
  BY <1>2, <1>3, <1>4
<1>9. IsFiniteSet(B)
  <2>1. B \subseteq Cells(w)
    BY <1>2, <1>3
  <2> HIDE DEF B
  <2> QED  BY <2>1, <1>2, FS_Subset
<1> HIDE DEF B
<1>10. \A b \in B : F[b] \in A /\ F[b].from = b
  BY <1>7
<1>11. DOMAIN F = B /\ F \in [B -> A]
  BY <1>10
<1> HIDE DEF F
<1>12. F \in Bijection(B, A)
  <2>1. \A a, b \in B : F[a] = F[b] => a = b
    BY <1>10
  <2>2. \A l \in A : \E b \in B : F[b] = l
    BY <1>6, <1>8, <1>10
  <2> QED  BY <1>11, <2>1, <2>2 DEF Bijection, Injection, Surjection, IsInjective
<1>13. ExistsBijection(B, A)
  BY <1>12 DEF ExistsBijection
<1>14. Cardinality(A) = Cardinality(B)
  BY <1>9, <1>13, FS_Bijection
<1> QED  BY <1>14 DEF B, C

(* So get_predecessors_outer counts, for each exit and cell, the            *)
(* predecessors that are outside of the component.                          *)
LEMMA OuterCounted ==
  ASSUME NEW g, NEW d, NEW s, NEW w, FinishedOrder(g, d, s, w), Recorded(s)
  PROVE  OuterPredsExact(w)
<1>1. Tied(g, d, s) /\ FinishedCells(g, d, s, w) /\ FinishedLinks(s, w) /\ Settled(g, d, s)
  BY DEF FinishedOrder, Ranked, Tied
<1>2. /\ Cells(w) = Indices(s)
      /\ \A l \in s.links : l.from \in Cells(w) /\ l.to \in Cells(w)
      /\ \A c \in Cells(w) : \A b : b \in w.pred[c] <=> \E l \in s.links : l.from = b /\ l.to = c
  BY Waits DEF WaitFacts
<1>3. ASSUME NEW x \in Exits(w)
      PROVE  /\ DOMAIN w.outer[x] = {c \in w.comp[x] : w.pred[c] \ w.comp[x] # {}}
             /\ \A c \in DOMAIN w.outer[x] : w.outer[x][c] = Cardinality(w.pred[c] \ w.comp[x])
  <2>1. PICK k \in Numbers(g) : k \in Cyclic(d) /\ x = LastOf(s, k)
    BY <1>1, LoopCells
  <2> DEFINE C == Within(g, d, s, k)
             O == OuterLinks(s, x)
  <2>2. w.comp[x] = C
    BY <1>1, <2>1, LoopCells
  <2>3. \A l : l \in O <=> l \in s.links /\ l.to \in C /\ l.from \notin C
    <3>1. \A l \in s.links : l \in OuterLinks(s, LastOf(s, k)) <=> l.to \in Within(g, d, s, k) /\ l.from \notin Within(g, d, s, k)
      BY <1>1, <2>1, OuterLinksEnter
    <3>2. \A l \in O : l \in s.links
      BY DEF OuterLinks
    <3> HIDE DEF C
    <3>3. O = OuterLinks(s, LastOf(s, k))
      BY <2>1
    <3> HIDE DEF O
    <3> QED  BY <3>1, <3>2, <3>3 DEF C
  <2>4. w.outer[x] = [c \in {l.to : l \in O} |-> Cardinality({l \in O : l.to = c})]
    <3>1. x \in {c \in Indices(s) : TypeAt(s, c) = "exit"}
      <4>1. w.type = [c \in Indices(s) |-> TypeAt(s, c)]
        BY <1>1 DEF FinishedCells
      <4> QED  BY <4>1, <1>2 DEF Exits
    <3> QED  BY <3>1, <1>1 DEF FinishedLinks
  <2>5. C \subseteq Cells(w)
    BY <1>2 DEF Within
  <2> HIDE DEF C, O
  <2>6. {l.to : l \in O} = {c \in C : w.pred[c] \ C # {}}
    <3>1. \A l \in O : l.to \in C /\ l.from \in w.pred[l.to] /\ l.from \notin C
      BY <2>3, <2>5, <1>2
    <3>2. \A c \in C : w.pred[c] \ C # {} => \E l \in O : l.to = c
      BY <2>3, <2>5, <1>2
    <3> QED  BY <3>1, <3>2
  <2>7. ASSUME NEW c \in C PROVE Cardinality({l \in O : l.to = c}) = Cardinality(w.pred[c] \ C)
    <3>1. {l \in O : l.to = c} = {l \in OuterLinks(s, LastOf(s, k)) : l.to = c}
      BY <2>1 DEF O
    <3> QED  BY <3>1, <2>1, CountIsExact DEF C
  <2>8. DOMAIN w.outer[x] = {c \in C : w.pred[c] \ C # {}}
    BY <2>4, <2>6
  <2>9. \A c \in DOMAIN w.outer[x] : w.outer[x][c] = Cardinality(w.pred[c] \ C)
    BY <2>4, <2>6, <2>7
  <2> QED  BY <2>2, <2>8, <2>9
<1> QED  BY <1>3 DEF OuterPredsExact

------------------------------------------------------------------------------
(* The parts of the contract: components, cells and blocks, ...             *)

(* The parts of the contract.                                               *)

(* Components are what lies between their heads and exits, of the size that *)
(* is stored, and nested or apart.                                          *)
LEMMA LoopsNested ==
  ASSUME NEW g, NEW d, NEW s, NEW w, FinishedOrder(g, d, s, w), SizesOK(g, d, s)
  PROVE  ComponentsNested(w)
<1>1. Tied(g, d, s) /\ FinishedCells(g, d, s, w) /\ FinishedLinks(s, w) /\ Settled(g, d, s)
  BY DEF FinishedOrder, Ranked, Tied
<1>2. /\ Cells(w) = Indices(s)
      /\ \A l \in s.links : l.from \in Cells(w) /\ l.to \in Cells(w)
      /\ \A c \in Cells(w) : \A b : b \in w.pred[c] <=> \E l \in s.links : l.from = b /\ l.to = c
      /\ \A c \in Cells(w) : \A b : b \in w.succ[c] <=> \E l \in s.links : l.from = c /\ l.to = b
  BY Waits DEF WaitFacts
<1>3. \A h \in Heads(w) : ExitOfHead(h) \in Exits(w)
  <2> TAKE h \in Heads(w)
  <2>1. PICK k \in Numbers(g) : k \in Cyclic(d) /\ h = s.d2i[k]
    BY <1>1, LoopCells
  <2>2. LastOf(s, k) \in Exits(w) /\ ExitOfHead(s.d2i[k]) = LastOf(s, k)
    BY <1>1, <2>1, LoopCells
  <2> QED  BY <2>1, <2>2
<1>4. ASSUME NEW x \in Exits(w), NEW h, h = HeadOfExit(x), NEW C, C = w.comp[x]
      PROVE  /\ h \in Heads(w)
             /\ C = Component(w, x)
             /\ w.node[h] = w.node[x]
             /\ w.size[h] = Cardinality(C) /\ w.size[x] = Cardinality(C)
             /\ h \in C /\ x \in C
             /\ w.pred[x] \subseteq C \ {x}
             /\ w.pred[h] \cap C = {}
             /\ \A c \in C \ {h} : w.pred[c] \cap C # {}
             /\ \A c \in C \ {x} : w.succ[c] \subseteq C
  <2>1. PICK k \in Numbers(g) : k \in Cyclic(d) /\ x = LastOf(s, k)
    BY <1>1, LoopCells
  <2>2. /\ h \in Heads(w) /\ h = s.d2i[k] /\ w.node[h] = w.node[x] /\ C = Within(g, d, s, k)
    BY <1>1, <1>4, <2>1, LoopCells
  <2>3. C = Component(w, x)
    <3>1. Bounded(w, C, h, x)
      BY <2>1, <2>2, LoopBounded
    <3>2. Acyclic(w)
      BY LinksAcyclic
    <3> DEFINE before == Before(w)
    <3>3. C = {c \in Cells(w) : (c = h \/ h \in before[c]) /\ (c = x \/ c \in before[x])}
      BY <3>1, <3>2, BetweenBounds
    <3> QED  BY <3>3, <1>4 DEF Component
  <2>4. /\ h \in Indices(s) /\ x \in Indices(s) /\ VertexAt(s, h) = k /\ VertexAt(s, x) = k
    BY <1>1, <2>1, <2>2, TiedCells
  <2>5. w.size[h] = Cardinality(C) /\ w.size[x] = Cardinality(C)
    <3>1. \A c \in Indices(s) : w.size[c] = s.space[c + 1].size
      BY <1>1 DEF FinishedCells
    <3>2. \A c \in Indices(s) : s.space[c + 1].size = Cardinality(Within(g, d, s, VertexAt(s, c)))
      BY DEF SizesOK
    <3> QED  BY <2>2, <2>4, <3>1, <3>2
  <2>6. Around(g, d, s, k)
    BY <1>1, <2>1, Arounds
  <2>7. /\ h \in C /\ x \in C
        /\ \A l \in s.links : l.from \in C /\ l.from # x => l.to \in C
        /\ \A l \in s.links : l.to = x => l.from \in C /\ l.from # x
        /\ \A l \in s.links : l.to = h => l.from \notin C
        /\ \A c \in C : c # h => \E l \in s.links : l.to = c /\ l.from \in C
    BY <2>1, <2>2, <2>6 DEF Around
  <2>8. C \subseteq Cells(w)
    BY <1>2, <2>2 DEF Within
  <2>9. w.pred[x] \subseteq C \ {x} /\ w.pred[h] \cap C = {}
    BY <1>2, <2>7, <2>8
  <2>10. \A c \in C \ {h} : w.pred[c] \cap C # {}
    <3> TAKE c \in C \ {h}
    <3>1. PICK l \in s.links : l.to = c /\ l.from \in C
      BY <2>7
    <3>2. l.from \in w.pred[c]
      BY <3>1, <1>2, <2>8
    <3> QED  BY <3>1, <3>2
  <2>11. \A c \in C \ {x} : w.succ[c] \subseteq C
    BY <1>2, <2>7, <2>8
  <2> QED  BY <2>2, <2>3, <2>5, <2>7, <2>9, <2>10, <2>11
<1> QED  BY <1>3, <1>4 DEF ComponentsNested

(* Cells are numbered from 0; the entry has the last number.                *)
LEMMA CellsAreNumbered ==
  ASSUME NEW g, NEW d, NEW s, NEW w, FinishedOrder(g, d, s, w)
  PROVE  CellsNumbered(w) /\ GetEntry(w) = Len(s.space) - 1 /\ Len(s.space) \in Nat
<1>1. Tied(g, d, s) /\ FinishedCells(g, d, s, w) /\ Placed(g, d, s)
  BY DEF FinishedOrder, Ranked, Tied, Settled
<1>2. Cells(w) = Indices(s) /\ IsFiniteSet(Cells(w))
  BY Waits DEF WaitFacts
<1>3. s.space \in Seq(CellSet(g)) /\ Len(s.space) \in Nat
  BY <1>1, PlacedTypes
<1>4. GetEntry(w) = Len(s.space) - 1
  <2> DEFINE n == Len(s.space)
  <2>1. n \in Nat
    BY <1>3
  <2> HIDE DEF n
  <2>2. Cardinality(0..(n - 1)) = n
    <3>1. Cardinality(0..(n - 1)) = IF 0 > n - 1 THEN 0 ELSE (n - 1) - 0 + 1
      <4>1. n - 1 \in Int /\ 0 \in Int
        BY <2>1
      <4> QED  BY <4>1, FS_Interval
    <3> QED  BY <3>1, <2>1
  <2> QED  BY <1>2, <2>2 DEF GetEntry, Indices, n
<1>5. \A c \in Cells(w) : w.type[c] \in {"plain", "head", "exit"}
  <2> TAKE c \in Cells(w)
  <2>1. s.space[c + 1] \in CellSet(g)
    <3>1. c + 1 \in 1..Len(s.space)
      BY <1>2, <1>3 DEF Indices
    <3> QED  BY <3>1, <1>3
  <2>2. w.type[c] = s.space[c + 1].type
    BY <1>1, <1>2 DEF FinishedCells, TypeAt
  <2> QED  BY <2>1, <2>2 DEF CellSet
<1> QED  BY <1>2, <1>3, <1>4, <1>5 DEF CellsNumbered, Indices

(* Each block has one cell, and the exits have those of their heads.        *)
LEMMA BlocksAreCovered ==
  ASSUME NEW g, NEW d, NEW s, NEW w, FinishedOrder(g, d, s, w)
  PROVE  BlocksCovered(w, g)
<1>1. Settled(g, d, s) /\ FinishedCells(g, d, s, w) /\ RootOK(g, d) /\ AllReached(g) /\ Tied(g, d, s)
  BY DEF FinishedOrder, Ranked, Tied, Posted
<1>2. /\ \A c \in Cells(w) : w.node[c] \in g.node
      /\ \A n \in g.node : CellOf(w, n) = s.d2i[d.dfn[n]] /\ d.dfn[n] \in Numbers(g)
           /\ \A c \in Cells(w) : w.node[c] = n /\ w.type[c] # "exit" <=> c = s.d2i[d.dfn[n]]
  BY <1>1, CellOfBlock
<1>3. Cells(w) = Indices(s) /\ \A v \in Numbers(g) : s.d2i[v] \in Indices(s)
  BY <1>1, Waits, TiedCells DEF WaitFacts
<1>4. ASSUME NEW n \in g.node
      PROVE  /\ CellOf(w, n) \in Cells(w) \ Exits(w)
             /\ w.node[CellOf(w, n)] = n
             /\ \A c \in Cells(w) \ Exits(w) : w.node[c] = n => c = CellOf(w, n)
  <2> DEFINE e == CellOf(w, n)
  <2>1. e \in Cells(w) /\ \A c \in Cells(w) : w.node[c] = n /\ w.type[c] # "exit" <=> c = e
    BY <1>2, <1>3
  <2> HIDE DEF e
  <2> QED  BY <2>1 DEF Exits, e
<1> QED  BY <1>2, <1>4 DEF BlocksCovered

(* If no block leads to the entry, no edge leads to the vertex numbered 1.  *)
LEMMA NoEdgeToFirst ==
  ASSUME NEW g, NEW d, SearchDone(g, d), RootOK(g, d), EntryUntargeted(g)
  PROVE  1 \in Numbers(g) => \A a : ~ IsEdge(g, d, a, 1)
<1>1. /\ IsGraph(g) /\ NumberingOK(g, d)
  BY DEF SearchDone, SearchInv
<1>2. d.dfn[g.entry] = 1
  <2>1. d.next # 1
    <3>1. d.next = 1 => d.stack # <<>>
      BY DEF SearchDone, SearchInv, StackOK
    <3> QED  BY <3>1 DEF SearchDone
  <2> QED  BY <2>1 DEF RootOK
<1>3. ASSUME NEW a, IsEdge(g, d, a, 1) PROVE FALSE
  <2>1. PICK m \in g.node : \E n \in CfgSucc(g, m) : d.dfn[n] = 1
    BY <1>3 DEF IsEdge
  <2>2. PICK n \in CfgSucc(g, m) : d.dfn[n] = 1
    BY <2>1
  <2>3. n \in g.node
    BY <1>1 DEF IsGraph, CfgSucc
  <2>4. n = g.entry
    BY <1>1, <1>2, <2>2, <2>3 DEF NumberingOK, IsGraph
  <2> QED  BY <2>2, <2>4 DEF EntryUntargeted
<1> QED  BY <1>3

------------------------------------------------------------------------------
(* ... the entry, ...                                                       *)

(* What the search follows are edges.                                       *)
LEMMA EnteringIsEdge ==
  ASSUME NEW g, NEW d, SearchDone(g, d), NEW p \in Numbers(g), NEW x \in Numbers(g), Entering(g, d, 0, p, x)
  PROVE  IsEdge(g, d, p, x)
<1>1. CASE p \in d.nonback[x]
  BY <1>1, Ancestors
<1>2. CASE \E l \in Numbers(g) : <<p, x>> \in d.cross[l]
  BY <1>2, EdgeKinds
<1> QED  BY <1>1, <1>2 DEF Entering

(* The cell of the entry waits for none.                                    *)
LEMMA FirstNotEntered ==
  ASSUME NEW g, NEW d, NEW s, Tied(g, d, s), RootOK(g, d), EntryUntargeted(g)
  PROVE  /\ 1 \in Numbers(g) /\ 1 \notin Cyclic(d)
         /\ \A l \in s.links : l.to # s.d2i[1]
<1>1. /\ SearchDone(g, d) /\ Apart(g, d, s) /\ Cyclic(d) \subseteq Numbers(g) /\ Placed(g, d, s)
  BY TiedApart, TiedCells DEF Tied, Settled
<1>2. 1 \in Numbers(g)
  <2>1. NumBlocks(g) \in Nat /\ NumBlocks(g) >= 1
    BY <1>1, PlacedTypes
  <2> QED  BY <2>1 DEF Numbers
<1>3. \A a : ~ IsEdge(g, d, a, 1)
  BY <1>1, <1>2, NoEdgeToFirst
<1>4. 1 \notin Cyclic(d)
  <2>1. SUFFICES ASSUME 1 \in Cyclic(d) PROVE FALSE
    OBVIOUS
  <2>2. PICK a : a \in d.back[1]
    BY <2>1 DEF Cyclic
  <2>3. a \in Numbers(g)
    <3>1. d.back \in [Numbers(g) -> SUBSET Numbers(g)]
      BY <1>1 DEF SearchDone, SearchInv, SearchStates
    <3> QED  BY <3>1, <1>2, <2>2
  <2>4. IsEdge(g, d, a, 1)
    BY <1>1, <1>2, <2>2, <2>3, EdgeKinds
  <2> QED  BY <2>4, <1>3
<1>5. ASSUME NEW l \in s.links, l.to = s.d2i[1] PROVE FALSE
  <2>1. PICK j \in Levels(g), p \in Numbers(g) : LinkCase(g, d, s, l, j, p)
    BY <1>1, LinkCases
  <2>2. CASE \E x \in Numbers(g) : IsInner(g, d, s, j, l, p, x)
    <3>1. PICK x \in Numbers(g) : IsInner(g, d, s, j, l, p, x)
      BY <2>2
    <3>2. x = 1
      BY <3>1, <1>1, <1>2, <1>5 DEF IsInner, Apart
    <3>3. IsEdge(g, d, p, 1)
      BY <3>1, <3>2, <1>1, EnteringIsEdge DEF IsInner
    <3> QED  BY <3>3, <1>3
  <2>3. CASE j \in Cyclic(d) /\ l.to = LastOf(s, j)
    <3>1. j = 1
      BY <2>3, <1>1, <1>2, <1>5 DEF Apart
    <3> QED  BY <3>1, <2>3, <1>4
  <2> QED  BY <2>1, <2>2, <2>3 DEF LinkCase
<1> QED  BY <1>2, <1>4, <1>5

(* Every other cell waits.                                                  *)
LEMMA OthersEntered ==
  ASSUME NEW g, NEW d, NEW s, Ranked(g, d, s), NEW c \in Indices(s), c # s.d2i[1]
  PROVE  \E l \in s.links : l.to = c
<1>0. Tied(g, d, s) /\ RootOK(g, d) /\ AllReached(g)
  BY DEF Ranked, Posted
<1>1. /\ SearchDone(g, d) /\ LoopFacts(g, d) /\ MeetFacts(g, d) /\ NumBlocks(g) \in Nat
  BY <1>0, TiedCells
<1>2. PICK v \in Numbers(g) : VertexAt(s, c) = v /\ (c = s.d2i[v] \/ (v \in Cyclic(d) /\ c = LastOf(s, v)))
  BY <1>0, TiedCells
<1>3. CASE v \in Cyclic(d) /\ c = LastOf(s, v)
  <2>1. Around(g, d, s, v)
    BY <1>0, <1>3, Arounds
  <2>2. LastOf(s, v) \in Within(g, d, s, v) /\ LastOf(s, v) # s.d2i[v]
    BY <2>1, <1>0, <1>3, TiedCells DEF Around
  <2> QED  BY <2>1, <2>2, <1>3 DEF Around
<1>4. CASE c = s.d2i[v]
  <2>1. v # 1
    BY <1>4
  <2>2. PICK p \in Numbers(g) : p \in d.nonback[v] /\ p < v
    <3>1. TreeOK(g, d) /\ Seen(d) \subseteq Numbers(g)
      BY <1>1, SeenBlocks DEF SearchDone, SearchInv
    <3>2. v \in Seen(d)
      BY <1>0, <1>1, AllBlocks
    <3>3. \E p \in Seen(d) : p < v /\ d.nonback[v] = {p}
      BY <3>1, <3>2, <2>1 DEF TreeOK
    <3> QED  BY <3>1, <3>3
  <2>3. Entering(g, d, 0, p, v) /\ p # v
    BY <2>2 DEF Entering, Numbers
  <2>4. PICK k \in Levels(g) : Meet(g, d, k, p, v)
    BY <2>3, <1>1 DEF MeetFacts
  <2>5. InnerThere(g, d, s, k)
    <3>1. k \in 0..NumBlocks(g)
      BY DEF Levels
    <3> QED  BY <3>1, <1>0 DEF Tied, LinksOK
  <2>6. Has(s, Source(g, d, s, k, p), s.d2i[v])
    BY <2>3, <2>4, <2>5 DEF InnerThere
  <2> QED  BY <2>6, <1>4 DEF Has
<1> QED  BY <1>2, <1>3, <1>4

(* It is the only one that does not wait.                                   *)
LEMMA EntryIsFirst ==
  ASSUME NEW g, NEW d, NEW s, NEW w, FinishedOrder(g, d, s, w), EntryUntargeted(g)
  PROVE  EntryFirst(w, g)
<1>1. /\ Ranked(g, d, s) /\ Tied(g, d, s) /\ Settled(g, d, s) /\ Placed(g, d, s) /\ s.h = 0
      /\ RootOK(g, d) /\ AllReached(g) /\ FinishedCells(g, d, s, w)
  BY DEF FinishedOrder, Ranked, Tied, Settled, Posted
<1>2. /\ Cells(w) = Indices(s)
      /\ \A l \in s.links : l.from \in Cells(w) /\ l.to \in Cells(w)
      /\ \A c \in Cells(w) : \A b : b \in w.pred[c] <=> \E l \in s.links : l.from = b /\ l.to = c
  BY Waits DEF WaitFacts
<1>3. /\ 1 \in Numbers(g) /\ 1 \notin Cyclic(d)
      /\ \A l \in s.links : l.to # s.d2i[1]
  BY <1>1, FirstNotEntered
<1>4. GetEntry(w) = s.d2i[1]
  <2>1. GetEntry(w) = Len(s.space) - 1
    BY CellsAreNumbered
  <2>2. s.h < NumBlocks(g)
    <3>1. NumBlocks(g) \in Nat /\ NumBlocks(g) >= 1
      BY <1>1, PlacedTypes
    <3> QED  BY <3>1, <1>1
  <2>3. s.d2i[s.h + 1] = Len(s.space) - 1
    BY <2>2, <1>1 DEF Placed, CellsOK
  <2>4. s.h + 1 = 1
    BY <1>1
  <2> QED  BY <2>1, <2>3, <2>4
<1>5. s.d2i[1] \in Indices(s) /\ VertexAt(s, s.d2i[1]) = 1
  BY <1>1, <1>3, TiedCells
<1>6. w.node[s.d2i[1]] = g.entry
  <2>1. w.node[s.d2i[1]] = BlockOf(g, d, 1)
    BY <1>1, <1>5 DEF FinishedCells
  <2>2. SearchDone(g, d)
    BY <1>1, TiedCells
  <2>3. d.dfn[g.entry] = 1
    <3>1. d.next # 1
      <4>1. d.next = 1 => d.stack # <<>>
        BY <2>2 DEF SearchDone, SearchInv, StackOK
      <4> QED  BY <4>1, <2>2 DEF SearchDone
    <3> QED  BY <3>1, <1>1 DEF RootOK
  <2>4. g.entry \in g.node
    BY <2>2 DEF SearchDone, IsGraph
  <2>5. BlockOf(g, d, d.dfn[g.entry]) = g.entry
    BY <2>2, <2>4, <1>1, AllNumbered
  <2> QED  BY <2>1, <2>3, <2>5
<1>7. w.type[s.d2i[1]] = "plain"
  <2>1. w.type[s.d2i[1]] = TypeAt(s, s.d2i[1])
    BY <1>1, <1>5 DEF FinishedCells
  <2>2. From(g, s.h + 1) = Numbers(g)
    BY <1>1, RootLoops
  <2>3. TypeAt(s, s.d2i[1]) = "plain"
    BY <2>2, <1>1, <1>3 DEF Placed, CellsOK
  <2> QED  BY <2>1, <2>3
<1>8. \A c \in Cells(w) : w.pred[c] = {} <=> c = s.d2i[1]
  <2> TAKE c \in Cells(w)
  <2>1. c # s.d2i[1] => w.pred[c] # {}
    <3> HAVE c # s.d2i[1]
    <3>1. PICK l \in s.links : l.to = c
      BY <1>1, <1>2, OthersEntered
    <3>2. l.from \in w.pred[c]
      BY <3>1, <1>2
    <3> QED  BY <3>2
  <2>2. c = s.d2i[1] => w.pred[c] = {}
    BY <1>2, <1>3
  <2> QED  BY <2>1, <2>2
<1> QED  BY <1>2, <1>4, <1>5, <1>6, <1>7, <1>8 DEF EntryFirst

------------------------------------------------------------------------------
(* ... and the order of the blocks that hand on invariants.                 *)

(* The cells of a loop run before its exit, ...                             *)
LEMMA LoopBefore ==
  ASSUME NEW g, NEW d, NEW s, NEW w, FinishedOrder(g, d, s, w), NEW k \in Cyclic(d), NEW before, before = Before(w),
         NEW c \in Within(g, d, s, k), c # LastOf(s, k)
  PROVE  c \in before[LastOf(s, k)]
<1>1. Bounded(w, Within(g, d, s, k), s.d2i[k], LastOf(s, k))
  BY LoopBounded
<1>2. Acyclic(w)
  BY LinksAcyclic
<1>3. Within(g, d, s, k) = {e \in Cells(w) : (e = s.d2i[k] \/ s.d2i[k] \in before[e])
                                              /\ (e = LastOf(s, k) \/ e \in before[LastOf(s, k)])}
  <2> DEFINE C == Within(g, d, s, k)
             h == s.d2i[k]
             x == LastOf(s, k)
  <2>1. Bounded(w, C, h, x)
    BY <1>1
  <2> HIDE DEF C, h, x
  <2>2. C = {e \in Cells(w) : (e = h \/ h \in before[e]) /\ (e = x \/ e \in before[x])}
    BY <2>1, <1>2, BetweenBounds
  <2> QED  BY <2>2 DEF C, h, x
<1> QED  BY <1>3

(* ... so that p runs before x, if the search follows the edge between      *)
(* them.                                                                    *)
LEMMA EnteringBefore ==
  ASSUME NEW g, NEW d, NEW s, NEW w, FinishedOrder(g, d, s, w), NEW before, before = Before(w),
         NEW p \in Numbers(g), NEW x \in Numbers(g), Entering(g, d, 0, p, x)
  PROVE  s.d2i[p] \in before[s.d2i[x]]
<1>0. Tied(g, d, s)
  BY DEF FinishedOrder, Ranked
<1>1. /\ SearchDone(g, d) /\ LoopFacts(g, d) /\ MeetFacts(g, d) /\ GroupFacts(g, d) /\ NumBlocks(g) \in Nat
      /\ Apart(g, d, s)
  BY <1>0, TiedCells, TiedApart
<1>2. BeforeFacts(w, before)
  BY LinksAcyclic, BeforeHolds
<1>3. p # x
  <2>1. p \notin LoopOf(g, d, x) /\ x \in LoopOf(g, d, x)
    BY <1>1, NotIntoHead DEF LoopFacts
  <2> QED  BY <2>1
<1>4. PICK k \in Levels(g) : Meet(g, d, k, p, x)
  BY <1>1, <1>3 DEF MeetFacts
<1> DEFINE a == Source(g, d, s, k, p)
           q == Group(g, d, k, p)
<1>5. Has(s, a, s.d2i[x])
  <2>1. InnerThere(g, d, s, k)
    <3>1. k \in 0..NumBlocks(g)
      BY DEF Levels
    <3> QED  BY <3>1, <1>0 DEF Tied, LinksOK
  <2> QED  BY <2>1, <1>4 DEF InnerThere
<1>6. /\ Cells(w) = Indices(s)
      /\ \A c \in Cells(w) : \A b : b \in w.pred[c] <=> \E l \in s.links : l.from = b /\ l.to = c
  BY Waits DEF WaitFacts
<1>7. s.d2i[x] \in Cells(w) /\ s.d2i[p] \in Indices(s) /\ VertexAt(s, s.d2i[p]) = p
  BY <1>0, <1>6, TiedCells
<1> HIDE DEF a
<1>8. a \in w.pred[s.d2i[x]]
  BY <1>5, <1>6, <1>7 DEF Has
<1>9. /\ a \in before[s.d2i[x]] /\ before[a] \subseteq before[s.d2i[x]]
  BY <1>2, <1>7, <1>8 DEF BeforeFacts
<1>10. CASE p = k
  BY <1>9, <1>10 DEF a, Source
<1>11. CASE p # k
  <2>1. a = LastOf(s, q)
    BY <1>11 DEF a, Source
  <2>2. q \in Numbers(g) /\ p \in LoopOf(g, d, q)
    <3>1. k \in Nat /\ p \in Nat
      BY <1>1 DEF GroupFacts
    <3>2. p > k
      <4>1. CASE k = 0
        BY <4>1, <3>1 DEF Numbers
      <4>2. CASE k # 0
        <5>1. k \in Numbers(g) /\ p \in LoopOf(g, d, k)
          BY <4>2, <3>1, <1>4 DEF Meet, Levels, Numbers
        <5>2. k <= p
          BY <5>1, <1>1 DEF LoopFacts
        <5> QED  BY <5>2, <3>1, <1>11
      <4> QED  BY <4>1, <4>2
    <3> QED  BY <3>2, <1>1 DEF GroupFacts
  <2> HIDE DEF q
  <2>3. CASE q \notin Cyclic(d)
    <3>1. p = q
      BY <2>2, <2>3, <1>1 DEF LoopFacts
    <3>2. a = s.d2i[p]
      BY <3>1, <2>1, <2>2, <2>3, <1>0, TiedCells
    <3> QED  BY <3>2, <1>9
  <2>4. CASE q \in Cyclic(d)
    <3>1. s.d2i[p] \in Within(g, d, s, q)
      BY <2>2, <1>7 DEF Within
    <3>2. s.d2i[p] = a \/ s.d2i[p] \in before[a]
      BY <3>1, <2>1, <2>4, LoopBefore
    <3> QED  BY <3>2, <1>9
  <2> QED  BY <2>3, <2>4
<1> QED  BY <1>10, <1>11

(* The ancestors of a vertex run before it.                                 *)
LEMMA AncestorsBefore ==
  ASSUME NEW g, NEW d, NEW s, NEW w, FinishedOrder(g, d, s, w), NEW before, before = Before(w),
         NEW x \in Numbers(g), NEW a \in Up(d, x), a # x
  PROVE  a \in Numbers(g) /\ s.d2i[a] \in before[s.d2i[x]]
<1>0. Tied(g, d, s)
  BY DEF FinishedOrder, Ranked
<1>1. SearchDone(g, d) /\ \A v \in Numbers(g) : v \in Nat /\ s.d2i[v] \in Cells(w)
  BY <1>0, TiedCells, Waits DEF WaitFacts
<1>2. BeforeFacts(w, before)
  BY LinksAcyclic, BeforeHolds
<1> DEFINE T == {v \in Numbers(g) : \E b \in Up(d, v) : b # v /\ s.d2i[b] \notin before[s.d2i[v]]}
<1>3. T = {}
  <2>1. SUFFICES ASSUME T # {} PROVE FALSE
    OBVIOUS
  <2>2. PICK v \in T : \A u \in T : v <= u
    <3>1. T \in SUBSET Nat
      BY <1>1
    <3> HIDE DEF T
    <3> QED  BY <3>1, <2>1, LeastNatural
  <2>3. PICK b \in Up(d, v) : b # v /\ s.d2i[b] \notin before[s.d2i[v]]
    OBVIOUS
  <2>4. PICK q \in d.nonback[v] : b \in Up(d, q)
    BY <1>1, <2>3, Ancestors
  <2>5. q \in Numbers(g) /\ q < v
    BY <1>1, <2>4, Ancestors
  <2>6. s.d2i[q] \in before[s.d2i[v]]
    BY <2>4, <2>5, EnteringBefore DEF Entering
  <2>7. q \notin T
    BY <1>1, <2>2, <2>5
  <2>8. b = q \/ s.d2i[b] \in before[s.d2i[q]]
    BY <2>4, <2>5, <2>7
  <2>9. before[s.d2i[q]] \subseteq before[s.d2i[v]]
    BY <1>1, <1>2, <2>6 DEF BeforeFacts
  <2> QED  BY <2>3, <2>6, <2>8, <2>9
<1>4. a \in Numbers(g)
  BY <1>1, Ancestors
<1> QED  BY <1>3, <1>4

(* So does every predecessor, but for the back edges.                       *)
LEMMA EdgesBefore ==
  ASSUME NEW g, NEW d, NEW s, NEW w, FinishedOrder(g, d, s, w), NEW before, before = Before(w),
         NEW p \in Numbers(g), NEW x \in Numbers(g), IsEdge(g, d, p, x)
  PROVE  p \in d.back[x] \/ s.d2i[p] \in before[s.d2i[x]]
<1>1. SearchDone(g, d)
  BY TiedCells DEF FinishedOrder, Ranked
<1>2. CASE p < x /\ p \in Up(d, x)
  <2>1. p # x
    BY <1>2 DEF Numbers
  <2> QED  BY <1>2, <2>1, AncestorsBefore
<1>3. CASE \E l \in Numbers(g) : <<p, x>> \in d.cross[l]
  <2>1. Entering(g, d, 0, p, x)
    <3>1. PICK l \in Numbers(g) : <<p, x>> \in d.cross[l]
      BY <1>3
    <3>2. l > 0
      BY DEF Numbers
    <3> QED  BY <3>1, <3>2 DEF Entering
  <2> QED  BY <2>1, EnteringBefore
<1> QED  BY <1>1, <1>2, <1>3, EdgeKinds

(* A block runs after its predecessors, but for those that an exit hands    *)
(* back.                                                                    *)
LEMMA DataIsOrdered ==
  ASSUME NEW g, NEW d, NEW s, NEW w, FinishedOrder(g, d, s, w)
  PROVE  DataOrdered(w, g)
<1> DEFINE before == Before(w)
<1>1. /\ Tied(g, d, s) /\ Settled(g, d, s) /\ FinishedCells(g, d, s, w) /\ RootOK(g, d) /\ PostOK(g, d) /\ AllReached(g)
  BY DEF FinishedOrder, Ranked, Tied, Posted
<1>2. SearchDone(g, d) /\ LoopFacts(g, d) /\ Apart(g, d, s) /\ Cyclic(d) \subseteq Numbers(g)
  BY <1>1, TiedCells, TiedApart
<1>3. /\ \A c \in Cells(w) : w.node[c] \in g.node /\ d.dfn[w.node[c]] = VertexAt(s, c)
      /\ \A n \in g.node : CellOf(w, n) = s.d2i[d.dfn[n]] /\ d.dfn[n] \in Numbers(g)
  BY <1>1, CellOfBlock
<1>4. /\ Cells(w) = Indices(s)
      /\ \A v \in Numbers(g) : s.d2i[v] \in Indices(s) /\ VertexAt(s, s.d2i[v]) = v
      /\ \A c \in Indices(s) : \E v \in Numbers(g) : VertexAt(s, c) = v /\ (c = s.d2i[v] \/ (v \in Cyclic(d) /\ c = LastOf(s, v)))
  BY <1>1, TiedCells, Waits DEF WaitFacts
<1>5. BeforeFacts(w, before)
  BY LinksAcyclic, BeforeHolds
<1> HIDE DEF before
<1>6. ASSUME NEW c \in Cells(w), NEW p \in CfgPred(g, w.node[c])
      PROVE  CellOf(w, p) \in before[c] \/ (w.type[c] = "head" /\ ~ IsFromOutside(w, w.node[c], p))
  <2> DEFINE n == w.node[c]
             u == d.dfn[p]
  <2>1. PICK v \in Numbers(g) : VertexAt(s, c) = v /\ (c = s.d2i[v] \/ (v \in Cyclic(d) /\ c = LastOf(s, v)))
    BY <1>4
  <2>2. /\ p \in g.node /\ n \in g.node /\ n \in CfgSucc(g, p) /\ d.dfn[n] = v
    BY <1>3, <2>1 DEF CfgPred
  <2>3. /\ u \in Numbers(g) /\ CellOf(w, p) = s.d2i[u] /\ IsEdge(g, d, u, v)
    BY <1>3, <2>2 DEF IsEdge
  <2>4. u \in d.back[v] \/ s.d2i[u] \in before[s.d2i[v]]
    BY <2>1, <2>3, EdgesBefore DEF before
  <2>5. u \in d.back[v] => v \in Cyclic(d) /\ u \in LoopOf(g, d, v)
    <3>1. DOMAIN d.back = Numbers(g)
      BY <1>1, RootLoops
    <3> QED  BY <3>1, <1>2, <2>1, BackInLoop DEF Cyclic
  <2>6. CASE c = s.d2i[v]
    <3>1. CASE u \in d.back[v]
      <4>1. w.type[c] = "head"
        <5>1. s.d2i[v] \in Heads(w)
          BY <1>1, <2>1, <2>5, <3>1, LoopCells
        <5> QED  BY <5>1, <2>6 DEF Heads
      <4>2. ~ IsFromOutside(w, n, p)
        <5>1. d.dfn[p] \in Seen(d) /\ d.dfn[n] \in Seen(d)
          BY <1>1, <1>2, <2>2, AllNumbered
        <5>2. d.post[n] < d.post[p] <=> d.dfn[p] \notin LoopOf(g, d, d.dfn[n])
          BY <5>1, <1>1, <1>2, <2>2, <2>3, PostTellsBackEdges
        <5>3. w.postDfn = d.post
          BY <1>1 DEF FinishedCells
        <5> QED  BY <5>2, <5>3, <2>2, <2>5, <3>1 DEF IsFromOutside
      <4> QED  BY <4>1, <4>2
    <3>2. CASE s.d2i[u] \in before[s.d2i[v]]
      BY <3>2, <2>3, <2>6
    <3> QED  BY <2>4, <3>1, <3>2
  <2>7. CASE v \in Cyclic(d) /\ c = LastOf(s, v)
    <3> DEFINE x == LastOf(s, v)
    <3>0. \A e \in Within(g, d, s, v) : e # x => e \in before[x]
      BY <2>7, LoopBefore DEF before
    <3>1. s.d2i[v] \in before[x]
      <4>1. s.d2i[v] \in Within(g, d, s, v)
        BY <1>2, <1>4, <2>1 DEF Within, LoopFacts
      <4>2. s.d2i[v] # x
        BY <1>1, <2>1, <2>7, TiedCells
      <4> QED  BY <3>0, <4>1, <4>2
    <3>2. CASE u \in d.back[v]
      <4>1. s.d2i[u] \in Within(g, d, s, v)
        BY <1>4, <2>3, <2>5, <3>2 DEF Within
      <4>2. x # s.d2i[u]
        BY <1>2, <2>1, <2>3, <2>7 DEF Apart
      <4> QED  BY <3>0, <4>1, <4>2, <2>3, <2>7
    <3>3. CASE s.d2i[u] \in before[s.d2i[v]]
      <4>1. before[s.d2i[v]] \subseteq before[x]
        <5>1. x \in Cells(w)
          BY <2>7
        <5> QED  BY <5>1, <3>1, <1>5 DEF BeforeFacts
      <4> QED  BY <4>1, <3>3, <2>3, <2>7
    <3> QED  BY <2>4, <3>2, <3>3
  <2> QED  BY <2>1, <2>6, <2>7
<1> QED  BY <1>6 DEF DataOrdered, before

------------------------------------------------------------------------------
(* The invariant of the whole construction, and the theorem.                *)

(* The whole contract.                                                      *)

(* The whole contract, from its parts.                                      *)
LEMMA FinishedWellFormed ==
  ASSUME NEW g, NEW d, NEW s, NEW w, FinishedOrder(g, d, s, w), SizesOK(g, d, s), Recorded(s), EntryUntargeted(g)
  PROVE  WellFormed(w, g)
<1>1. CellsNumbered(w) /\ ConstraintsPaired(w) /\ ConstraintsWellFounded(w)
  BY CellsAreNumbered, Waits, LinksPaired, LinksAcyclic, AcyclicFounded
<1>2. EntryFirst(w, g) /\ ComponentsNested(w) /\ OuterPredsExact(w)
  BY EntryIsFirst, LoopsNested, OuterCounted
<1>3. BlocksCovered(w, g) /\ DataOrdered(w, g)
  BY BlocksAreCovered, DataIsOrdered
<1> QED  BY <1>1, <1>2, <1>3 DEF WellFormed

(* A graph with one block.                                                  *)
LEMMA SingletonWellFormed ==
  ASSUME NEW g, IsGraph(g), IsSingleton(g), AllReached(g)
  PROVE  WellFormed(Singleton(g), g)
<1> DEFINE w == Singleton(g)
<1>1. CfgSucc(g, g.entry) = {} /\ g.node = {g.entry}
  <2>1. CfgSucc(g, g.entry) = {}
    BY DEF IsSingleton, CfgSucc
  <2>2. {g.entry} \in SUBSET g.node /\ \A m \in {g.entry} : CfgSucc(g, m) \subseteq {g.entry}
    BY <2>1 DEF IsGraph
  <2> QED  BY <2>1, <2>2 DEF AllReached
<1>2. /\ w.type = [c \in {0} |-> "plain"] /\ w.node = [c \in {0} |-> g.entry]
      /\ w.succ = [c \in {0} |-> {}] /\ w.pred = [c \in {0} |-> {}]
  BY DEF Singleton
<1> HIDE DEF w
<1>3. /\ Cells(w) = {0} /\ w.type[0] = "plain" /\ w.node[0] = g.entry /\ w.pred[0] = {} /\ w.succ[0] = {}
  BY <1>2 DEF Cells
<1>4. GetEntry(w) = 0
  <2>1. Cardinality({0}) = 1
    BY FS_Singleton
  <2>2. Cardinality(Cells(w)) - 1 = 0
    BY <2>1, <1>3
  <2> QED  BY <2>2 DEF GetEntry
<1>5. Heads(w) = {} /\ Exits(w) = {}
  BY <1>3 DEF Heads, Exits
<1>6. CellsNumbered(w)
  <2>1. 0..0 = {0}
    OBVIOUS
  <2> QED  BY <2>1, <1>3, <1>4, FS_Singleton DEF CellsNumbered
<1>7. ConstraintsPaired(w) /\ ConstraintsWellFounded(w)
  BY <1>3 DEF ConstraintsPaired, ConstraintsWellFounded
<1>8. EntryFirst(w, g)
  BY <1>3, <1>4 DEF EntryFirst
<1>9. ComponentsNested(w) /\ OuterPredsExact(w)
  BY <1>5 DEF ComponentsNested, OuterPredsExact
<1>10. BlocksCovered(w, g)
  <2>1. CellOf(w, g.entry) = 0
    BY <1>3 DEF CellOf
  <2> QED  BY <2>1, <1>1, <1>3, <1>5 DEF BlocksCovered
<1>11. DataOrdered(w, g)
  <2>1. CfgPred(g, g.entry) = {}
    BY <1>1 DEF CfgPred
  <2> QED  BY <2>1, <1>3 DEF DataOrdered
<1> QED  BY <1>6, <1>7, <1>8, <1>9, <1>10, <1>11 DEF WellFormed, w

(* The constraints before each turn, ...                                    *)
LinkingOK(g, d, s) ==
  OriginOK(g, d, s.h, s.rep, s.origin) /\ LinksOK(g, d, s, s.h + 1) /\ SizesOK(g, d, s) /\ Recorded(s)

(* ... and when they are all there.                                         *)
LinkedOK(g, d, s) == Tied(g, d, s) /\ SizesOK(g, d, s) /\ Recorded(s)

(* The finished order: of a graph of one block, or of any other.            *)
OrderLinked(g, d, s, w) ==
  \/ IsSingleton(g) /\ w = Singleton(g)
  \/ Posted(g, d) /\ LinkedOK(g, d, s) /\ FinishedCells(g, d, s, w) /\ FinishedLinks(s, w)

(* The inductive invariant.                                                 *)
ContractInv ==
  /\ OrderInv
  /\ phase \in {"scc", "toplevel"} => LinkingOK(cfg, dfs, scc)
  /\ phase = "outer" => LinkedOK(cfg, dfs, scc)
  /\ phase = "done" => OrderLinked(cfg, dfs, scc, wpo)

(* It holds when the search is done, ...                                    *)
LEMMA LinkingInit ==
  ASSUME NEW g, NEW d, SearchDone(g, d)
  PROVE  LinkingOK(g, d, InitScc(d))
BY OriginInit, LinksAtInit, SizesInit, InitRecorded DEF LinkingOK

(* ... each turn keeps it, ...                                              *)
LEMMA LinkingStep ==
  ASSUME NEW g, NEW d, NEW s, SccOK(g, d, s), Placed(g, d, s), s.h # 0, LinkingOK(g, d, s)
  PROVE  LinkingOK(g, d, SccStep(d, s))
<1> DEFINE t == SccStep(d, s)
<1>1. Turn(g, d, s, t)
  BY TurnIs
<1>2. SizesOK(g, d, t)
  BY SizesStep DEF LinkingOK
<1> HIDE DEF t
<1>3. OriginOK(g, d, t.h, t.rep, t.origin)
  BY <1>1, OriginStep DEF LinkingOK
<1>4. LinksOK(g, d, t, t.h + 1)
  BY <1>1, LinksStep DEF LinkingOK
<1>5. Recorded(t)
  BY <1>1, StepRecorded DEF LinkingOK
<1>6. LinkingOK(g, d, t)
  BY <1>2, <1>3, <1>4, <1>5 DEF LinkingOK
<1> QED  BY <1>6 DEF t

(* ... and the last turn completes it.                                      *)
LEMMA LinkingTop ==
  ASSUME NEW g, NEW d, NEW s, SccOK(g, d, s), Placed(g, d, s), ParentsOK(g, d, s), s.h = 0, LinkingOK(g, d, s)
  PROVE  LinkedOK(g, d, Toplevel(s))
<1> DEFINE t == Toplevel(s)
<1>1. TopStep(s, t)
  BY TopFields DEF SccOK
<1>2. Settled(g, d, t)
  BY TopSettles
<1> HIDE DEF t
<1>3. LinksOK(g, d, t, 0)
  BY <1>1, TopLinks DEF LinkingOK
<1>4. SizesOK(g, d, t) /\ Recorded(t)
  BY <1>1, SizesTop, TopRecorded DEF LinkingOK
<1>5. LinkedOK(g, d, t)
  BY <1>2, <1>3, <1>4 DEF LinkedOK, Tied
<1> QED  BY <1>5 DEF t

(* The invariant holds at the beginning, ...                                *)
LEMMA ContractInit == Init => ContractInv
<1> SUFFICES ASSUME Init PROVE ContractInv
  OBVIOUS
<1>1. OrderInv
  BY OrderInit
<1>2. CASE IsSingleton(cfg)
  BY <1>1, <1>2 DEF Init, ContractInv, OrderLinked
<1>3. CASE ~ IsSingleton(cfg)
  BY <1>1, <1>3 DEF Init, ContractInv
<1> QED  BY <1>2, <1>3

(* ... each action of the construction keeps it, ...                        *)
LEMMA ContractStep == ContractInv /\ [Next]_vars => ContractInv'
<1> SUFFICES ASSUME ContractInv, [Next]_vars PROVE ContractInv'
  OBVIOUS
<1>1. OrderInv /\ OrderInv'
  BY OrderStep DEF ContractInv
<1>2. CASE SearchFinish
  BY <1>1, <1>2 DEF SearchFinish, ContractInv
<1>3. CASE SearchSkip
  BY <1>1, <1>3 DEF SearchSkip, ContractInv
<1>4. CASE SearchDiscover
  BY <1>1, <1>4 DEF SearchDiscover, ContractInv
<1>5. CASE SearchEnd
  <2>1. SearchDone(cfg, dfs)
    <3>1. IsGraph(cfg)
      BY <1>1, InputIsGraph DEF OrderInv, BuildInv
    <3> QED  BY <1>1, <1>5, <3>1 DEF SearchEnd, OrderInv, BuildInv, SearchDone
  <2>2. LinkingOK(cfg, dfs, InitScc(dfs))
    BY <2>1, LinkingInit
  <2> QED  BY <1>1, <1>5, <2>2 DEF SearchEnd, ContractInv
<1>6. CASE NextHead
  <2>1. SccOK(cfg, dfs, scc) /\ scc.h # 0 /\ Placed(cfg, dfs, scc) /\ LinkingOK(cfg, dfs, scc)
    BY <1>1, <1>6 DEF NextHead, OrderInv, BuildInv, Grouped, ContractInv
  <2>2. LinkingOK(cfg, dfs, SccStep(dfs, scc))
    BY <2>1, LinkingStep
  <2> QED  BY <1>1, <1>6, <2>2 DEF NextHead, ContractInv
<1>7. CASE OrderToplevel
  <2>1. SccOK(cfg, dfs, scc) /\ scc.h = 0 /\ Placed(cfg, dfs, scc) /\ ParentsOK(cfg, dfs, scc) /\ LinkingOK(cfg, dfs, scc)
    BY <1>1, <1>7 DEF OrderToplevel, OrderInv, BuildInv, Grouped, ContractInv
  <2>2. LinkedOK(cfg, dfs, Toplevel(scc))
    BY <2>1, LinkingTop
  <2> QED  BY <1>1, <1>7, <2>2 DEF OrderToplevel, ContractInv
<1>8. CASE CountOuterPreds
  <2>1. Posted(cfg, dfs) /\ LinkedOK(cfg, dfs, scc)
    BY <1>1, <1>8 DEF CountOuterPreds, OrderInv, ContractInv
  <2>2. OrderLinked(cfg, dfs, scc, wpo')
    BY <1>8, <2>1, FinishedFields, FinishedConstraints DEF CountOuterPreds, OrderLinked
  <2> QED  BY <1>1, <1>8, <2>2 DEF CountOuterPreds, ContractInv
<1>9. CASE UNCHANGED vars
  BY <1>1, <1>9 DEF vars, ContractInv
<1> QED  BY <1>2, <1>3, <1>4, <1>5, <1>6, <1>7, <1>8, <1>9 DEF Next

(* ... and it implies the contract.                                         *)
LEMMA ContractHolds == ASSUME GraphsEntered PROVE ContractInv => WpoWellFormed
<1> SUFFICES ASSUME ContractInv, phase = "done" PROVE WellFormed(wpo, cfg)
  BY DEF WpoWellFormed
<1>1. cfg \in InputGraphs /\ IsGraph(cfg) /\ OrderLinked(cfg, dfs, scc, wpo)
  BY InputIsGraph DEF ContractInv, OrderInv, BuildInv
<1>2. AllReached(cfg) /\ EntryUntargeted(cfg)
  BY <1>1 DEF GraphsEntered
<1>3. CASE IsSingleton(cfg) /\ wpo = Singleton(cfg)
  BY <1>1, <1>2, <1>3, SingletonWellFormed
<1>4. CASE Posted(cfg, dfs) /\ LinkedOK(cfg, dfs, scc) /\ FinishedCells(cfg, dfs, scc, wpo) /\ FinishedLinks(scc, wpo)
  <2>1. FinishedOrder(cfg, dfs, scc, wpo) /\ SizesOK(cfg, dfs, scc) /\ Recorded(scc)
    BY <1>2, <1>4 DEF FinishedOrder, Ranked, LinkedOK
  <2> QED  BY <1>2, <2>1, FinishedWellFormed
<1> QED  BY <1>1, <1>3, <1>4 DEF OrderLinked

(* For every control flow graph whose blocks are reached from the entry and *)
(* in which no edge leads back to the entry, the order that the constructor *)
(* of Wpo returns keeps the whole contract that the iterators rely on: its  *)
(* cells and blocks match, its constraints have no cycle, components lie    *)
(* between head and exit and are entered and left through them only, outer  *)
(* predecessors are counted exactly, the entry is the only cell that does   *)
(* not wait, and a block runs after the blocks that hand invariants to it.  *)
THEOREM WpoIsWellFormed == ASSUME GraphsEntered PROVE Spec => []WpoWellFormed
<1>1. ContractInv => WpoWellFormed
  BY ContractHolds
<1> QED  BY <1>1, ContractInit, ContractStep, PTL DEF Spec

==============================================================================
