------------------------- MODULE CallInliningTheorems -------------------------
(****************************************************************************)
(* What is proved of the inlining of calls, for all programs: no block is   *)
(* checked twice on one path of calls, and where the last refinement of a   *)
(* loop leaves no call behind, the fixpoints that the check pass finds in   *)
(* the cache are those of the last iterations, and all are there but for    *)
(* calls that mix recursive callees with others.                            *)
(****************************************************************************)
EXTENDS CallInlining, WpoTheorems, SequenceTheorems, TLAPS

(* Paths of calls, the paths that lead to the callers of the last call of   *)
(* one, and the call by which path c goes on after p.                       *)
Calls == Nat \X Nat
Paths == Seq(Calls)
PathsAbove(c) == {SubSeq(c, 1, k) : k \in 0..(Len(c) - 1)}
CallAfter(p, c) == c[Len(p) + 1]

(* The last refinement of a loop drops states at its head, which is not     *)
(* analyzed again: only where narrowing is not iterated, and to the harm of *)
(* a head that calls.                                                       *)
HeadsFresh ==
  prog.narrows \/ \A f \in DOMAIN prog.cfg : \A h \in Heads(Order(f)) :
                    ~ HasCall(f, Order(f).node[h])

------------------------------------------------------------------------------
(* Fixpoint objects.  L is a table of objects by their contexts, as live.   *)

Fields == {"fun", "inv", "phase", "pre", "post", "kind", "count", "done", "opened", "exit",
           "cache", "next"}

IsObject(ctx, o) ==
  /\ DOMAIN o = Fields
  /\ o.fun = FunctionAt(ctx) /\ o.fun \in DOMAIN prog.cfg
  /\ o.next \in Nat /\ o.next # 0
  /\ DOMAIN o.pre = Graph(o.fun).node
  /\ DOMAIN o.cache \subseteq Graph(o.fun).node \X DOMAIN prog.cfg

(* The calls that wait for their callees: of blocks that are not done, and  *)
(* of the block that the check pass is at.                                  *)
OpenedOK(o) ==
  /\ \A n \in DOMAIN o.opened :
       /\ n \in Graph(o.fun).node
       /\ DOMAIN o.opened[n] = {"callees", "post"}
       /\ o.opened[n].callees \subseteq DOMAIN prog.cfg
       /\ o.phase = "run" => CellOf(Order(o.fun), n) \notin o.done
       /\ o.phase = "check" => n = o.next
  /\ o.phase \in {"converged", "checked"} => DOMAIN o.opened = {}

(* The blocks that the check pass has come to.                              *)
Visited(o) == 1..(o.next - 1) \cup DOMAIN o.opened

(* The check pass will look for the fixpoint of callee f of block n.        *)
Takes(ctx, o, n, f) ==
  /\ prog.cached /\ NeedsCallees(ctx, n, o.pre[n]) /\ f \in Collected(ctx, n, o.pre[n])

(* It is there, and of at least the value of the call.                      *)
Fresh(o, n, f) == <<n, f>> \in DOMAIN o.cache /\ o.pre[n] \subseteq o.cache[<<n, f>>].inv

(* What the cache of an object holds for blocks.                            *)
CacheFilled(ctx, o, blocks) ==
  HeadsFresh => \A n \in blocks : \A f \in DOMAIN prog.cfg : Takes(ctx, o, n, f) => Fresh(o, n, f)

(* An object whose fixpoint is found.                                       *)
Resting(ctx, o) ==
  /\ ctx \in Paths /\ IsObject(ctx, o)
  /\ o.phase = "converged" /\ DOMAIN o.opened = {} /\ o.next = 1
  /\ CacheFilled(ctx, o, Graph(o.fun).node)

(* And so are those in its cache, down every path.                          *)
Settled(ctx, o) ==
  \E G : /\ <<ctx, o>> \in G
         /\ \A g \in G : /\ Resting(g[1], g[2])
                         /\ \A s \in DOMAIN g[2].cache :
                              <<Append(g[1], s), g[2].cache[s]>> \in G

(* The fixpoint pass: the last values of the blocks that are done.          *)
BlocksDone(o) == {n \in Graph(o.fun).node : CellOf(Order(o.fun), n) \in o.done}

RunOK(L, ctx) ==
  LET o == L[ctx]
  IN  /\ o.next = 1
      /\ o.done \subseteq Cells(Order(o.fun))
      /\ \A c \in o.done \cup Busy(o) : Order(o.fun).pred[c] \subseteq o.done
      /\ \A n \in DOMAIN o.opened :
           /\ o.opened[n].callees = Collected(ctx, n, o.pre[n])
           /\ \A f \in o.opened[n].callees :
                /\ Callee(ctx, n, f) \in DOMAIN L
                /\ o.pre[n] \subseteq L[Callee(ctx, n, f)].inv
      /\ \A s \in DOMAIN o.cache : Settled(Append(ctx, s), o.cache[s])
      /\ CacheFilled(ctx, o, BlocksDone(o))

(* The check pass: what it has not come to yet is still in the cache.       *)
ChecksCall(L, p, n) == p \in DOMAIN L /\ L[p].phase = "check" /\ n \in DOMAIN L[p].opened

CheckOK(L, ctx) ==
  LET o == L[ctx]
  IN  /\ \A s \in DOMAIN o.cache : s[1] \notin Visited(o) => Settled(Append(ctx, s), o.cache[s])
      /\ CacheFilled(ctx, o, Graph(o.fun).node \ Visited(o))
      /\ \A p \in PathsAbove(ctx) : ChecksCall(L, p, CallAfter(p, ctx)[1])

(* The caller of an object waits for it.                                    *)
IsAwaited(L, ctx) ==
  LET p == Caller(ctx)  n == CallOf(ctx)
  IN  /\ p \in DOMAIN L /\ L[p].phase \in {"run", "check"}
      /\ n \in DOMAIN L[p].opened /\ FunctionAt(ctx) \in L[p].opened[n].callees

ObjectOK(L, ctx) ==
  LET o == L[ctx]
  IN  /\ ctx \in Paths /\ IsObject(ctx, o) /\ OpenedOK(o)
      /\ o.phase \in {"run", "converged", "check", "checked"}
      /\ o.phase = "run" => RunOK(L, ctx)
      /\ o.phase = "converged" => Settled(ctx, o)
      /\ o.phase = "check" => CheckOK(L, ctx)
      /\ o.phase = "checked" => ctx = <<>>
      /\ ctx # <<>> => IsAwaited(L, ctx)

(* A block m that was checked in c is one that the check pass of its        *)
(* context has come to, as long as there is an object of it, and so is the  *)
(* call that leads to it in each object above.  Where that call waits, its  *)
(* callee is still there, or has returned.                                  *)
ComesDown(L, p, s) ==
  /\ L[p].phase \in {"check", "checked"}
  /\ s[1] \in Visited(L[p])
  /\ s[1] \in DOMAIN L[p].opened =>
       Append(p, s) \in DOMAIN L \/ s[2] \notin L[p].opened[s[1]].callees

CheckedOK(L, c, m) ==
  /\ c \in Paths
  /\ c \in DOMAIN L => L[c].phase \in {"check", "checked"} /\ m \in Visited(L[c])
  /\ \A p \in PathsAbove(c) \cap DOMAIN L : ComesDown(L, p, CallAfter(p, c))

(* CacheFresh in a table of objects.                                        *)
FreshIn(L) ==
  \A ctx \in DOMAIN L :
    ctx # <<>> /\ L[Caller(ctx)].phase = "check" =>
      L[Caller(ctx)].pre[CallOf(ctx)] \subseteq L[ctx].inv

(* Fixpoints are missing where a call mixes recursive callees with others.  *)
MixedIn(L, M) ==
  \A c \in M :
    \E s \in L[Caller(c)].pre[CallOf(c)] :
      prog.target[FunctionAt(Caller(c))][CallOf(c)][s] \in Analyzed(Caller(c))

TableInv(L, K, M) ==
  /\ prog \in Programs
  /\ <<>> \in DOMAIN L
  /\ \A ctx \in DOMAIN L : ObjectOK(L, ctx)
  /\ \A b \in DOMAIN K : b = <<b[1], b[2]>> /\ CheckedOK(L, b[1], b[2]) /\ K[b].times = 1
  /\ HeadsFresh => FreshIn(L) /\ MixedIn(L, M)

InliningInv == TableInv(live, checked, missing)

------------------------------------------------------------------------------
(* Paths.                                                                   *)

(* A path with one more call.                                               *)
LEMMA PathExtended ==
  ASSUME NEW q \in Paths, NEW s \in Calls
  PROVE  /\ Append(q, s) \in Paths /\ Append(q, s) # <<>>
         /\ Caller(Append(q, s)) = q /\ Last(Append(q, s)) = s
         /\ CallOf(Append(q, s)) = s[1] /\ FunctionAt(Append(q, s)) = s[2]
<1>1. Append(q, s) \in Paths /\ Len(Append(q, s)) = Len(q) + 1
  BY DEF Paths
<1>2. Append(q, s) # <<>>
  <2>1. Len(q) \in Nat /\ Len(<<>>) = 0
    BY DEF Paths
  <2> QED  BY <1>1, <2>1
<1>3. Last(Append(q, s)) = s
  BY <1>1 DEF Last, Paths
<1>4. Caller(Append(q, s)) = q
  BY <1>1 DEF Caller, Front, Paths
<1> QED  BY <1>1, <1>2, <1>3, <1>4 DEF CallOf, FunctionAt

(* A path is the one of its caller with its last call.                      *)
LEMMA PathSplit ==
  ASSUME NEW c \in Paths, c # <<>>
  PROVE  /\ Caller(c) \in Paths /\ Last(c) \in Calls
         /\ c = Append(Caller(c), Last(c))
         /\ Last(c) = <<CallOf(c), FunctionAt(c)>>
<1>1. Len(c) \in Nat /\ Len(c) # 0
  BY DEF Paths
<1>2. Last(c) \in Calls
  BY <1>1 DEF Last, Paths
<1>3. Caller(c) \in Paths /\ Len(Caller(c)) = Len(c) - 1
  <2>1. Caller(c) = SubSeq(c, 1, Len(c) - 1)
    BY DEF Caller, Front
  <2>2. 1 \in Int /\ Len(c) - 1 \in Int
    BY <1>1
  <2>3. \A i \in 1..(Len(c) - 1) : c[i] \in Calls
    BY <1>1 DEF Paths
  <2> DEFINE n == Len(c) - 1
  <2> HIDE DEF n
  <2>4. /\ SubSeq(c, 1, n) \in Seq(Calls)
        /\ Len(SubSeq(c, 1, n)) = IF 1 <= n THEN n - 1 + 1 ELSE 0
    BY <2>2, <2>3, SubSeqProperties DEF n
  <2>5. n \in Nat
    BY <1>1 DEF n
  <2>6. Len(SubSeq(c, 1, n)) = n
    BY <2>4, <2>5
  <2>7. Caller(c) = SubSeq(c, 1, n)
    BY <2>1 DEF n
  <2>8. Caller(c) \in Seq(Calls) /\ Len(Caller(c)) = n
    BY <2>4, <2>6, <2>7
  <2> QED  BY <2>8 DEF Paths, n
<1>4. c = Append(Caller(c), Last(c))
  BY <1>1, <1>2, <1>3 DEF Caller, Front, Last, Paths
<1>5. Last(c) = <<CallOf(c), FunctionAt(c)>>
  BY <1>2 DEF Calls, CallOf, FunctionAt
<1> QED  BY <1>2, <1>3, <1>4, <1>5

(* A path above c goes on to c.                                             *)
LEMMA PathDown ==
  ASSUME NEW c \in Paths, NEW p \in PathsAbove(c)
  PROVE  /\ p \in Paths /\ CallAfter(p, c) \in Calls
         /\ Append(p, CallAfter(p, c)) = c \/ Append(p, CallAfter(p, c)) \in PathsAbove(c)
<1>1. PICK k \in 0..(Len(c) - 1) : p = SubSeq(c, 1, k)
  BY DEF PathsAbove
<1>2. Len(c) \in Nat /\ k \in Nat /\ k + 1 \in 1..Len(c)
  BY <1>1 DEF Paths
<1>3. p \in Paths /\ Len(p) = k
  BY <1>1, <1>2 DEF Paths
<1>4. CallAfter(p, c) \in Calls
  BY <1>2, <1>3 DEF CallAfter, Paths
<1>5. Append(p, CallAfter(p, c)) = SubSeq(c, 1, k + 1)
  BY <1>1, <1>2, <1>3, <1>4 DEF CallAfter, Paths
<1>6. k + 1 = Len(c) => SubSeq(c, 1, k + 1) = c
  BY <1>2 DEF Paths
<1>7. k + 1 # Len(c) => SubSeq(c, 1, k + 1) \in PathsAbove(c)
  BY <1>2 DEF PathsAbove
<1> QED  BY <1>3, <1>4, <1>5, <1>6, <1>7

(* The paths above a path are those above its caller, and the caller.       *)
LEMMA PathsAboveCaller ==
  ASSUME NEW q \in Paths, NEW s \in Calls
  PROVE  /\ PathsAbove(Append(q, s)) = PathsAbove(q) \cup {q}
         /\ CallAfter(q, Append(q, s)) = s
         /\ \A p \in PathsAbove(q) : CallAfter(p, Append(q, s)) = CallAfter(p, q)
<1> DEFINE c == Append(q, s)
<1>1. c \in Paths /\ Len(c) = Len(q) + 1 /\ Len(q) \in Nat
  BY DEF Paths
<1>2. \A k \in 0..Len(q) : SubSeq(c, 1, k) = SubSeq(q, 1, k)
  BY <1>1 DEF Paths
<1>3. SubSeq(q, 1, Len(q)) = q
  BY <1>1 DEF Paths
<1>4. PathsAbove(c) = {SubSeq(q, 1, k) : k \in 0..Len(q)}
  BY <1>1, <1>2 DEF PathsAbove
<1>5. PathsAbove(c) = PathsAbove(q) \cup {q}
  BY <1>1, <1>3, <1>4 DEF PathsAbove
<1>6. CallAfter(q, c) = s
  BY <1>1 DEF CallAfter, Paths
<1>7. ASSUME NEW p \in PathsAbove(q)  PROVE CallAfter(p, c) = CallAfter(p, q)
  <2>1. PICK k \in 0..(Len(q) - 1) : p = SubSeq(q, 1, k)
    BY DEF PathsAbove
  <2>2. Len(p) = k
    BY <2>1, <1>1 DEF Paths
  <2> QED  BY <2>1, <2>2, <1>1 DEF CallAfter, Paths
<1> QED  BY <1>5, <1>6, <1>7

(* A path goes down to c through its own call only.                         *)
LEMMA PathAboveUnique ==
  ASSUME NEW c \in Paths, NEW q \in Paths, NEW s \in Calls,
         Append(q, s) = c \/ Append(q, s) \in PathsAbove(c)
  PROVE  q \in PathsAbove(c) /\ CallAfter(q, c) = s
<1>1. CASE Append(q, s) = c
  BY <1>1, PathsAboveCaller, Zenon
<1>2. CASE Append(q, s) \in PathsAbove(c)
  <2>1. PICK k \in 0..(Len(c) - 1) : Append(q, s) = SubSeq(c, 1, k)
    BY <1>2 DEF PathsAbove
  <2>2. Len(q) \in Nat /\ Len(Append(q, s)) = Len(q) + 1 /\ Len(c) \in Nat
    BY DEF Paths
  <2>3. Len(SubSeq(c, 1, k)) = k /\ SubSeq(c, 1, k) \in Seq(Calls)
    BY <2>1, <2>2 DEF Paths
  <2>4. k = Len(q) + 1
    BY <2>1, <2>2, <2>3
  <2>5. \A i \in 1..Len(q) : Append(q, s)[i] = q[i]
    BY DEF Paths
  <2>6. \A i \in 1..k : SubSeq(c, 1, k)[i] = c[i]
    BY <2>1, <2>2 DEF Paths
  <2>7. Append(q, s)[Len(q) + 1] = s
    BY DEF Paths
  <2>8. c[Len(q) + 1] = s
    BY <2>1, <2>2, <2>4, <2>6, <2>7
  <2>9. SubSeq(c, 1, Len(q)) = q
    <3>1. SubSeq(c, 1, Len(q)) \in Seq(Calls) /\ Len(SubSeq(c, 1, Len(q))) = Len(q)
      BY <2>1, <2>2, <2>4 DEF Paths
    <3>2. \A i \in 1..Len(q) : SubSeq(c, 1, Len(q))[i] = c[i]
      BY <2>1, <2>2, <2>4 DEF Paths
    <3>3. \A i \in 1..Len(q) : c[i] = q[i]
      BY <2>1, <2>2, <2>4, <2>5, <2>6
    <3>4. q \in Seq(Calls)
      BY DEF Paths
    <3> DEFINE r == SubSeq(c, 1, Len(q))
    <3>5. \A i \in 1..Len(r) : r[i] = q[i]
      BY <3>1, <3>2, <3>3
    <3>6. Len(r) = Len(q) /\ r \in Seq(Calls)
      BY <3>1
    <3> HIDE DEF r
    <3>7. r = q
      BY <3>4, <3>5, <3>6, SeqEqual
    <3> QED  BY <3>7 DEF r
  <2>10. Len(q) \in 0..(Len(c) - 1)
    BY <2>1, <2>2, <2>4
  <2>11. q \in PathsAbove(c)
    BY <2>9, <2>10, Zenon DEF PathsAbove
  <2> QED  BY <2>8, <2>11 DEF CallAfter
<1> QED  BY <1>1, <1>2

(* The path of the entry point has no path above it, and none is its own.   *)
LEMMA PathEnds ==
  /\ <<>> \in Paths /\ PathsAbove(<<>>) = {}
  /\ \A c \in Paths : c \notin PathsAbove(c)
<1>1. <<>> \in Paths /\ PathsAbove(<<>>) = {}
  BY DEF Paths, PathsAbove
<1>2. ASSUME NEW c \in Paths, NEW k \in 0..(Len(c) - 1)  PROVE SubSeq(c, 1, k) # c
  BY DEF Paths
<1> QED  BY <1>1, <1>2 DEF PathsAbove

------------------------------------------------------------------------------
(* Objects.                                                                 *)

(* What the assumptions say of the program and its functions.               *)
LEMMA ProgramFacts ==
  ASSUME prog \in Programs
  PROVE  /\ prog.main \in DOMAIN prog.cfg
         /\ \A f \in DOMAIN prog.cfg :
              WellFormed(Order(f), Graph(f)) /\ f \in Nat /\ Graph(f).node \subseteq Nat
  BY OrdersWellFormed, Numbered DEF Order, Graph

(* Callees are functions with a body.                                       *)
LEMMA CollectedFacts ==
  ASSUME NEW ctx, NEW n, NEW v
  PROVE  Collected(ctx, n, v) \subseteq DOMAIN prog.cfg
  BY DEF Collected, IsDeclaration

(* Settled is closed under what it says of the cache.                       *)
LEMMA SettledIntro ==
  ASSUME NEW ctx, NEW o, Resting(ctx, o),
         \A s \in DOMAIN o.cache : Settled(Append(ctx, s), o.cache[s])
  PROVE  Settled(ctx, o)
<1> DEFINE Closed(G) == \A g \in G : /\ Resting(g[1], g[2])
                                     /\ \A s \in DOMAIN g[2].cache :
                                          <<Append(g[1], s), g[2].cache[s]>> \in G
           Below(s) == CHOOSE G : <<Append(ctx, s), o.cache[s]>> \in G /\ Closed(G)
           All == {<<ctx, o>>} \cup UNION {Below(s) : s \in DOMAIN o.cache}
<1>1. ASSUME NEW s \in DOMAIN o.cache
      PROVE  <<Append(ctx, s), o.cache[s]>> \in Below(s) /\ Closed(Below(s))
  <2>1. \E G : <<Append(ctx, s), o.cache[s]>> \in G /\ Closed(G)
    BY DEF Settled
  <2> QED  BY <2>1
<1> HIDE DEF Below
<1>2. <<ctx, o>> \in All
  OBVIOUS
<1>3. ASSUME NEW g \in All
      PROVE  /\ Resting(g[1], g[2])
             /\ \A s \in DOMAIN g[2].cache : <<Append(g[1], s), g[2].cache[s]>> \in All
  <2>1. CASE g = <<ctx, o>>
    <3>1. \A s \in DOMAIN o.cache : <<Append(ctx, s), o.cache[s]>> \in All
      BY <1>1
    <3> QED  BY <2>1, <3>1
  <2>2. CASE g # <<ctx, o>>
    <3>1. PICK s \in DOMAIN o.cache : g \in Below(s)
      BY <2>2
    <3>2. Closed(Below(s))
      BY <1>1
    <3> QED  BY <3>1, <3>2
  <2> QED  BY <2>1, <2>2
<1> HIDE DEF All
<1> QED  BY <1>2, <1>3 DEF Settled

LEMMA SettledElim ==
  ASSUME NEW ctx, NEW o, Settled(ctx, o)
  PROVE  /\ Resting(ctx, o)
         /\ \A s \in DOMAIN o.cache : Settled(Append(ctx, s), o.cache[s])
<1>1. PICK G : /\ <<ctx, o>> \in G
               /\ \A g \in G : /\ Resting(g[1], g[2])
                               /\ \A s \in DOMAIN g[2].cache :
                                    <<Append(g[1], s), g[2].cache[s]>> \in G
  BY DEF Settled
<1>2. Resting(ctx, o)
  BY <1>1
<1>3. ASSUME NEW s \in DOMAIN o.cache  PROVE Settled(Append(ctx, s), o.cache[s])
  <2>1. <<Append(ctx, s), o.cache[s]>> \in G
    BY <1>1
  <2> QED  BY <1>1, <2>1 DEF Settled
<1> QED  BY <1>2, <1>3

(* A new object is at the beginning of its fixpoint pass.                   *)
LEMMA NewObject ==
  ASSUME NEW L, NEW ctx \in DOMAIN L, ctx \in Paths, NEW f \in DOMAIN prog.cfg, NEW inv,
         f = FunctionAt(ctx), L[ctx] = NewFixpoint(f, inv),
         ctx # <<>> => IsAwaited(L, ctx)
  PROVE  ObjectOK(L, ctx)
<1> DEFINE o == L[ctx]
<1>1. /\ DOMAIN o = Fields /\ o.fun = f /\ o.inv = inv /\ o.phase = "run"
      /\ DOMAIN o.pre = Graph(f).node /\ o.done = {} /\ o.opened = <<>> /\ o.cache = <<>>
      /\ o.next = 1
  BY DEF NewFixpoint, Fields
<1>2. DOMAIN o.opened = {} /\ DOMAIN o.cache = {}
  BY <1>1
<1> HIDE DEF o
<1>3. IsObject(ctx, o) /\ OpenedOK(o)
  BY <1>1, <1>2 DEF IsObject, OpenedOK
<1>4. RunOK(L, ctx)
  BY <1>1, <1>2 DEF RunOK, CacheFilled, BlocksDone, Busy, o
<1> QED  BY <1>1, <1>3, <1>4 DEF ObjectOK, o

(* An object stays well formed in another table that has it, its caller and *)
(* the callees that it waits for.                                           *)
LEMMA OtherObject ==
  ASSUME NEW L, NEW K, NEW e, ObjectOK(L, e), K[e] = L[e],
         e # <<>> => IsAwaited(K, e),
         L[e].phase = "run" =>
           \A n \in DOMAIN L[e].opened : \A f \in L[e].opened[n].callees :
             Callee(e, n, f) \in DOMAIN K /\ K[Callee(e, n, f)].inv = L[Callee(e, n, f)].inv,
         L[e].phase = "check" =>
           \A p \in PathsAbove(e) : ChecksCall(K, p, CallAfter(p, e)[1])
  PROVE  ObjectOK(K, e)
<1>1. RunOK(L, e) /\ L[e].phase = "run" => RunOK(K, e)
  BY DEF RunOK
<1>2. CheckOK(L, e) /\ L[e].phase = "check" => CheckOK(K, e)
  BY DEF CheckOK
<1> QED  BY <1>1, <1>2 DEF ObjectOK

(* Whoever has a caller that waits is one of the callees it waits for.      *)
LEMMA Awaited ==
  ASSUME NEW L, NEW e \in DOMAIN L, ObjectOK(L, e), e # <<>>
  PROVE  /\ Caller(e) \in Paths /\ Caller(e) \in DOMAIN L
         /\ L[Caller(e)].phase \in {"run", "check"}
         /\ CallOf(e) \in DOMAIN L[Caller(e)].opened
         /\ FunctionAt(e) \in L[Caller(e)].opened[CallOf(e)].callees
         /\ e = Callee(Caller(e), CallOf(e), FunctionAt(e))
  BY PathSplit DEF ObjectOK, IsAwaited, Callee

(* The caller is another path than its callee, and the last one above it.   *)
LEMMA CallerAbove ==
  ASSUME NEW c \in Paths, c # <<>>
  PROVE  /\ Caller(c) \in PathsAbove(c) /\ Caller(c) # c
         /\ CallAfter(Caller(c), c) = <<CallOf(c), FunctionAt(c)>>
         /\ PathsAbove(c) = PathsAbove(Caller(c)) \cup {Caller(c)}
         /\ \A p \in PathsAbove(Caller(c)) : CallAfter(p, c) = CallAfter(p, Caller(c))
<1>1. /\ Caller(c) \in Paths /\ Last(c) \in Calls /\ c = Append(Caller(c), Last(c))
      /\ Last(c) = <<CallOf(c), FunctionAt(c)>>
  BY PathSplit
<1>2. /\ PathsAbove(c) = PathsAbove(Caller(c)) \cup {Caller(c)}
      /\ CallAfter(Caller(c), c) = Last(c)
      /\ \A p \in PathsAbove(Caller(c)) : CallAfter(p, c) = CallAfter(p, Caller(c))
  <2> DEFINE q == Caller(c)  s == Last(c)
  <2>1. q \in Paths /\ s \in Calls /\ c = Append(q, s)
    BY <1>1
  <2> HIDE DEF q, s
  <2>2. /\ PathsAbove(c) = PathsAbove(q) \cup {q} /\ CallAfter(q, c) = s
        /\ \A p \in PathsAbove(q) : CallAfter(p, c) = CallAfter(p, q)
    BY <2>1, PathsAboveCaller
  <2> QED  BY <2>2 DEF q, s
<1> QED  BY <1>1, <1>2, PathEnds

(* A step that changes one object, but neither the calls that wait in it    *)
(* nor its phase, unless no call waits.                                     *)
LEMMA OneChanged ==
  ASSUME NEW L, NEW ctx \in DOMAIN L, \A e \in DOMAIN L : ObjectOK(L, e),
         NEW o, o.inv = L[ctx].inv,
         \/ o.opened = L[ctx].opened /\ o.phase = L[ctx].phase
         \/ DOMAIN L[ctx].opened = {},
         NEW K, K = [L EXCEPT ![ctx] = o]
  PROVE  /\ \A e \in DOMAIN L \ {ctx} : ObjectOK(K, e)
         /\ ctx # <<>> => IsAwaited(K, ctx)
         /\ \A p \in PathsAbove(ctx) : \A n : ChecksCall(L, p, n) => ChecksCall(K, p, n)
<1>1. DOMAIN K = DOMAIN L /\ K[ctx] = o /\ \A e \in DOMAIN L \ {ctx} : K[e] = L[e]
  OBVIOUS
<1>2. ASSUME NEW e \in DOMAIN L, e # ctx  PROVE ObjectOK(K, e)
  <2>1. ObjectOK(L, e) /\ K[e] = L[e]
    BY <1>1, <1>2
  <2>2. e # <<>> => IsAwaited(K, e)
    <3>1. CASE e # <<>> /\ Caller(e) = ctx
      BY <3>1, <2>1, <1>1, Awaited DEF IsAwaited
    <3>2. CASE e # <<>> /\ Caller(e) # ctx
      BY <3>2, <2>1, <1>1, Awaited DEF IsAwaited
    <3> QED  BY <3>1, <3>2
  <2>3. L[e].phase = "run" =>
          \A n \in DOMAIN L[e].opened : \A f \in L[e].opened[n].callees :
            Callee(e, n, f) \in DOMAIN K /\ K[Callee(e, n, f)].inv = L[Callee(e, n, f)].inv
    <3>1. ASSUME L[e].phase = "run", NEW n \in DOMAIN L[e].opened,
                 NEW f \in L[e].opened[n].callees
          PROVE  Callee(e, n, f) \in DOMAIN K
      BY <3>1, <2>1, <1>1 DEF ObjectOK, RunOK
    <3>2. \A d \in DOMAIN K : K[d].inv = L[d].inv
      BY <1>1
    <3> QED  BY <3>1, <3>2
  <2>4. L[e].phase = "check" =>
          \A p \in PathsAbove(e) : ChecksCall(K, p, CallAfter(p, e)[1])
    <3>1. ASSUME L[e].phase = "check", NEW p \in PathsAbove(e)
          PROVE  ChecksCall(L, p, CallAfter(p, e)[1])
      BY <3>1, <2>1 DEF ObjectOK, CheckOK
    <3>2. \A p, n : ChecksCall(L, p, n) => ChecksCall(K, p, n)
      BY <1>1 DEF ChecksCall
    <3> QED  BY <3>1, <3>2
  <2> QED  BY <2>1, <2>2, <2>3, <2>4, OtherObject, Zenon
<1>3. ctx # <<>> => IsAwaited(K, ctx)
  <2>1. ctx \in Paths /\ (ctx # <<>> => IsAwaited(L, ctx))
    BY DEF ObjectOK
  <2> QED  BY <2>1, <1>1, CallerAbove DEF IsAwaited
<1>4. \A p \in PathsAbove(ctx) : \A n : ChecksCall(L, p, n) => ChecksCall(K, p, n)
  <2>1. ctx \notin PathsAbove(ctx)
    BY PathEnds DEF ObjectOK
  <2> QED  BY <2>1, <1>1 DEF ChecksCall
<1> QED  BY <1>2, <1>3, <1>4

(* What was checked stays below a context whose object goes on.             *)
LEMMA CheckedKept ==
  ASSUME NEW L, NEW ctx \in DOMAIN L, NEW o, NEW K, K = [L EXCEPT ![ctx] = o],
         L[ctx].phase \in {"check", "checked"} =>
           /\ o.phase \in {"check", "checked"} /\ Visited(L[ctx]) \subseteq Visited(o)
           /\ o.opened = L[ctx].opened \/ DOMAIN o.opened = {},
         NEW c, NEW m, CheckedOK(L, c, m)
  PROVE  CheckedOK(K, c, m)
<1>1. DOMAIN K = DOMAIN L /\ K[ctx] = o /\ \A e \in DOMAIN L \ {ctx} : K[e] = L[e]
  OBVIOUS
<1>2. c \in DOMAIN K => K[c].phase \in {"check", "checked"} /\ m \in Visited(K[c])
  BY <1>1 DEF CheckedOK
<1>3. ASSUME NEW p \in PathsAbove(c) \cap DOMAIN K, NEW s, ComesDown(L, p, s)
      PROVE  ComesDown(K, p, s)
  <2>1. CASE p = ctx
    BY <1>1, <1>3, <2>1 DEF ComesDown
  <2>2. CASE p # ctx
    BY <1>1, <1>3, <2>2 DEF ComesDown
  <2> QED  BY <2>1, <2>2
<1> QED  BY <1>1, <1>2, <1>3 DEF CheckedOK

(* The invariant after a step that changes one object in this way.          *)
LEMMA StepOfOne ==
  ASSUME NEW L, NEW K, TableInv(L, K, {}), NEW ctx \in DOMAIN L,
         NEW o, o.inv = L[ctx].inv,
         \/ o.opened = L[ctx].opened /\ o.phase = L[ctx].phase
         \/ DOMAIN L[ctx].opened = {},
         o.phase = "check" => o.pre = L[ctx].pre,
         L[ctx].phase \in {"check", "checked"} =>
           /\ o.phase \in {"check", "checked"} /\ Visited(L[ctx]) \subseteq Visited(o)
           /\ o.opened = L[ctx].opened \/ DOMAIN o.opened = {},
         NEW T, T = [L EXCEPT ![ctx] = o], ObjectOK(T, ctx)
  PROVE  TableInv(T, K, {})
<1>1. DOMAIN T = DOMAIN L /\ T[ctx] = o /\ \A e \in DOMAIN L \ {ctx} : T[e] = L[e]
  OBVIOUS
<1>2. \A e \in DOMAIN L : ObjectOK(L, e)
  BY DEF TableInv
<1>3. \A e \in DOMAIN T : ObjectOK(T, e)
  <2>1. \A e \in DOMAIN L \ {ctx} : ObjectOK(T, e)
    BY <1>2, OneChanged
  <2> QED  BY <1>1, <2>1
<1>4. \A c, m : CheckedOK(L, c, m) => CheckedOK(T, c, m)
  BY CheckedKept
<1>5. \A b \in DOMAIN K : b = <<b[1], b[2]>> /\ CheckedOK(T, b[1], b[2]) /\ K[b].times = 1
  BY <1>4 DEF TableInv
<1>6. ASSUME HeadsFresh  PROVE FreshIn(T)
  <2>1. SUFFICES ASSUME NEW e \in DOMAIN T, e # <<>>, T[Caller(e)].phase = "check"
                 PROVE  T[Caller(e)].pre[CallOf(e)] \subseteq T[e].inv
    BY DEF FreshIn
  <2>2. T[e].inv = L[e].inv /\ e \in DOMAIN L
    BY <1>1
  <2>3. /\ Caller(e) \in DOMAIN L /\ CallOf(e) \in DOMAIN L[Caller(e)].opened
    BY <2>1, <2>2, <1>2, Awaited
  <2>4. L[Caller(e)].phase = "check" /\ T[Caller(e)].pre = L[Caller(e)].pre
    BY <2>1, <2>3, <1>1
  <2>5. L[Caller(e)].pre[CallOf(e)] \subseteq L[e].inv
    BY <2>1, <2>2, <2>4, <1>6 DEF TableInv, FreshIn
  <2> QED  BY <2>2, <2>4, <2>5
<1>7. MixedIn(T, {})
  BY DEF MixedIn
<1> QED  BY <1>1, <1>3, <1>5, <1>6, <1>7 DEF TableInv

(* What holds of an object in a table.                                      *)
LEMMA ObjectFacts ==
  ASSUME NEW L, NEW K, NEW M, TableInv(L, K, M), NEW ctx \in DOMAIN L
  PROVE  /\ prog \in Programs /\ ctx \in Paths /\ ObjectOK(L, ctx)
         /\ IsObject(ctx, L[ctx]) /\ OpenedOK(L[ctx])
         /\ L[ctx].fun \in DOMAIN prog.cfg /\ L[ctx].fun = FunctionAt(ctx)
         /\ WellFormed(Order(L[ctx].fun), Graph(L[ctx].fun))
         /\ Graph(L[ctx].fun).node \subseteq Nat
         /\ L[ctx].phase = "run" => RunOK(L, ctx)
         /\ L[ctx].phase = "converged" => Settled(ctx, L[ctx])
         /\ L[ctx].phase = "check" => CheckOK(L, ctx)
         /\ ctx # <<>> => IsAwaited(L, ctx)
<1>1. prog \in Programs /\ ObjectOK(L, ctx)
  BY DEF TableInv
<1>2. IsObject(ctx, L[ctx])
  BY <1>1 DEF ObjectOK
<1>3. L[ctx].fun \in DOMAIN prog.cfg /\ L[ctx].fun = FunctionAt(ctx)
  BY <1>2 DEF IsObject
<1> QED  BY <1>1, <1>2, <1>3, ProgramFacts DEF ObjectOK

------------------------------------------------------------------------------
(* The steps of the fixpoint pass.                                          *)

(* A cell that may run is one of a block that is not open.                  *)
LEMMA ReadyCell ==
  ASSUME NEW L, NEW K, NEW M, TableInv(L, K, M), NEW ctx \in DOMAIN L, L[ctx].phase = "run",
         NEW c \in Ready(L[ctx]) \ Exits(Order(L[ctx].fun))
  PROVE  LET o == L[ctx]  w == Order(o.fun)  n == w.node[c]
         IN  /\ c \in Cells(w) /\ c \notin o.done /\ w.pred[c] \subseteq o.done
             /\ n \in Graph(o.fun).node /\ CellOf(w, n) = c /\ n \notin DOMAIN o.opened
             /\ \A d \in Graph(o.fun).node : CellOf(w, d) = c => d = n
<1> DEFINE o == L[ctx]  w == Order(o.fun)  g == Graph(o.fun)
<1>1. WellFormed(w, g)
  BY ObjectFacts
<1>2. /\ c \in Cells(w) /\ c \notin o.done /\ w.pred[c] \subseteq o.done
      /\ c \notin Busy(o) /\ c \notin Exits(w)
  BY DEF Ready
<1>3. w.node[c] \in g.node /\ CellOf(w, w.node[c]) = c
  <2>1. w.type[c] # "exit"
    BY <1>2 DEF Exits
  <2> HIDE DEF w, g
  <2> QED  BY <1>1, <1>2, <2>1, CellFacts, CellOfBlock
<1>4. w.node[c] \notin DOMAIN o.opened
  BY <1>2, <1>3 DEF Busy
<1>5. \A d \in g.node : w.node[CellOf(w, d)] = d
  BY <1>1 DEF WellFormed, BlocksCovered
<1> QED  BY <1>2, <1>3, <1>4, <1>5

(* The rule of a plain or head cell changes the invariant of its block.     *)
LEMMA EnteredFacts ==
  ASSUME NEW ctx, NEW o, IsObject(ctx, o), NEW c
  PROVE  LET r == Entered(o, c)  n == Order(o.fun).node[c]
         IN  /\ IsObject(ctx, r)
             /\ r.fun = o.fun /\ r.inv = o.inv /\ r.phase = o.phase /\ r.next = o.next
             /\ r.opened = o.opened /\ r.cache = o.cache /\ r.done = o.done
             /\ r.post = o.post
             /\ n \in Graph(o.fun).node => r.pre[n] = PreOf(o, c)
             /\ \A d \in Graph(o.fun).node : d # n => r.pre[d] = o.pre[d]
  BY DEF IsObject, Fields, Entered

(* RunBlock: the value of a block that is done now needs no callee.         *)
LEMMA BlockRun ==
  ASSUME NEW L, NEW K, TableInv(L, K, {}), NEW ctx \in DOMAIN L, L[ctx].phase = "run",
         NEW c \in Ready(L[ctx]) \ Exits(Order(L[ctx].fun)),
         ~ NeedsCallees(ctx, Order(L[ctx].fun).node[c], PreOf(L[ctx], c)),
         NEW post,
         NEW T, T = [L EXCEPT ![ctx] = [Entered(L[ctx], c) EXCEPT !.post = post,
                                                                  !.done = @ \cup {c}]]
  PROVE  TableInv(T, K, {})
<1> DEFINE o == L[ctx]  w == Order(o.fun)  n == w.node[c]
           r == [Entered(o, c) EXCEPT !.post = post, !.done = @ \cup {c}]
<1>1. IsObject(ctx, o) /\ OpenedOK(o) /\ RunOK(L, ctx) /\ ctx \in Paths
  BY ObjectFacts
<1>2. /\ c \in Cells(w) /\ c \notin o.done /\ w.pred[c] \subseteq o.done
      /\ n \in Graph(o.fun).node /\ CellOf(w, n) = c /\ n \notin DOMAIN o.opened
      /\ \A d \in Graph(o.fun).node : CellOf(w, d) = c => d = n
  BY ReadyCell, Zenon
<1>3. /\ IsObject(ctx, r)
      /\ r.fun = o.fun /\ r.inv = o.inv /\ r.phase = o.phase /\ r.next = o.next
      /\ r.opened = o.opened /\ r.cache = o.cache /\ r.done = o.done \cup {c}
      /\ r.pre[n] = PreOf(o, c)
      /\ \A d \in Graph(o.fun).node : d # n => r.pre[d] = o.pre[d]
  <2> DEFINE e == Entered(o, c)
  <2>1. /\ IsObject(ctx, e)
        /\ e.fun = o.fun /\ e.inv = o.inv /\ e.phase = o.phase /\ e.next = o.next
        /\ e.opened = o.opened /\ e.cache = o.cache /\ e.done = o.done
        /\ n \in Graph(o.fun).node => e.pre[n] = PreOf(o, c)
        /\ \A d \in Graph(o.fun).node : d # n => e.pre[d] = o.pre[d]
    BY <1>1, EnteredFacts
  <2> HIDE DEF e
  <2>2. r = [e EXCEPT !.post = post, !.done = @ \cup {c}]
    BY DEF e
  <2> HIDE DEF r, o, n
  <2> QED  BY <1>2, <2>1, <2>2 DEF IsObject, Fields
<1> HIDE DEF r
<1>4. T[ctx] = r /\ DOMAIN T = DOMAIN L /\ \A d \in DOMAIN L : T[d].inv = L[d].inv
  BY <1>3 DEF r
<1>5. OpenedOK(r)
  <2>1. ASSUME NEW d \in DOMAIN o.opened
        PROVE  d \in Graph(o.fun).node /\ CellOf(w, d) \notin o.done /\ CellOf(w, d) # c
    BY <1>1, <1>2 DEF OpenedOK
  <2> QED  BY <1>1, <1>3, <2>1 DEF OpenedOK
<1>6. CacheFilled(ctx, r, BlocksDone(r))
  <2>1. SUFFICES ASSUME HeadsFresh, NEW d \in BlocksDone(r), NEW f \in DOMAIN prog.cfg,
                        Takes(ctx, r, d, f)
                 PROVE  Fresh(r, d, f)
    BY DEF CacheFilled
  <2>2. d # n
    BY <2>1, <1>3 DEF Takes
  <2>3. d \in BlocksDone(o) /\ r.pre[d] = o.pre[d]
    BY <2>2, <1>2, <1>3 DEF BlocksDone
  <2>4. Takes(ctx, o, d, f)
    BY <2>1, <2>3 DEF Takes
  <2>5. Fresh(o, d, f)
    BY <2>1, <2>3, <2>4, <1>1 DEF RunOK, CacheFilled
  <2> QED  BY <2>3, <2>5, <1>3 DEF Fresh
<1>7. RunOK(T, ctx)
  <2>1. ASSUME NEW d \in DOMAIN r.opened
        PROVE  /\ r.opened[d].callees = Collected(ctx, d, r.pre[d])
               /\ \A f \in r.opened[d].callees :
                    /\ Callee(ctx, d, f) \in DOMAIN T
                    /\ r.pre[d] \subseteq T[Callee(ctx, d, f)].inv
    <3>1. d \in DOMAIN o.opened /\ d # n /\ d \in Graph(o.fun).node
      BY <1>1, <1>2, <1>3 DEF OpenedOK
    <3>2. r.pre[d] = o.pre[d] /\ r.opened[d] = o.opened[d]
      BY <3>1, <1>3
    <3> QED  BY <3>1, <3>2, <1>1, <1>4 DEF RunOK
  <2>2. /\ o.next = 1 /\ o.done \subseteq Cells(w)
        /\ \A d \in o.done \cup Busy(o) : w.pred[d] \subseteq o.done
        /\ \A s \in DOMAIN o.cache : Settled(Append(ctx, s), o.cache[s])
    BY <1>1 DEF RunOK
  <2>3. \A d \in r.done \cup Busy(r) : w.pred[d] \subseteq r.done
    <3>1. Busy(r) = Busy(o)
      BY <1>3 DEF Busy
    <3> QED  BY <3>1, <2>2, <1>2, <1>3
  <2> QED  BY <2>1, <2>2, <2>3, <1>2, <1>3, <1>4, <1>6 DEF RunOK
<1>8. ctx # <<>> => IsAwaited(T, ctx)
  <2>1. \A e \in DOMAIN L : ObjectOK(L, e)
    BY DEF TableInv
  <2>2. T = [L EXCEPT ![ctx] = r] /\ r.inv = L[ctx].inv /\ r.opened = L[ctx].opened
        /\ r.phase = L[ctx].phase
    BY <1>3 DEF r
  <2> QED  BY <2>1, <2>2, OneChanged
<1>9. ObjectOK(T, ctx)
  BY <1>1, <1>3, <1>4, <1>5, <1>7, <1>8 DEF ObjectOK
<1>10. T = [L EXCEPT ![ctx] = r]
  BY DEF r
<1>11. L[ctx].phase \notin {"check", "checked"} /\ r.phase # "check"
  BY <1>3
<1> QED  BY <1>3, <1>9, <1>10, <1>11, StepOfOne, Zenon

(* The loop of x is left, or its cells run again; its head alone changes.   *)
ExitTaken(o, r, x, n) ==
  /\ \A d \in Graph(o.fun).node : d # n => r.pre[d] = o.pre[d]
  /\ \/ /\ r.done = o.done \cup {x}
        /\ prog.narrows => r.pre[n] = o.pre[n]
     \/ r.done = o.done \ Order(o.fun).comp[x]

(* CheckStabilization: a loop that is left keeps the value of its head, or  *)
(* its head does not call; one that goes on takes its cells back.           *)
LEMMA ExitRun ==
  ASSUME NEW L, NEW K, TableInv(L, K, {}), NEW ctx \in DOMAIN L, L[ctx].phase = "run",
         NEW x \in Ready(L[ctx]) \cap Exits(Order(L[ctx].fun)),
         NEW n, n = Order(L[ctx].fun).node[HeadOfExit(x)],
         NEW r, IsObject(ctx, r),
         r.fun = L[ctx].fun, r.inv = L[ctx].inv, r.phase = L[ctx].phase,
         r.next = L[ctx].next, r.opened = L[ctx].opened, r.cache = L[ctx].cache,
         ExitTaken(L[ctx], r, x, n),
         NEW T, T = [L EXCEPT ![ctx] = r]
  PROVE  TableInv(T, K, {})
<1> USE DEF ExitTaken
<1> DEFINE o == L[ctx]  w == Order(o.fun)  g == Graph(o.fun)  h == HeadOfExit(x)
           C == w.comp[x]
<1>1. IsObject(ctx, o) /\ OpenedOK(o) /\ RunOK(L, ctx) /\ ctx \in Paths /\ WellFormed(w, g)
      /\ o.fun \in DOMAIN prog.cfg
  BY ObjectFacts
<1>2. T[ctx] = r /\ DOMAIN T = DOMAIN L /\ \A d \in DOMAIN L : T[d].inv = L[d].inv
  OBVIOUS
<1>3. /\ o.next = 1 /\ o.done \subseteq Cells(w)
      /\ \A d \in o.done \cup Busy(o) : w.pred[d] \subseteq o.done
      /\ \A s \in DOMAIN o.cache : Settled(Append(ctx, s), o.cache[s])
  BY <1>1 DEF RunOK
<1>4. x \in Exits(w) /\ x \in Cells(w) /\ x \notin o.done /\ w.pred[x] \subseteq o.done
  BY DEF Ready
<1>5. /\ h \in Heads(w) /\ h \in Cells(w) /\ h # x /\ h \in C /\ w.type[h] = "head"
      /\ \A c \in C \ {x} : w.succ[c] \subseteq C
      /\ C \subseteq Cells(w)
  <2> HIDE DEF w, g
  <2> QED  BY <1>1, <1>4, ComponentFacts
<1>6. C \ {x} \subseteq o.done
  <2> HIDE DEF w, g
  <2> QED  BY <1>1, <1>3, <1>4, ComponentBeforeExit
<1>7. n \in g.node /\ CellOf(w, n) = h /\ h \in o.done
  <2>1. w.node[h] \in g.node /\ CellOf(w, w.node[h]) = h
    <3> HIDE DEF w, g, h
    <3> QED  BY <1>1, <1>5, CellFacts, CellOfBlock
  <2> QED  BY <2>1, <1>5, <1>6
<1>8. n \notin DOMAIN o.opened
  BY <1>1, <1>7 DEF OpenedOK
<1>9. \A d \in g.node : CellOf(w, d) \in Cells(w) /\ CellOf(w, d) # x
  BY <1>1, <1>4 DEF WellFormed, BlocksCovered
<1>10. r.done \subseteq Cells(w) /\ \A c \in r.done \cup Busy(r) : w.pred[c] \subseteq r.done
  <2>1. Busy(r) = Busy(o)
    BY DEF Busy
  <2>2. \A c \in Busy(o) : c \in Cells(w) /\ c # x /\ c \notin o.done
    BY <1>1, <1>9 DEF Busy, OpenedOK
  <2>3. CASE r.done = o.done \cup {x}
    BY <2>1, <2>3, <1>3, <1>4
  <2>4. CASE r.done = o.done \ C
    <3>1. SUFFICES ASSUME NEW c \in (o.done \ C) \cup Busy(o), NEW d \in w.pred[c]
                   PROVE  d \in o.done \ C
      BY <2>1, <2>4, <1>3
    <3>2. c \in Cells(w) /\ d \in o.done /\ d \in Cells(w) /\ d # x
      BY <3>1, <2>2, <1>3, <1>4
    <3>3. c \in w.succ[d]
      <4> HIDE DEF w, g
      <4> QED  BY <3>1, <3>2, <1>1, ConstraintFacts
    <3>4. c \notin C
      BY <3>1, <2>2, <1>6
    <3> QED  BY <3>1, <3>2, <3>3, <3>4, <1>5
  <2> QED  BY <2>3, <2>4
<1>11. \A d \in g.node : CellOf(w, d) \in r.done => CellOf(w, d) \in o.done
  BY <1>9
<1>12. OpenedOK(r)
  BY <1>1, <1>11 DEF OpenedOK
<1>13. CacheFilled(ctx, r, BlocksDone(r))
  <2>1. SUFFICES ASSUME HeadsFresh, NEW d \in BlocksDone(r), NEW f \in DOMAIN prog.cfg,
                        Takes(ctx, r, d, f)
                 PROVE  Fresh(r, d, f)
    BY DEF CacheFilled
  <2>2. d \in g.node /\ CellOf(w, d) \in r.done
    BY DEF BlocksDone
  <2>3. d \in BlocksDone(o)
    BY <2>2, <1>11 DEF BlocksDone
  <2>4. r.pre[d] = o.pre[d]
    <3>1. CASE d # n
      BY <3>1, <2>2
    <3>2. CASE d = n
      <4>1. r.done # o.done \ C
        BY <3>2, <2>2, <1>5, <1>7
      <4>2. HasCall(o.fun, n)
        BY <3>2, <2>1, <1>1 DEF Takes, NeedsCallees, IsObject
      <4>3. prog.narrows
        BY <4>2, <2>1, <1>1, <1>5 DEF HeadsFresh
      <4> QED  BY <3>2, <4>1, <4>3
    <3> QED  BY <3>1, <3>2
  <2>5. Takes(ctx, o, d, f)
    BY <2>1, <2>4 DEF Takes
  <2>6. Fresh(o, d, f)
    BY <2>1, <2>3, <2>5, <1>1 DEF RunOK, CacheFilled
  <2> QED  BY <2>4, <2>6 DEF Fresh
<1>14. RunOK(T, ctx)
  <2>1. ASSUME NEW d \in DOMAIN r.opened
        PROVE  /\ r.opened[d].callees = Collected(ctx, d, r.pre[d])
               /\ \A f \in r.opened[d].callees :
                    /\ Callee(ctx, d, f) \in DOMAIN T
                    /\ r.pre[d] \subseteq T[Callee(ctx, d, f)].inv
    <3>1. d \in DOMAIN o.opened /\ d # n /\ d \in g.node
      BY <1>1, <1>8 DEF OpenedOK
    <3>2. r.pre[d] = o.pre[d] /\ r.opened[d] = o.opened[d]
      BY <3>1
    <3> QED  BY <3>1, <3>2, <1>1, <1>2 DEF RunOK
  <2> QED  BY <2>1, <1>2, <1>3, <1>10, <1>13 DEF RunOK
<1>15. ctx # <<>> => IsAwaited(T, ctx)
  <2>1. \A e \in DOMAIN L : ObjectOK(L, e)
    BY DEF TableInv
  <2> QED  BY <2>1, OneChanged, Zenon
<1>16. ObjectOK(T, ctx)
  BY <1>1, <1>2, <1>12, <1>14, <1>15 DEF ObjectOK
<1> QED  BY <1>16, StepOfOne, Zenon

(* Converge: when all cells have run, no call waits, and the fixpoints that *)
(* the check pass will need are in the cache.                               *)
LEMMA FixpointFound ==
  ASSUME NEW L, NEW K, TableInv(L, K, {}), NEW ctx \in DOMAIN L, L[ctx].phase = "run",
         L[ctx].done = Cells(Order(L[ctx].fun)),
         NEW r, IsObject(ctx, r), r.phase = "converged",
         r.fun = L[ctx].fun, r.inv = L[ctx].inv, r.pre = L[ctx].pre,
         r.next = L[ctx].next, r.opened = L[ctx].opened, r.cache = L[ctx].cache,
         NEW T, T = [L EXCEPT ![ctx] = r]
  PROVE  TableInv(T, K, {})
<1> DEFINE o == L[ctx]  w == Order(o.fun)  g == Graph(o.fun)
<1>1. IsObject(ctx, o) /\ OpenedOK(o) /\ RunOK(L, ctx) /\ ctx \in Paths /\ WellFormed(w, g)
  BY ObjectFacts
<1>2. T[ctx] = r /\ DOMAIN T = DOMAIN L
  OBVIOUS
<1>3. \A d \in g.node : CellOf(w, d) \in o.done
  BY <1>1 DEF WellFormed, BlocksCovered
<1>4. DOMAIN o.opened = {}
  BY <1>1, <1>3 DEF OpenedOK
<1>5. BlocksDone(o) = g.node
  BY <1>3 DEF BlocksDone
<1>6. CacheFilled(ctx, r, g.node)
  BY <1>1, <1>5 DEF RunOK, CacheFilled, Takes, Fresh
<1>7. Resting(ctx, r)
  BY <1>1, <1>4, <1>6 DEF Resting, RunOK
<1>8. Settled(ctx, r)
  BY <1>1, <1>7, SettledIntro DEF RunOK
<1>9. OpenedOK(r)
  BY <1>4 DEF OpenedOK
<1>10. ctx # <<>> => IsAwaited(T, ctx)
  <2>1. \A e \in DOMAIN L : ObjectOK(L, e)
    BY DEF TableInv
  <2> QED  BY <2>1, <1>4, OneChanged
<1>11. ObjectOK(T, ctx)
  BY <1>1, <1>2, <1>8, <1>9, <1>10 DEF ObjectOK
<1> QED  BY <1>4, <1>11, StepOfOne

------------------------------------------------------------------------------
(* The steps of the check pass.                                             *)

(* StartChecks: all that was settled may be looked for.                     *)
LEMMA ChecksStarted ==
  ASSUME NEW L, NEW K, TableInv(L, K, {}), NEW ctx \in DOMAIN L, L[ctx].phase = "converged",
         ctx # <<>> => L[Caller(ctx)].phase = "check",
         NEW r, IsObject(ctx, r), r.phase = "check",
         r.fun = L[ctx].fun, r.inv = L[ctx].inv, r.pre = L[ctx].pre,
         r.next = L[ctx].next, r.opened = L[ctx].opened, r.cache = L[ctx].cache,
         NEW T, T = [L EXCEPT ![ctx] = r]
  PROVE  TableInv(T, K, {})
<1> DEFINE o == L[ctx]  g == Graph(o.fun)
<1>1. IsObject(ctx, o) /\ OpenedOK(o) /\ Settled(ctx, o) /\ ctx \in Paths
  BY ObjectFacts
<1>2. T[ctx] = r /\ DOMAIN T = DOMAIN L
  OBVIOUS
<1>3. Resting(ctx, o) /\ \A s \in DOMAIN o.cache : Settled(Append(ctx, s), o.cache[s])
  BY <1>1, SettledElim
<1>4. DOMAIN o.opened = {} /\ o.next = 1 /\ CacheFilled(ctx, o, g.node)
  BY <1>3 DEF Resting
<1>5. CacheFilled(ctx, r, g.node \ Visited(r))
  BY <1>4 DEF CacheFilled, Takes, Fresh
<1>6. \A e \in DOMAIN L : ObjectOK(L, e)
  BY DEF TableInv
<1>7. /\ ctx # <<>> => IsAwaited(T, ctx)
      /\ \A p \in PathsAbove(ctx) : \A n : ChecksCall(L, p, n) => ChecksCall(T, p, n)
  BY <1>4, <1>6, OneChanged
<1>8. ASSUME NEW p \in PathsAbove(ctx)  PROVE ChecksCall(L, p, CallAfter(p, ctx)[1])
  <2>1. ctx # <<>>
    BY <1>8, PathEnds
  <2>2. IsAwaited(L, ctx) /\ L[Caller(ctx)].phase = "check"
    BY <2>1, ObjectFacts
  <2>3. CASE p = Caller(ctx)
    BY <2>1, <2>2, <2>3, <1>1, CallerAbove DEF IsAwaited, ChecksCall
  <2>4. CASE p \in PathsAbove(Caller(ctx))
    <3>1. Caller(ctx) \in DOMAIN L
      BY <2>2 DEF IsAwaited
    <3>2. CheckOK(L, Caller(ctx))
      BY <3>1, <2>2, ObjectFacts
    <3>3. ChecksCall(L, p, CallAfter(p, Caller(ctx))[1])
      BY <2>4, <3>2 DEF CheckOK
    <3> QED  BY <2>1, <2>4, <3>3, <1>1, CallerAbove
  <2> QED  BY <2>1, <2>3, <2>4, <1>1, <1>8, CallerAbove
<1>9. CheckOK(T, ctx)
  BY <1>2, <1>3, <1>5, <1>7, <1>8 DEF CheckOK
<1>10. OpenedOK(r)
  BY <1>4 DEF OpenedOK
<1>11. ObjectOK(T, ctx)
  BY <1>1, <1>2, <1>7, <1>9, <1>10 DEF ObjectOK
<1> QED  BY <1>4, <1>11, StepOfOne

(* The block that the check pass is at was not checked before.              *)
LEMMA FirstCheck ==
  ASSUME NEW L, NEW K, NEW M, TableInv(L, K, M), NEW ctx \in DOMAIN L,
         L[ctx].phase = "check", DOMAIN L[ctx].opened = {}
  PROVE  <<ctx, L[ctx].next>> \notin DOMAIN K
<1>1. L[ctx].next \in Nat /\ L[ctx].next # 0
  BY ObjectFacts DEF IsObject
<1>2. L[ctx].next \notin Visited(L[ctx])
  BY <1>1 DEF Visited
<1>3. SUFFICES ASSUME <<ctx, L[ctx].next>> \in DOMAIN K  PROVE FALSE
  OBVIOUS
<1>4. CheckedOK(L, ctx, L[ctx].next)
  BY <1>3 DEF TableInv
<1> QED  BY <1>2, <1>4 DEF CheckedOK

(* While it is, all contexts above wait for it.                             *)
LEMMA CheckedHere ==
  ASSUME NEW T, NEW ctx \in DOMAIN T, ObjectOK(T, ctx), T[ctx].phase = "check",
         NEW n \in Visited(T[ctx])
  PROVE  CheckedOK(T, ctx, n)
<1>1. ctx \in Paths /\ CheckOK(T, ctx)
  BY DEF ObjectOK
<1>2. \A p \in PathsAbove(ctx) : ChecksCall(T, p, CallAfter(p, ctx)[1])
  BY <1>1 DEF CheckOK
<1>3. ASSUME NEW p \in PathsAbove(ctx)  PROVE ComesDown(T, p, CallAfter(p, ctx))
  <2>1. ChecksCall(T, p, CallAfter(p, ctx)[1])
    BY <1>2
  <2>2. Append(p, CallAfter(p, ctx)) \in DOMAIN T
    BY <1>1, <1>2, PathDown DEF ChecksCall
  <2> QED  BY <2>1, <2>2 DEF ComesDown, ChecksCall, Visited
<1> QED  BY <1>1, <1>3 DEF CheckedOK

(* CheckBlock: a block without a call, or with one that is not inlined.     *)
LEMMA BlockChecked ==
  ASSUME NEW L, NEW K, TableInv(L, K, {}), NEW ctx \in DOMAIN L, L[ctx].phase = "check",
         DOMAIN L[ctx].opened = {}, L[ctx].next \in Graph(L[ctx].fun).node,
         NEW r, IsObject(ctx, r), r.phase = "check",
         r.fun = L[ctx].fun, r.inv = L[ctx].inv, r.pre = L[ctx].pre,
         r.next = L[ctx].next + 1, r.opened = L[ctx].opened,
         DOMAIN r.cache \subseteq DOMAIN L[ctx].cache,
         \A s \in DOMAIN L[ctx].cache : s[1] # L[ctx].next =>
            s \in DOMAIN r.cache /\ r.cache[s] = L[ctx].cache[s],
         NEW T, T = [L EXCEPT ![ctx] = r]
  PROVE  TableInv(T, K, {}) /\ CheckedOK(T, ctx, L[ctx].next)
<1> DEFINE o == L[ctx]  g == Graph(o.fun)  n == o.next
<1>1. IsObject(ctx, o) /\ OpenedOK(o) /\ CheckOK(L, ctx) /\ ctx \in Paths
  BY ObjectFacts
<1>2. T[ctx] = r /\ DOMAIN T = DOMAIN L
  OBVIOUS
<1>3. Visited(o) = 1..(n - 1) /\ Visited(r) = 1..n /\ n \in Nat /\ n # 0
  BY <1>1 DEF Visited, IsObject
<1>4. n \notin Visited(o) /\ n \in Visited(r) /\ Visited(o) \subseteq Visited(r)
  BY <1>3
<1>5. \A s \in DOMAIN r.cache : s[1] \notin Visited(r) => Settled(Append(ctx, s), r.cache[s])
  BY <1>1, <1>4 DEF CheckOK
<1>6. CacheFilled(ctx, r, g.node \ Visited(r))
  <2>1. SUFFICES ASSUME HeadsFresh, NEW d \in g.node \ Visited(r), NEW f \in DOMAIN prog.cfg,
                        Takes(ctx, r, d, f)
                 PROVE  Fresh(r, d, f)
    BY DEF CacheFilled
  <2>2. d \notin Visited(o) /\ d # n /\ Takes(ctx, o, d, f)
    BY <2>1, <1>4 DEF Takes
  <2>3. Fresh(o, d, f)
    BY <2>1, <2>2, <1>1 DEF CheckOK, CacheFilled
  <2> QED  BY <2>2, <2>3 DEF Fresh
<1>7. \A e \in DOMAIN L : ObjectOK(L, e)
  BY DEF TableInv
<1>8. /\ ctx # <<>> => IsAwaited(T, ctx)
      /\ \A p \in PathsAbove(ctx) : \A m : ChecksCall(L, p, m) => ChecksCall(T, p, m)
  BY <1>7, OneChanged
<1>9. CheckOK(T, ctx)
  BY <1>1, <1>2, <1>5, <1>6, <1>8 DEF CheckOK
<1>10. OpenedOK(r)
  BY <1>1 DEF OpenedOK
<1>11. ObjectOK(T, ctx)
  BY <1>1, <1>2, <1>8, <1>9, <1>10 DEF ObjectOK
<1>12. TableInv(T, K, {})
  BY <1>4, <1>11, StepOfOne
<1>13. CheckedOK(T, ctx, n)
  BY <1>2, <1>4, <1>11, CheckedHere
<1> QED  BY <1>12, <1>13

------------------------------------------------------------------------------
(* The steps that call.                                                     *)

CalleePaths(ctx, n, F) == {Callee(ctx, n, f) : f \in F}

(* Table T is L with block n of ctx open and objects for the callees F.     *)
CallAdded(L, T, ctx, n, F) ==
  LET o == L[ctx]  r == T[ctx]
  IN  /\ n \in Nat \ DOMAIN o.opened /\ F \subseteq DOMAIN prog.cfg
      /\ o.phase = "run" \/ (o.phase = "check" /\ n \notin Visited(o))
      /\ r.inv = o.inv /\ r.phase = o.phase /\ r.next = o.next
      /\ DOMAIN r.opened = DOMAIN o.opened \cup {n} /\ F \subseteq r.opened[n].callees
      /\ \A d \in DOMAIN o.opened : r.opened[d] = o.opened[d]
      /\ DOMAIN T = DOMAIN L \cup CalleePaths(ctx, n, F)
      /\ \A e \in DOMAIN L \ {ctx} : T[e] = L[e]

CallSound(L, T, ctx, n, F) ==
  /\ \A f \in F :
       LET d == Callee(ctx, n, f)
       IN  /\ d \notin DOMAIN L /\ d \in Paths /\ d # <<>>
           /\ Caller(d) = ctx /\ CallOf(d) = n /\ FunctionAt(d) = f
           /\ IsAwaited(T, d)
  /\ \A e \in DOMAIN L \ {ctx} : ObjectOK(T, e)
  /\ ctx # <<>> => IsAwaited(T, ctx)
  /\ \A p, m : ChecksCall(L, p, m) => ChecksCall(T, p, m)
  /\ \A c, m : CheckedOK(L, c, m) => CheckedOK(T, c, m)

(* It has callers for all objects, and nothing below the call was checked   *)
(* before.                                                                  *)
LEMMA CalleesAdded ==
  ASSUME NEW L, NEW K, TableInv(L, K, {}), NEW ctx \in DOMAIN L,
         NEW T, NEW n, NEW F, CallAdded(L, T, ctx, n, F)
  PROVE  CallSound(L, T, ctx, n, F)
<1> DEFINE o == L[ctx]  r == T[ctx]
<1> USE DEF CalleePaths, CallAdded
<1>1. \A e \in DOMAIN L : ObjectOK(L, e) /\ T[e].inv = L[e].inv /\ T[e].phase = L[e].phase
  BY DEF TableInv
<1>2. ctx \in Paths /\ \A f \in F : <<n, f>> \in Calls
  BY ObjectFacts, ProgramFacts DEF Calls
<1>3. ASSUME NEW f \in F
      PROVE  LET d == Callee(ctx, n, f)
             IN  /\ d \notin DOMAIN L /\ d \in Paths /\ d # <<>>
                 /\ Caller(d) = ctx /\ CallOf(d) = n /\ FunctionAt(d) = f
                 /\ IsAwaited(T, d)
  <2> DEFINE d == Callee(ctx, n, f)
  <2>1. /\ d \in Paths /\ d # <<>>
        /\ Caller(d) = ctx /\ CallOf(d) = n /\ FunctionAt(d) = f
    BY <1>2, PathExtended DEF Callee
  <2> HIDE DEF d
  <2>2. d \notin DOMAIN L
    BY <1>1, <2>1, Awaited
  <2>3. IsAwaited(T, d)
    BY <2>1 DEF IsAwaited
  <2> QED  BY <2>1, <2>2, <2>3 DEF d
<1>4. \A p, m : ChecksCall(L, p, m) => ChecksCall(T, p, m)
  BY DEF ChecksCall
<1>5. \A e \in DOMAIN L : IsAwaited(L, e) => IsAwaited(T, e)
  BY DEF IsAwaited
<1>6. ASSUME NEW e \in DOMAIN L \ {ctx}  PROVE ObjectOK(T, e)
  <2>1. ObjectOK(L, e) /\ T[e] = L[e]
    BY <1>1
  <2>2. e # <<>> => IsAwaited(T, e)
    BY <2>1, <1>5 DEF ObjectOK
  <2>3. L[e].phase = "run" =>
          \A m \in DOMAIN L[e].opened : \A f \in L[e].opened[m].callees :
            Callee(e, m, f) \in DOMAIN T /\ T[Callee(e, m, f)].inv = L[Callee(e, m, f)].inv
    <3>1. ASSUME L[e].phase = "run", NEW m \in DOMAIN L[e].opened,
                 NEW f \in L[e].opened[m].callees
          PROVE  Callee(e, m, f) \in DOMAIN L
      BY <3>1, <2>1 DEF ObjectOK, RunOK
    <3> QED  BY <3>1, <1>1
  <2>4. L[e].phase = "check" =>
          \A p \in PathsAbove(e) : ChecksCall(T, p, CallAfter(p, e)[1])
    BY <2>1, <1>4 DEF ObjectOK, CheckOK
  <2> QED  BY <2>1, <2>2, <2>3, <2>4, OtherObject
<1>7. Visited(o) \subseteq Visited(r)
  BY DEF Visited
<1>8. ASSUME NEW c, NEW m, CheckedOK(L, c, m)  PROVE CheckedOK(T, c, m)
  <2>1. c \in Paths
    BY <1>8 DEF CheckedOK
  <2>2. ASSUME NEW f \in F  PROVE Callee(ctx, n, f) # c /\ Callee(ctx, n, f) \notin PathsAbove(c)
    <3>1. SUFFICES ASSUME ctx \in PathsAbove(c), CallAfter(ctx, c) = <<n, f>>
                   PROVE  FALSE
      BY <1>2, <2>1, PathAboveUnique DEF Callee
    <3>2. ComesDown(L, ctx, <<n, f>>)
      BY <3>1, <1>8 DEF CheckedOK
    <3> QED  BY <3>2 DEF ComesDown
  <2>3. c \in DOMAIN T => T[c].phase \in {"check", "checked"} /\ m \in Visited(T[c])
    BY <2>2, <1>7, <1>8 DEF CheckedOK
  <2>4. ASSUME NEW p \in PathsAbove(c) \cap DOMAIN T  PROVE ComesDown(T, p, CallAfter(p, c))
    <3>1. p \in DOMAIN L
      BY <2>2
    <3> DEFINE s == CallAfter(p, c)
    <3>2. ComesDown(L, p, s)
      BY <3>1, <1>8 DEF CheckedOK
    <3>5. Append(p, s) \in DOMAIN L => Append(p, s) \in DOMAIN T
      OBVIOUS
    <3> HIDE DEF s
    <3>3. ASSUME p = ctx  PROVE ComesDown(T, p, s)
      <4>1. s[1] \in Visited(o) /\ s[1] # n
        BY <3>2, <3>3 DEF ComesDown
      <4>2. s[1] \in DOMAIN r.opened => s[1] \in DOMAIN o.opened /\ r.opened[s[1]] = o.opened[s[1]]
        BY <4>1
      <4>3. T[p] = r /\ L[p] = o /\ r.phase = o.phase
        BY <3>3
      <4> HIDE DEF o
      <4> QED  BY <3>2, <3>5, <4>1, <4>2, <4>3, <1>7 DEF ComesDown
    <3>4. ASSUME p # ctx  PROVE ComesDown(T, p, s)
      <4>1. T[p] = L[p]
        BY <3>1, <3>4
      <4> QED  BY <3>2, <3>5, <4>1 DEF ComesDown
    <3> QED  BY <3>3, <3>4 DEF s
  <2> QED  BY <2>1, <2>3, <2>4 DEF CheckedOK
<1>9. ctx # <<>> => IsAwaited(T, ctx)
  BY <1>5, ObjectFacts
<1> QED  BY <1>3, <1>4, <1>6, <1>8, <1>9 DEF CallSound

(* A block that is not open has no callees in the table.                    *)
LEMMA NotCalled ==
  ASSUME NEW L, NEW K, NEW M, TableInv(L, K, M), NEW ctx \in DOMAIN L,
         NEW n \in Nat, n \notin DOMAIN L[ctx].opened, NEW f \in DOMAIN prog.cfg
  PROVE  Callee(ctx, n, f) \notin DOMAIN L /\ Callee(ctx, n, f) # ctx
<1>1. ctx \in Paths /\ <<n, f>> \in Calls
  BY ObjectFacts, ProgramFacts DEF Calls
<1> DEFINE d == Callee(ctx, n, f)
<1>2. d # <<>> /\ Caller(d) = ctx /\ CallOf(d) = n
  BY <1>1, PathExtended DEF Callee
<1> HIDE DEF d
<1>3. \A e \in DOMAIN L : ObjectOK(L, e)
  BY DEF TableInv
<1>4. d \notin DOMAIN L
  BY <1>2, <1>3, Awaited
<1> QED  BY <1>4 DEF d

(* The table of the new objects of a call.                                  *)
LEMMA NewCalleesFacts ==
  ASSUME prog \in Programs, NEW ctx \in Paths, NEW n \in Nat, NEW v
  PROVE  /\ DOMAIN NewCallees(ctx, n, v) = CalleePaths(ctx, n, Collected(ctx, n, v))
         /\ \A f \in Collected(ctx, n, v) :
              NewCallees(ctx, n, v)[Callee(ctx, n, f)] = NewFixpoint(f, v)
<1>1. ASSUME NEW f \in Collected(ctx, n, v)  PROVE Last(Callee(ctx, n, f))[2] = f
  <2>1. <<n, f>> \in Calls
    BY CollectedFacts, ProgramFacts DEF Calls
  <2> QED  BY <2>1, PathExtended DEF Callee
<1> QED  BY <1>1 DEF NewCallees, CalleePaths

(* A block is opened.                                                       *)
LEMMA OpenFacts ==
  ASSUME NEW ctx, NEW o, IsObject(ctx, o), NEW n, NEW v
  PROVE  LET r == Open(o, ctx, n, v)
         IN  /\ IsObject(ctx, r)
             /\ r.fun = o.fun /\ r.inv = o.inv /\ r.phase = o.phase /\ r.next = o.next
             /\ r.pre = o.pre /\ r.cache = o.cache /\ r.done = o.done
             /\ DOMAIN r.opened = DOMAIN o.opened \cup {n}
             /\ r.opened[n].callees = Collected(ctx, n, v)
             /\ DOMAIN r.opened[n] = {"callees", "post"}
             /\ \A d \in DOMAIN o.opened : d # n => r.opened[d] = o.opened[d]
<1> DEFINE w == [m \in {n} |-> [callees |-> Collected(ctx, n, v), post |-> ExternPost(o.fun, n, v)]]
           a == With(o.opened, w)
           r == [o EXCEPT !.opened = a]
<1>1. Open(o, ctx, n, v) = r
  BY DEF Open
<1>2. /\ DOMAIN a = DOMAIN o.opened \cup {n}
      /\ a[n] = [callees |-> Collected(ctx, n, v), post |-> ExternPost(o.fun, n, v)]
      /\ \A d \in DOMAIN o.opened : d # n => a[d] = o.opened[d]
  BY DEF With
<1> HIDE DEF a
<1>3. r.opened = a
  BY DEF IsObject, Fields
<1>4. /\ IsObject(ctx, r)
      /\ r.fun = o.fun /\ r.inv = o.inv /\ r.phase = o.phase /\ r.next = o.next
      /\ r.pre = o.pre /\ r.cache = o.cache /\ r.done = o.done
  BY DEF IsObject, Fields
<1> HIDE DEF r
<1> QED  BY <1>1, <1>2, <1>3, <1>4

(* BeginCall: the callees begin with the value of the call.                 *)
LEMMA CallBegun ==
  ASSUME NEW L, NEW K, TableInv(L, K, {}), NEW ctx \in DOMAIN L, L[ctx].phase = "run",
         NEW c \in Ready(L[ctx]) \ Exits(Order(L[ctx].fun)),
         NEW n, n = Order(L[ctx].fun).node[c], NEW v, v = PreOf(L[ctx], c),
         NEW T, T = With([L EXCEPT ![ctx] = Open(Entered(L[ctx], c), ctx, n, v)],
                         NewCallees(ctx, n, v))
  PROVE  TableInv(T, K, {})
<1> DEFINE o == L[ctx]  w == Order(o.fun)  g == Graph(o.fun)
           r == Open(Entered(o, c), ctx, n, v)
           F == Collected(ctx, n, v)
           N == NewCallees(ctx, n, v)
<1>1. /\ IsObject(ctx, o) /\ OpenedOK(o) /\ RunOK(L, ctx) /\ ctx \in Paths /\ prog \in Programs
      /\ g.node \subseteq Nat
  BY ObjectFacts
<1>2. /\ c \in Cells(w) /\ c \notin o.done /\ n \in g.node /\ CellOf(w, n) = c
      /\ n \notin DOMAIN o.opened /\ w.pred[c] \subseteq o.done
  BY ReadyCell
<1>3. /\ IsObject(ctx, r)
      /\ r.fun = o.fun /\ r.inv = o.inv /\ r.phase = o.phase /\ r.next = o.next
      /\ r.cache = o.cache /\ r.done = o.done
      /\ r.pre[n] = v /\ \A d \in g.node : d # n => r.pre[d] = o.pre[d]
      /\ DOMAIN r.opened = DOMAIN o.opened \cup {n}
      /\ r.opened[n].callees = F /\ DOMAIN r.opened[n] = {"callees", "post"}
      /\ \A d \in DOMAIN o.opened : d # n => r.opened[d] = o.opened[d]
  <2> DEFINE e == Entered(o, c)
  <2>1. /\ IsObject(ctx, e)
        /\ e.fun = o.fun /\ e.inv = o.inv /\ e.phase = o.phase /\ e.next = o.next
        /\ e.opened = o.opened /\ e.cache = o.cache /\ e.done = o.done
        /\ e.pre[n] = v /\ \A d \in g.node : d # n => e.pre[d] = o.pre[d]
    <3>1. w.node[c] \in g.node
      BY <1>2
    <3> QED  BY <1>1, <3>1, EnteredFacts
  <2> DEFINE q == Open(e, ctx, n, v)
  <2> HIDE DEF e, o
  <2>2. /\ IsObject(ctx, q)
        /\ q.fun = e.fun /\ q.inv = e.inv /\ q.phase = e.phase /\ q.next = e.next
        /\ q.pre = e.pre /\ q.cache = e.cache /\ q.done = e.done
        /\ DOMAIN q.opened = DOMAIN e.opened \cup {n}
        /\ q.opened[n].callees = Collected(ctx, n, v)
        /\ DOMAIN q.opened[n] = {"callees", "post"}
        /\ \A d \in DOMAIN e.opened : d # n => q.opened[d] = e.opened[d]
    BY <2>1, OpenFacts
  <2>3. q = r
    BY DEF e
  <2> HIDE DEF q, r, F, g
  <2>4. F = Collected(ctx, n, v)
    BY DEF F
  <2> QED  BY <2>1, <2>2, <2>3, <2>4, Zenon
<1> HIDE DEF r
<1>4. F \subseteq DOMAIN prog.cfg /\ n \in Nat
  BY <1>1, <1>2, CollectedFacts
<1>5. /\ DOMAIN N = CalleePaths(ctx, n, F)
      /\ \A f \in F : N[Callee(ctx, n, f)] = NewFixpoint(f, v)
  BY <1>1, <1>4, NewCalleesFacts
<1>6. \A f \in F : Callee(ctx, n, f) \notin DOMAIN L
  BY <1>2, <1>4, NotCalled
<1>7. /\ DOMAIN T = DOMAIN L \cup DOMAIN N /\ T[ctx] = r
      /\ \A e \in DOMAIN L \ {ctx} : T[e] = L[e]
      /\ \A f \in F : T[Callee(ctx, n, f)] = NewFixpoint(f, v)
  <2> DEFINE B == [L EXCEPT ![ctx] = r]
  <2>1. DOMAIN N \cap DOMAIN L = {} /\ T = With(B, N)
    BY <1>5, <1>6 DEF r, CalleePaths
  <2>3. DOMAIN B = DOMAIN L /\ B[ctx] = r /\ \A e \in DOMAIN L \ {ctx} : B[e] = L[e]
    OBVIOUS
  <2> HIDE DEF N, F, B
  <2>2. /\ DOMAIN T = DOMAIN L \cup DOMAIN N /\ T[ctx] = r
        /\ \A e \in DOMAIN L \ {ctx} : T[e] = L[e]
        /\ \A d \in DOMAIN N : T[d] = N[d]
    BY <2>1, <2>3 DEF With
  <2> QED  BY <2>2, <1>5, Zenon DEF CalleePaths
<1> HIDE DEF N, F
<1>8. DOMAIN T = DOMAIN L \cup CalleePaths(ctx, n, F)
  BY <1>5, <1>7
<1>9. \A d \in DOMAIN o.opened : r.opened[d] = o.opened[d]
  BY <1>2, <1>3
<1>10. /\ \A f \in F :
              LET d == Callee(ctx, n, f)
              IN  /\ d \notin DOMAIN L /\ d \in Paths /\ d # <<>>
                  /\ Caller(d) = ctx /\ CallOf(d) = n /\ FunctionAt(d) = f
                  /\ IsAwaited(T, d)
       /\ \A e \in DOMAIN L \ {ctx} : ObjectOK(T, e)
       /\ ctx # <<>> => IsAwaited(T, ctx)
       /\ \A x, m : CheckedOK(L, x, m) => CheckedOK(T, x, m)
  <2>1. CallAdded(L, T, ctx, n, F)
    BY <1>2, <1>3, <1>4, <1>7, <1>8, <1>9, Zenon DEF CallAdded
  <2>2. CallSound(L, T, ctx, n, F)
    BY <2>1, CalleesAdded
  <2> QED  BY <2>2, Zenon DEF CallSound
<1>11. ASSUME NEW f \in F  PROVE ObjectOK(T, Callee(ctx, n, f))
  <2> DEFINE d == Callee(ctx, n, f)
  <2>1. /\ d \in Paths /\ d \in DOMAIN T /\ f = FunctionAt(d) /\ IsAwaited(T, d)
        /\ f \in DOMAIN prog.cfg /\ T[d] = NewFixpoint(f, v)
    BY <1>4, <1>7, <1>8, <1>10, Zenon DEF CalleePaths
  <2> HIDE DEF d
  <2>2. ObjectOK(T, d)
    BY <2>1, NewObject
  <2> QED  BY <2>2 DEF d
<1>12. \A f \in F : T[Callee(ctx, n, f)].inv = v
  <2>1. \A f : NewFixpoint(f, v).inv = v
    BY DEF NewFixpoint
  <2> QED  BY <1>7, <2>1, Zenon
<1>13. OpenedOK(r)
  <2>1. ASSUME NEW d \in DOMAIN r.opened
        PROVE  /\ d \in g.node /\ DOMAIN r.opened[d] = {"callees", "post"}
               /\ r.opened[d].callees \subseteq DOMAIN prog.cfg
               /\ CellOf(w, d) \notin o.done
    <3>1. CASE d = n
      BY <3>1, <1>2, <1>3, <1>4
    <3>2. CASE d # n
      BY <3>2, <1>1, <1>3 DEF OpenedOK
    <3> QED  BY <3>1, <3>2
  <2> QED  BY <2>1, <1>3 DEF OpenedOK
<1>14. \A e \in DOMAIN L : e \in DOMAIN T /\ T[e].inv = L[e].inv
  BY <1>3, <1>7, Zenon
<1>15. CacheFilled(ctx, r, BlocksDone(r))
  <2>1. SUFFICES ASSUME HeadsFresh, NEW d \in BlocksDone(r), NEW f \in DOMAIN prog.cfg,
                        Takes(ctx, r, d, f)
                 PROVE  Fresh(r, d, f)
    BY DEF CacheFilled
  <2>2. d \in BlocksDone(o) /\ r.pre[d] = o.pre[d]
    BY <1>2, <1>3 DEF BlocksDone
  <2>3. Takes(ctx, o, d, f)
    BY <2>1, <2>2 DEF Takes
  <2>4. Fresh(o, d, f)
    BY <2>1, <2>2, <2>3, <1>1 DEF RunOK, CacheFilled
  <2> QED  BY <2>2, <2>4, <1>3 DEF Fresh
<1>16. RunOK(T, ctx)
  <2>1. ASSUME NEW d \in DOMAIN r.opened
        PROVE  /\ r.opened[d].callees = Collected(ctx, d, r.pre[d])
               /\ \A f \in r.opened[d].callees :
                    /\ Callee(ctx, d, f) \in DOMAIN T
                    /\ r.pre[d] \subseteq T[Callee(ctx, d, f)].inv
    <3>1. CASE d = n
      <4>1. F = Collected(ctx, n, v)
        BY DEF F
      <4> QED  BY <3>1, <4>1, <1>3, <1>8, <1>12, Zenon DEF CalleePaths
    <3>2. CASE d # n
      <4>1. d \in DOMAIN o.opened /\ r.pre[d] = o.pre[d] /\ r.opened[d] = o.opened[d]
        BY <3>2, <1>1, <1>3 DEF OpenedOK
      <4>2. /\ o.opened[d].callees = Collected(ctx, d, o.pre[d])
            /\ \A f \in o.opened[d].callees :
                    /\ Callee(ctx, d, f) \in DOMAIN L
                    /\ o.pre[d] \subseteq L[Callee(ctx, d, f)].inv
        BY <4>1, <1>1 DEF RunOK
      <4> QED  BY <4>1, <4>2, <1>14, Zenon
    <3> QED  BY <3>1, <3>2, Zenon
  <2>2. /\ o.next = 1 /\ o.done \subseteq Cells(w)
        /\ \A d \in o.done \cup Busy(o) : w.pred[d] \subseteq o.done
        /\ \A s \in DOMAIN o.cache : Settled(Append(ctx, s), o.cache[s])
    BY <1>1 DEF RunOK
  <2>3. /\ r.next = 1 /\ r.done \subseteq Cells(Order(r.fun))
        /\ \A d \in r.done \cup Busy(r) : Order(r.fun).pred[d] \subseteq r.done
        /\ \A s \in DOMAIN r.cache : Settled(Append(ctx, s), r.cache[s])
    <3>1. Busy(r) = Busy(o) \cup {c}
      BY <1>2, <1>3 DEF Busy
    <3> QED  BY <3>1, <2>2, <1>2, <1>3
  <2>4. CacheFilled(ctx, T[ctx], BlocksDone(T[ctx])) /\ T[ctx] = r
    BY <1>7, <1>15
  <2> HIDE DEF o, w, g
  <2> DEFINE q == T[ctx]
  <2>5. q = r
    BY <2>4
  <2> HIDE DEF q
  <2>6. /\ q.next = 1 /\ q.done \subseteq Cells(Order(q.fun))
        /\ \A d \in q.done \cup Busy(q) : Order(q.fun).pred[d] \subseteq q.done
        /\ \A s \in DOMAIN q.cache : Settled(Append(ctx, s), q.cache[s])
    BY <2>3, <2>5
  <2>7. \A d \in DOMAIN q.opened :
           /\ q.opened[d].callees = Collected(ctx, d, q.pre[d])
           /\ \A f \in q.opened[d].callees :
                /\ Callee(ctx, d, f) \in DOMAIN T
                /\ q.pre[d] \subseteq T[Callee(ctx, d, f)].inv
    BY <2>1, <2>5, ZenonT(30)
  <2>8. CacheFilled(ctx, q, BlocksDone(q))
    BY <2>4 DEF q
  <2> QED  BY <2>6, <2>7, <2>8, Zenon DEF RunOK, q
<1>17. ObjectOK(T, ctx)
  BY <1>1, <1>3, <1>7, <1>10, <1>13, <1>16, Zenon DEF ObjectOK
<1>18. \A e \in DOMAIN T : ObjectOK(T, e)
  BY <1>8, <1>10, <1>11, <1>17, Zenon DEF CalleePaths
<1>19. ASSUME HeadsFresh  PROVE FreshIn(T)
  <2>1. SUFFICES ASSUME NEW e \in DOMAIN T, e # <<>>, T[Caller(e)].phase = "check"
                 PROVE  T[Caller(e)].pre[CallOf(e)] \subseteq T[e].inv
    BY ZenonT(30) DEF FreshIn
  <2>2. Caller(e) # ctx
    BY <2>1, <1>3, <1>7
  <2>3. e \in DOMAIN L
    BY <2>2, <1>8, <1>10 DEF CalleePaths
  <2>4. Caller(e) \in DOMAIN L
    BY <2>1, <2>3, Awaited DEF TableInv
  <2>5. T[Caller(e)] = L[Caller(e)] /\ T[e].inv = L[e].inv
    BY <2>2, <2>3, <2>4, <1>7, <1>14, Zenon
  <2> QED  BY <2>1, <2>3, <2>5, <1>19, Zenon DEF TableInv, FreshIn
<1>20. \A b \in DOMAIN K : b = <<b[1], b[2]>> /\ CheckedOK(T, b[1], b[2]) /\ K[b].times = 1
  BY <1>10, Zenon DEF TableInv
<1>21. <<>> \in DOMAIN T /\ prog \in Programs /\ MixedIn(T, {})
  BY <1>1, <1>14, Zenon DEF TableInv, MixedIn
<1> QED  BY <1>18, <1>19, <1>20, <1>21, Zenon DEF TableInv

(* An object from a cache is one whose fixpoint is found.                   *)
LEMMA StoredObject ==
  ASSUME NEW L, NEW ctx \in DOMAIN L, Settled(ctx, L[ctx]),
         ctx # <<>> => IsAwaited(L, ctx)
  PROVE  ObjectOK(L, ctx)
<1> DEFINE o == L[ctx]
<1>1. Resting(ctx, o)
  BY SettledElim
<1> HIDE DEF o
<1>2. /\ ctx \in Paths /\ IsObject(ctx, o) /\ o.phase = "converged" /\ DOMAIN o.opened = {}
  BY <1>1 DEF Resting
<1>3. OpenedOK(o)
  BY <1>2 DEF OpenedOK
<1> QED  BY <1>2, <1>3 DEF ObjectOK, o

(* Cache B is A without some callees of block n.                            *)
LeftBut(A, B, n) ==
  /\ DOMAIN B \subseteq DOMAIN A
  /\ \A s \in DOMAIN A : s[1] # n => s \in DOMAIN B /\ B[s] = A[s]

(* The callees F of block n, called with v, are new, or stored fixpoints.   *)
CalleesReady(T, ctx, n, F, v) ==
  \A f \in F : LET d == Callee(ctx, n, f)
               IN  \/ T[d] = NewFixpoint(f, v)
                   \/ /\ Settled(d, T[d])
                      /\ HeadsFresh => v \subseteq T[d].inv

(* In table T the check pass of ctx is at the callees F of block n.         *)
CallOpened(L, T, ctx, n, F) ==
  /\ L[ctx].phase = "check" /\ DOMAIN L[ctx].opened = {}
  /\ n = L[ctx].next /\ n \in Graph(L[ctx].fun).node
  /\ CallAdded(L, T, ctx, n, F)
  /\ IsObject(ctx, T[ctx]) /\ T[ctx].fun = L[ctx].fun /\ T[ctx].pre = L[ctx].pre
  /\ DOMAIN T[ctx].opened[n] = {"callees", "post"}
  /\ T[ctx].opened[n].callees \subseteq DOMAIN prog.cfg
  /\ LeftBut(L[ctx].cache, T[ctx].cache, n)
  /\ CalleesReady(T, ctx, n, F, L[ctx].pre[n])

(* The check pass comes to a call: its callees are new or from the cache.   *)
LEMMA CallChecked ==
  ASSUME NEW L, NEW K, TableInv(L, K, {}), NEW ctx \in DOMAIN L,
         NEW T, NEW n, NEW F, CallOpened(L, T, ctx, n, F)
  PROVE  TableInv(T, K, {}) /\ CheckedOK(T, ctx, n)
<1> USE DEF CallOpened, LeftBut, CalleesReady
<1> DEFINE r == T[ctx]
<1> DEFINE o == L[ctx]  g == Graph(o.fun)
<1>1. IsObject(ctx, o) /\ OpenedOK(o) /\ CheckOK(L, ctx) /\ ctx \in Paths /\ prog \in Programs
  BY ObjectFacts
<1>2. CallSound(L, T, ctx, n, F)
  BY CalleesAdded
<1>3. /\ F \subseteq DOMAIN prog.cfg
      /\ r.inv = o.inv /\ r.phase = "check" /\ r.next = n
      /\ DOMAIN r.opened = {n}
      /\ DOMAIN T = DOMAIN L \cup CalleePaths(ctx, n, F)
      /\ \A e \in DOMAIN L \ {ctx} : T[e] = L[e]
  BY DEF CallAdded
<1>4. Visited(o) = 1..(n - 1) /\ Visited(r) = 1..n /\ n \in Nat /\ n # 0
  BY <1>1, <1>3 DEF Visited, IsObject
<1>5. n \notin Visited(o) /\ n \in Visited(r) /\ Visited(o) \subseteq Visited(r)
  BY <1>4
<1>6. /\ \A f \in F :
           LET d == Callee(ctx, n, f)
           IN  /\ d \notin DOMAIN L /\ d \in Paths /\ d # <<>>
               /\ Caller(d) = ctx /\ CallOf(d) = n /\ FunctionAt(d) = f
               /\ IsAwaited(T, d)
      /\ \A e \in DOMAIN L \ {ctx} : ObjectOK(T, e)
      /\ ctx # <<>> => IsAwaited(T, ctx)
      /\ \A p, m : ChecksCall(L, p, m) => ChecksCall(T, p, m)
      /\ \A c, m : CheckedOK(L, c, m) => CheckedOK(T, c, m)
  BY <1>2 DEF CallSound
<1>7. ASSUME NEW f \in F
      PROVE  /\ ObjectOK(T, Callee(ctx, n, f))
             /\ HeadsFresh => o.pre[n] \subseteq T[Callee(ctx, n, f)].inv
  <2> DEFINE d == Callee(ctx, n, f)  v == o.pre[n]
  <2>1. d \in DOMAIN T /\ d \in Paths /\ f = FunctionAt(d) /\ IsAwaited(T, d) /\ f \in DOMAIN prog.cfg
    BY <1>3, <1>6 DEF CalleePaths
  <2>2. \/ T[d] = NewFixpoint(f, v)
        \/ Settled(d, T[d]) /\ (HeadsFresh => v \subseteq T[d].inv)
    OBVIOUS
  <2> HIDE DEF d, v
  <2>3. CASE T[d] = NewFixpoint(f, v)
    <3>1. ObjectOK(T, d)
      BY <2>1, <2>3, NewObject
    <3>2. T[d].inv = v
      BY <2>3 DEF NewFixpoint
    <3> QED  BY <3>1, <3>2 DEF d, v
  <2>4. CASE Settled(d, T[d]) /\ (HeadsFresh => v \subseteq T[d].inv)
    <3>1. ObjectOK(T, d)
      BY <2>1, <2>4, StoredObject
    <3> QED  BY <3>1, <2>4 DEF d, v
  <2> QED  BY <2>2, <2>3, <2>4
<1>8. \A s \in DOMAIN r.cache : s[1] \notin Visited(r) => Settled(Append(ctx, s), r.cache[s])
  BY <1>1, <1>5 DEF CheckOK
<1>9. CacheFilled(ctx, r, g.node \ Visited(r))
  <2>1. SUFFICES ASSUME HeadsFresh, NEW d \in g.node \ Visited(r), NEW f \in DOMAIN prog.cfg,
                        Takes(ctx, r, d, f)
                 PROVE  Fresh(r, d, f)
    BY DEF CacheFilled
  <2>2. d \notin Visited(o) /\ d # n /\ Takes(ctx, o, d, f)
    BY <2>1, <1>5 DEF Takes
  <2>3. Fresh(o, d, f)
    BY <2>1, <2>2, <1>1 DEF CheckOK, CacheFilled
  <2> QED  BY <2>2, <2>3 DEF Fresh
<1>10. CheckOK(T, ctx)
  <2>1. \A p \in PathsAbove(ctx) : ChecksCall(T, p, CallAfter(p, ctx)[1])
    BY <1>1, <1>6 DEF CheckOK
  <2> QED  BY <2>1, <1>8, <1>9 DEF CheckOK
<1>11. OpenedOK(r)
  BY <1>3 DEF OpenedOK
<1>12. ObjectOK(T, ctx)
  BY <1>1, <1>3, <1>6, <1>10, <1>11 DEF ObjectOK
<1>13. \A e \in DOMAIN T : ObjectOK(T, e)
  BY <1>3, <1>6, <1>7, <1>12 DEF CalleePaths
<1>14. ASSUME HeadsFresh  PROVE FreshIn(T)
  <2>1. SUFFICES ASSUME NEW e \in DOMAIN T, e # <<>>, T[Caller(e)].phase = "check"
                 PROVE  T[Caller(e)].pre[CallOf(e)] \subseteq T[e].inv
    BY DEF FreshIn
  <2>2. CASE e \in DOMAIN L
    <3>1. Caller(e) \in DOMAIN L /\ Caller(e) # ctx
      BY <2>1, <2>2, Awaited DEF TableInv
    <3>2. T[Caller(e)] = L[Caller(e)] /\ T[e].inv = L[e].inv
      BY <2>2, <3>1, <1>3
    <3> QED  BY <2>1, <2>2, <3>2, <1>14 DEF TableInv, FreshIn
  <2>3. CASE e \notin DOMAIN L
    <3>1. PICK f \in F : e = Callee(ctx, n, f)
      BY <2>1, <2>3, <1>3 DEF CalleePaths
    <3>2. Caller(e) = ctx /\ CallOf(e) = n
      BY <3>1, <1>6
    <3>3. o.pre[n] \subseteq T[e].inv
      BY <3>1, <1>7, <1>14
    <3> QED  BY <3>2, <3>3
  <2> QED  BY <2>2, <2>3
<1>15. \A b \in DOMAIN K : b = <<b[1], b[2]>> /\ CheckedOK(T, b[1], b[2]) /\ K[b].times = 1
  BY <1>6 DEF TableInv
<1>16. <<>> \in DOMAIN T /\ MixedIn(T, {})
  BY <1>3 DEF TableInv, MixedIn
<1>17. TableInv(T, K, {})
  BY <1>1, <1>13, <1>14, <1>15, <1>16 DEF TableInv
<1>18. ctx \in DOMAIN T /\ T[ctx].phase = "check" /\ n \in Visited(T[ctx])
  BY <1>3, <1>5
<1>19. CheckedOK(T, ctx, n)
  BY <1>12, <1>18, CheckedHere
<1> QED  BY <1>17, <1>19

(* Cache B is A with the objects of table L for the callees F of block n.   *)
StoredIn(B, A, L, ctx, n, F) ==
  /\ \A s \in DOMAIN B :
       \/ s \in DOMAIN A /\ B[s] = A[s]
       \/ \E f \in F : s = <<n, f>> /\ B[s] = L[Callee(ctx, n, f)]
  /\ \A s \in DOMAIN A : s[1] # n => s \in DOMAIN B /\ B[s] = A[s]
  /\ prog.cached => \A f \in F : <<n, f>> \in DOMAIN B /\ B[<<n, f>>] = L[Callee(ctx, n, f)]

(* Table T is L without the paths in P, and with r at path ctx.             *)
WithoutPaths(T, L, P, ctx, r) ==
  /\ DOMAIN T = DOMAIN L \ P /\ T[ctx] = r
  /\ \A e \in DOMAIN T \ {ctx} : T[e] = L[e]

(* Object r is o after all callees of block n.                              *)
CalleesJoined(o, r, n) ==
  /\ r.fun = o.fun /\ r.inv = o.inv /\ r.pre = o.pre
  /\ r.phase = o.phase /\ r.next = o.next
  /\ r.done = o.done \cup {CellOf(Order(o.fun), n)}
  /\ DOMAIN r.opened = DOMAIN o.opened \ {n}
  /\ \A d \in DOMAIN r.opened : r.opened[d] = o.opened[d]

(* EndCall: the callees are gone from the table, and settled in the cache.  *)
LEMMA CallEnded ==
  ASSUME NEW L, NEW K, TableInv(L, K, {}), NEW ctx \in DOMAIN L, L[ctx].phase = "run",
         NEW n \in DOMAIN L[ctx].opened, NEW F, F = L[ctx].opened[n].callees,
         \A f \in F : L[Callee(ctx, n, f)].phase = "converged",
         NEW r, IsObject(ctx, r), CalleesJoined(L[ctx], r, n),
         StoredIn(r.cache, L[ctx].cache, L, ctx, n, F),
         NEW T, WithoutPaths(T, L, CalleePaths(ctx, n, F), ctx, r)
  PROVE  TableInv(T, K, {})
<1> USE DEF CalleesJoined, WithoutPaths
<1> DEFINE o == L[ctx]  w == Order(o.fun)  g == Graph(o.fun)  D == CalleePaths(ctx, n, F)
<1>1. /\ IsObject(ctx, o) /\ OpenedOK(o) /\ RunOK(L, ctx) /\ ctx \in Paths /\ prog \in Programs
      /\ WellFormed(w, g) /\ g.node \subseteq Nat
  BY ObjectFacts
<1>2. n \in g.node /\ n \in Nat /\ F \subseteq DOMAIN prog.cfg /\ CellOf(w, n) \notin o.done
  BY <1>1 DEF OpenedOK
<1>3. /\ o.next = 1 /\ o.done \subseteq Cells(w)
      /\ \A d \in o.done \cup Busy(o) : w.pred[d] \subseteq o.done
      /\ \A s \in DOMAIN o.cache : Settled(Append(ctx, s), o.cache[s])
  BY <1>1 DEF RunOK
<1>4. \A d \in DOMAIN o.opened :
         /\ o.opened[d].callees = Collected(ctx, d, o.pre[d])
         /\ \A f \in o.opened[d].callees :
              /\ Callee(ctx, d, f) \in DOMAIN L
              /\ o.pre[d] \subseteq L[Callee(ctx, d, f)].inv
  BY <1>1 DEF RunOK
<1>5. \A e \in DOMAIN L : ObjectOK(L, e)
  BY DEF TableInv
<1>6. \A a \in Paths : \A d \in Nat : \A f \in DOMAIN prog.cfg :
         Caller(Callee(a, d, f)) = a /\ CallOf(Callee(a, d, f)) = d
  <2>1. SUFFICES ASSUME NEW a \in Paths, NEW d \in Nat, NEW f \in DOMAIN prog.cfg
                 PROVE  Caller(Callee(a, d, f)) = a /\ CallOf(Callee(a, d, f)) = d
    OBVIOUS
  <2>2. <<d, f>> \in Calls
    BY <1>1, ProgramFacts DEF Calls
  <2> QED  BY <2>2, PathExtended DEF Callee
<1>7. \A d \in D : L[d].phase = "converged" /\ Caller(d) = ctx /\ CallOf(d) = n
  BY <1>1, <1>2, <1>6 DEF CalleePaths
<1>8. ctx \in DOMAIN T
  BY <1>7
<1>9. \A e \in DOMAIN T : e \in DOMAIN L /\ T[e].inv = L[e].inv /\ T[e].phase = L[e].phase
  OBVIOUS
<1>10. ASSUME NEW e \in DOMAIN T, e # <<>>  PROVE IsAwaited(T, e) /\ Caller(e) \in DOMAIN T
  <2>1. /\ Caller(e) \in DOMAIN L /\ L[Caller(e)].phase \in {"run", "check"}
        /\ CallOf(e) \in DOMAIN L[Caller(e)].opened
        /\ FunctionAt(e) \in L[Caller(e)].opened[CallOf(e)].callees
        /\ e = Callee(Caller(e), CallOf(e), FunctionAt(e))
    BY <1>5, <1>9, <1>10, Awaited
  <2>2. Caller(e) \in DOMAIN T
    BY <2>1, <1>7
  <2>3. CASE Caller(e) = ctx
    <3>1. CallOf(e) # n
      BY <2>1, <2>3 DEF CalleePaths
    <3> QED  BY <2>1, <2>2, <2>3, <3>1 DEF IsAwaited
  <2>4. CASE Caller(e) # ctx
    BY <2>1, <2>2, <2>4 DEF IsAwaited
  <2> QED  BY <2>2, <2>3, <2>4
<1>11. \A p, m : ChecksCall(L, p, m) => ChecksCall(T, p, m)
  BY <1>7 DEF ChecksCall
<1>12. ASSUME NEW e \in DOMAIN T \ {ctx}  PROVE ObjectOK(T, e)
  <2>1. ObjectOK(L, e) /\ T[e] = L[e] /\ e \in Paths
    BY <1>5, <1>9 DEF ObjectOK
  <2>2. L[e].phase = "run" =>
          \A m \in DOMAIN L[e].opened : \A f \in L[e].opened[m].callees :
            Callee(e, m, f) \in DOMAIN T /\ T[Callee(e, m, f)].inv = L[Callee(e, m, f)].inv
    <3>1. SUFFICES ASSUME L[e].phase = "run", NEW m \in DOMAIN L[e].opened,
                          NEW f \in L[e].opened[m].callees
                   PROVE  Callee(e, m, f) \in DOMAIN T
      BY <1>9
    <3>2. Callee(e, m, f) \in DOMAIN L
      BY <2>1, <3>1 DEF ObjectOK, RunOK
    <3>3. m \in Nat /\ f \in DOMAIN prog.cfg
      <4>1. e \in DOMAIN L
        BY <1>9
      <4>2. OpenedOK(L[e]) /\ Graph(L[e].fun).node \subseteq Nat
        BY <4>1, ObjectFacts
      <4> QED  BY <4>2 DEF OpenedOK
    <3>4. Caller(Callee(e, m, f)) = e
      BY <2>1, <3>3, <1>6
    <3> QED  BY <3>2, <3>4, <1>7
  <2>3. L[e].phase = "check" =>
          \A p \in PathsAbove(e) : ChecksCall(T, p, CallAfter(p, e)[1])
    BY <2>1, <1>11 DEF ObjectOK, CheckOK
  <2> QED  BY <2>1, <2>2, <2>3, <1>10, OtherObject
<1>13. OpenedOK(r)
  <2>1. \A d \in g.node : w.node[CellOf(w, d)] = d
    BY <1>1 DEF WellFormed, BlocksCovered
  <2>2. \A d \in DOMAIN r.opened : CellOf(w, d) # CellOf(w, n)
    BY <2>1, <1>1, <1>2 DEF OpenedOK
  <2> QED  BY <2>2, <1>1 DEF OpenedOK
<1>14. \A s \in DOMAIN r.cache : Settled(Append(ctx, s), r.cache[s])
  <2>1. SUFFICES ASSUME NEW s \in DOMAIN r.cache  PROVE Settled(Append(ctx, s), r.cache[s])
    OBVIOUS
  <2>2. CASE s \in DOMAIN o.cache /\ r.cache[s] = o.cache[s]
    BY <2>2, <1>3
  <2>3. ASSUME NEW f \in F, s = <<n, f>>, r.cache[s] = L[Callee(ctx, n, f)]
        PROVE  Settled(Append(ctx, s), r.cache[s])
    <3>1. Callee(ctx, n, f) \in DOMAIN L
      BY <1>4
    <3>2. Settled(Callee(ctx, n, f), L[Callee(ctx, n, f)])
      BY <3>1, ObjectFacts
    <3> QED  BY <2>3, <3>2 DEF Callee
  <2> QED  BY <2>2, <2>3 DEF StoredIn
<1>15. CacheFilled(ctx, r, BlocksDone(r))
  <2>1. SUFFICES ASSUME HeadsFresh, NEW d \in BlocksDone(r), NEW f \in DOMAIN prog.cfg,
                        Takes(ctx, r, d, f)
                 PROVE  Fresh(r, d, f)
    BY DEF CacheFilled
  <2>2. Takes(ctx, o, d, f) /\ prog.cached
    BY <2>1 DEF Takes
  <2>3. CASE d = n
    <3>1. f \in F
      BY <2>2, <2>3, <1>4 DEF Takes
    <3>2. /\ <<n, f>> \in DOMAIN r.cache /\ r.cache[<<n, f>>] = L[Callee(ctx, n, f)]
          /\ o.pre[n] \subseteq L[Callee(ctx, n, f)].inv
      BY <2>2, <3>1, <1>4 DEF StoredIn
    <3> QED  BY <2>3, <3>2 DEF Fresh
  <2>4. CASE d # n
    <3>1. \A b \in g.node : w.node[CellOf(w, b)] = b
      BY <1>1 DEF WellFormed, BlocksCovered
    <3>2. d \in BlocksDone(o)
      BY <2>1, <2>4, <3>1, <1>2 DEF BlocksDone
    <3>3. Fresh(o, d, f)
      BY <2>1, <2>2, <3>2, <1>1 DEF RunOK, CacheFilled
    <3>4. <<d, f>> \in DOMAIN r.cache /\ r.cache[<<d, f>>] = o.cache[<<d, f>>]
      BY <2>4, <3>3 DEF Fresh, StoredIn
    <3> QED  BY <3>3, <3>4 DEF Fresh
  <2> QED  BY <2>3, <2>4
<1>16. RunOK(T, ctx)
  <2> DEFINE q == T[ctx]
  <2>1. q = r
    OBVIOUS
  <2>2. CellOf(w, n) \in Cells(w)
    BY <1>1, <1>2 DEF WellFormed, BlocksCovered
  <2>3. Busy(o) = Busy(r) \cup {CellOf(w, n)}
    BY DEF Busy
  <2>4. /\ r.next = 1 /\ r.done \subseteq Cells(Order(r.fun))
        /\ \A c \in r.done \cup Busy(r) : Order(r.fun).pred[c] \subseteq r.done
    BY <2>2, <2>3, <1>3
  <2>5. ASSUME NEW d \in DOMAIN r.opened
        PROVE  /\ r.opened[d].callees = Collected(ctx, d, r.pre[d])
               /\ \A f \in r.opened[d].callees :
                    /\ Callee(ctx, d, f) \in DOMAIN T
                    /\ r.pre[d] \subseteq T[Callee(ctx, d, f)].inv
    <3>1. d \in DOMAIN o.opened /\ d # n /\ r.opened[d] = o.opened[d]
      OBVIOUS
    <3>2. d \in Nat /\ o.opened[d].callees \subseteq DOMAIN prog.cfg
      BY <3>1, <1>1 DEF OpenedOK
    <3>3. \A f \in o.opened[d].callees : Callee(ctx, d, f) \in DOMAIN T
      BY <3>1, <3>2, <1>1, <1>4, <1>6, <1>7
    <3>4. \A f \in o.opened[d].callees : o.pre[d] \subseteq T[Callee(ctx, d, f)].inv
      BY <3>1, <3>3, <1>4, <1>9
    <3> QED  BY <3>1, <3>3, <3>4, <1>4
  <2> HIDE DEF q, o, w, g
  <2>6. /\ q.next = 1 /\ q.done \subseteq Cells(Order(q.fun))
        /\ \A d \in q.done \cup Busy(q) : Order(q.fun).pred[d] \subseteq q.done
        /\ \A s \in DOMAIN q.cache : Settled(Append(ctx, s), q.cache[s])
    BY <2>1, <2>4, <1>14
  <2>7. \A d \in DOMAIN q.opened :
           /\ q.opened[d].callees = Collected(ctx, d, q.pre[d])
           /\ \A f \in q.opened[d].callees :
                /\ Callee(ctx, d, f) \in DOMAIN T
                /\ q.pre[d] \subseteq T[Callee(ctx, d, f)].inv
    BY <2>1, <2>5
  <2>8. CacheFilled(ctx, q, BlocksDone(q))
    BY <2>1, <1>15
  <2> QED  BY <2>6, <2>7, <2>8, Zenon DEF RunOK, q
<1>17. ObjectOK(T, ctx)
  BY <1>1, <1>8, <1>10, <1>13, <1>16 DEF ObjectOK
<1>18. ASSUME NEW c, NEW m, CheckedOK(L, c, m)  PROVE CheckedOK(T, c, m)
  <2>1. c \in Paths
    BY <1>18 DEF CheckedOK
  <2>2. c \in DOMAIN T => T[c].phase \in {"check", "checked"} /\ m \in Visited(T[c])
    BY <1>18 DEF CheckedOK
  <2>3. ASSUME NEW p \in PathsAbove(c) \cap DOMAIN T  PROVE ComesDown(T, p, CallAfter(p, c))
    <3> DEFINE s == CallAfter(p, c)
    <3>1. p \in Paths /\ s \in Calls
      BY <2>1, PathDown
    <3>2. ComesDown(L, p, s)
      BY <1>9, <1>18 DEF CheckedOK
    <3>3. Caller(Append(p, s)) = p
      BY <3>1, PathExtended
    <3> HIDE DEF s
    <3>4. p # ctx
      BY <3>2 DEF ComesDown
    <3>5. T[p] = L[p]
      BY <3>4
    <3>6. Append(p, s) \in DOMAIN L => Append(p, s) \in DOMAIN T
      BY <3>3, <3>4, <1>7
    <3>7. ComesDown(T, p, s)
      BY <3>2, <3>5, <3>6 DEF ComesDown
    <3> QED  BY <3>7 DEF s
  <2> QED  BY <2>1, <2>2, <2>3 DEF CheckedOK
<1>19. ASSUME HeadsFresh  PROVE FreshIn(T)
  <2>1. SUFFICES ASSUME NEW e \in DOMAIN T, e # <<>>, T[Caller(e)].phase = "check"
                 PROVE  T[Caller(e)].pre[CallOf(e)] \subseteq T[e].inv
    BY DEF FreshIn
  <2>2. Caller(e) \in DOMAIN T /\ Caller(e) # ctx
    BY <2>1, <1>10
  <2>3. T[Caller(e)] = L[Caller(e)] /\ T[e].inv = L[e].inv /\ e \in DOMAIN L
    BY <2>2, <1>9
  <2> QED  BY <2>1, <2>3, <1>19 DEF TableInv, FreshIn
<1>20. \A b \in DOMAIN K : b = <<b[1], b[2]>> /\ CheckedOK(T, b[1], b[2]) /\ K[b].times = 1
  BY <1>18 DEF TableInv
<1>21. <<>> \in DOMAIN T
  <2>1. <<>> \in DOMAIN L
    BY DEF TableInv
  <2>2. ASSUME NEW f \in F  PROVE Callee(ctx, n, f) # <<>>
    <3>1. <<n, f>> \in Calls
      BY <1>1, <1>2, ProgramFacts DEF Calls
    <3> QED  BY <3>1, <1>1, PathExtended DEF Callee
  <2> QED  BY <2>1, <2>2 DEF CalleePaths
<1>22. prog \in Programs /\ MixedIn(T, {})
  BY <1>1 DEF MixedIn
<1> QED  BY <1>12, <1>17, <1>19, <1>20, <1>21, <1>22 DEF TableInv

(* Object r is m after the checks of a callee of block n: rest is to come.  *)
CalleeLeft(m, r, n, rest) ==
  /\ r.fun = m.fun /\ r.inv = m.inv /\ r.pre = m.pre /\ r.phase = m.phase
  /\ \/ /\ rest = {} /\ DOMAIN r.opened = DOMAIN m.opened \ {n}
        /\ r.next = m.next + 1
     \/ /\ rest # {} /\ DOMAIN r.opened = DOMAIN m.opened
        /\ DOMAIN r.opened[n] = {"callees", "post"} /\ r.opened[n].callees = rest
        /\ r.next = m.next

(* Caches that agree, except on callees of block n.                         *)
SameBut(A, B, n) ==
  /\ \A s \in DOMAIN A : s[1] # n => s \in DOMAIN B /\ B[s] = A[s]
  /\ \A s \in DOMAIN B : s[1] # n => s \in DOMAIN A /\ B[s] = A[s]

(* EndChecks of a callee: its caller goes on to what it has not come to.    *)
LEMMA ChecksEnded ==
  ASSUME NEW L, NEW K, TableInv(L, K, {}), NEW ctx \in DOMAIN L, ctx # <<>>,
         L[ctx].phase = "check", L[ctx].next \notin Graph(L[ctx].fun).node,
         NEW q, q = Caller(ctx), NEW n, n = CallOf(ctx),
         NEW rest, rest = L[q].opened[n].callees \ {FunctionAt(ctx)},
         NEW r, IsObject(q, r), CalleeLeft(L[q], r, n, rest), SameBut(L[q].cache, r.cache, n),
         NEW T, WithoutPaths(T, L, {ctx}, q, r)
  PROVE  TableInv(T, K, {})
<1> USE DEF WithoutPaths
<1> DEFINE o == L[ctx]  m == L[q]  f == FunctionAt(ctx)
<1>1. r.fun = m.fun /\ r.inv = m.inv /\ r.pre = m.pre /\ r.phase = m.phase
  BY DEF CalleeLeft
<1>2. rest = {} => DOMAIN r.opened = DOMAIN m.opened \ {n} /\ r.next = m.next + 1
  BY DEF CalleeLeft
<1>3. rest # {} => /\ DOMAIN r.opened = DOMAIN m.opened
                   /\ DOMAIN r.opened[n] = {"callees", "post"} /\ r.opened[n].callees = rest
                   /\ r.next = m.next
  BY DEF CalleeLeft
<1>4. /\ \A s \in DOMAIN m.cache : s[1] # n => s \in DOMAIN r.cache /\ r.cache[s] = m.cache[s]
      /\ \A s \in DOMAIN r.cache : s[1] # n => s \in DOMAIN m.cache /\ r.cache[s] = m.cache[s]
  BY DEF SameBut
<1>5. \A e \in DOMAIN L : ObjectOK(L, e)
  BY DEF TableInv
<1>6. IsObject(ctx, o) /\ OpenedOK(o) /\ CheckOK(L, ctx) /\ ctx \in Paths
  BY ObjectFacts
<1>7. DOMAIN o.opened = {}
  BY <1>6 DEF OpenedOK
<1>8. /\ q \in PathsAbove(ctx) /\ q # ctx /\ CallAfter(q, ctx) = <<n, f>>
      /\ ctx = Callee(q, n, f)
  BY <1>5, <1>6, CallerAbove, Awaited
<1>9. ChecksCall(L, q, n)
  <2>1. CallAfter(q, ctx)[1] = n
    BY <1>8
  <2> QED  BY <2>1, <1>6, <1>8 DEF CheckOK
<1>10. q \in DOMAIN L /\ m.phase = "check" /\ n \in DOMAIN m.opened
  BY <1>9 DEF ChecksCall
<1>11. /\ IsObject(q, m) /\ OpenedOK(m) /\ CheckOK(L, q) /\ q \in Paths /\ prog \in Programs
  BY <1>10, ObjectFacts
<1>12. n = m.next /\ DOMAIN m.opened = {n} /\ n \in Nat /\ n # 0
      /\ m.opened[n].callees \subseteq DOMAIN prog.cfg
      /\ n \in Graph(m.fun).node /\ DOMAIN m.opened[n] = {"callees", "post"}
  BY <1>10, <1>11 DEF OpenedOK, IsObject
<1>13. Visited(r) = Visited(m) /\ n \in Visited(m)
  <2>1. CASE rest = {}
    <3>1. r.next = n + 1 /\ DOMAIN r.opened = {}
      BY <1>2, <2>1, <1>12
    <3> QED  BY <3>1, <1>12 DEF Visited
  <2>2. CASE rest # {}
    <3>1. r.next = n /\ DOMAIN r.opened = {n}
      BY <1>3, <2>2, <1>12
    <3> QED  BY <3>1, <1>12 DEF Visited
  <2> QED  BY <2>1, <2>2
<1>14. /\ \A e \in DOMAIN L : e # <<>> => Caller(e) # ctx
       /\ \A p, k : ChecksCall(L, p, k) => p # ctx
  BY <1>5, <1>7, Awaited DEF ChecksCall
<1>15. ASSUME NEW e \in DOMAIN L, e # ctx, e # <<>>, Caller(e) = q
       PROVE  CallOf(e) = n /\ FunctionAt(e) \in rest
  <2>1. /\ CallOf(e) \in DOMAIN m.opened /\ FunctionAt(e) \in m.opened[CallOf(e)].callees
        /\ e = Callee(q, CallOf(e), FunctionAt(e))
    BY <1>5, <1>15, Awaited
  <2>2. CallOf(e) = n
    BY <2>1, <1>12
  <2>3. FunctionAt(e) # f
    BY <2>1, <2>2, <1>8, <1>15
  <2> QED  BY <2>1, <2>2, <2>3
<1>16. \A e \in DOMAIN T : e \in DOMAIN L /\ e # ctx /\ T[e].inv = L[e].inv
                           /\ T[e].phase = L[e].phase
  BY <1>1
<1>17. q \in DOMAIN T
  BY <1>8, <1>10
<1>18. ASSUME NEW e \in DOMAIN T, e # <<>>  PROVE IsAwaited(T, e) /\ Caller(e) \in DOMAIN T
  <2>1. /\ Caller(e) \in DOMAIN L /\ L[Caller(e)].phase \in {"run", "check"}
        /\ CallOf(e) \in DOMAIN L[Caller(e)].opened
        /\ FunctionAt(e) \in L[Caller(e)].opened[CallOf(e)].callees
    BY <1>5, <1>16, <1>18, Awaited
  <2>2. Caller(e) \in DOMAIN T
    BY <2>1, <1>14, <1>16, <1>18
  <2>3. CASE Caller(e) = q
    <3>1. CallOf(e) = n /\ FunctionAt(e) \in rest
      BY <2>3, <1>15, <1>16, <1>18
    <3>2. n \in DOMAIN r.opened /\ r.opened[n].callees = rest
      BY <1>3, <3>1, <1>12
    <3> QED  BY <1>1, <2>2, <2>3, <3>1, <3>2, <1>10 DEF IsAwaited
  <2>4. CASE Caller(e) # q
    BY <2>1, <2>2, <2>4 DEF IsAwaited
  <2> QED  BY <2>2, <2>3, <2>4
<1>19. ASSUME NEW e \in DOMAIN T, L[e].phase = "check", NEW p \in PathsAbove(e)
       PROVE  ChecksCall(T, p, CallAfter(p, e)[1])
  <2> DEFINE s == CallAfter(p, e)
  <2>1. CheckOK(L, e) /\ e \in Paths /\ e \in DOMAIN L /\ e # ctx
    BY <1>16, <1>19, ObjectFacts
  <2>2. \A x \in PathsAbove(e) : ChecksCall(L, x, CallAfter(x, e)[1])
    BY <2>1 DEF CheckOK
  <2>3. ChecksCall(L, p, s[1]) /\ p # ctx
    BY <2>2, <1>14
  <2>4. p \in Paths /\ s \in Calls /\ (Append(p, s) = e \/ Append(p, s) \in PathsAbove(e))
    BY <2>1, PathDown
  <2>5. Append(p, s) # ctx /\ Append(p, s) \in DOMAIN L
    BY <2>1, <2>2, <2>4, <1>14, Zenon DEF ChecksCall
  <2>6. Append(p, s) # <<>> /\ Caller(Append(p, s)) = p
    BY <2>4, PathExtended
  <2> HIDE DEF s
  <2>7. ASSUME p = q  PROVE ChecksCall(T, p, s[1])
    <3>1. rest # {}
      BY <2>5, <2>6, <2>7, <1>15, Zenon
    <3>2. s[1] = n
      BY <2>3, <2>7, <1>12 DEF ChecksCall
    <3> QED  BY <1>1, <1>3, <3>1, <3>2, <2>7, <1>10, <1>12, <1>17 DEF ChecksCall
  <2>8. ASSUME p # q  PROVE ChecksCall(T, p, s[1])
    BY <2>3, <2>8 DEF ChecksCall
  <2>9. ChecksCall(T, p, s[1])
    BY <2>7, <2>8
  <2> QED  BY <2>9 DEF s
<1>20. ASSUME NEW e \in DOMAIN T \ {q}  PROVE ObjectOK(T, e)
  <2>1. ObjectOK(L, e) /\ T[e] = L[e] /\ e \in Paths /\ e \in DOMAIN L
    BY <1>5, <1>16 DEF ObjectOK
  <2>2. L[e].phase = "run" =>
          \A k \in DOMAIN L[e].opened : \A x \in L[e].opened[k].callees :
            Callee(e, k, x) \in DOMAIN T /\ T[Callee(e, k, x)].inv = L[Callee(e, k, x)].inv
    <3>1. SUFFICES ASSUME L[e].phase = "run", NEW k \in DOMAIN L[e].opened,
                          NEW x \in L[e].opened[k].callees
                   PROVE  Callee(e, k, x) \in DOMAIN T
      BY <1>16
    <3>2. Callee(e, k, x) \in DOMAIN L
      BY <2>1, <3>1 DEF ObjectOK, RunOK
    <3>3. <<k, x>> \in Calls
      <4>1. OpenedOK(L[e]) /\ Graph(L[e].fun).node \subseteq Nat
        BY <2>1, ObjectFacts
      <4> QED  BY <4>1, <1>11, ProgramFacts DEF OpenedOK, Calls
    <3>4. Caller(Callee(e, k, x)) = e
      BY <2>1, <3>3, PathExtended DEF Callee
    <3> QED  BY <3>2, <3>4
  <2>3. L[e].phase = "check" =>
          \A p \in PathsAbove(e) : ChecksCall(T, p, CallAfter(p, e)[1])
    BY <1>19
  <2> QED  BY <2>1, <2>2, <2>3, <1>18, OtherObject
<1>21. CheckOK(T, q)
  <2>1. \A s \in DOMAIN r.cache : s[1] \notin Visited(r) => Settled(Append(q, s), r.cache[s])
    BY <1>4, <1>11, <1>13 DEF CheckOK
  <2>2. CacheFilled(q, r, Graph(r.fun).node \ Visited(r))
    <3>1. SUFFICES ASSUME HeadsFresh, NEW d \in Graph(m.fun).node \ Visited(m),
                          NEW x \in DOMAIN prog.cfg, Takes(q, r, d, x)
                   PROVE  Fresh(r, d, x)
      BY <1>1, <1>13 DEF CacheFilled
    <3>2. d # n /\ Takes(q, m, d, x)
      BY <1>1, <3>1, <1>13 DEF Takes
    <3>3. Fresh(m, d, x)
      BY <3>1, <3>2, <1>11 DEF CheckOK, CacheFilled
    <3> QED  BY <1>1, <1>4, <3>2, <3>3 DEF Fresh
  <2>3. \A p \in PathsAbove(q) : ChecksCall(T, p, CallAfter(p, q)[1])
    BY <1>10, <1>17, <1>19
  <2> QED  BY <2>1, <2>2, <2>3, Zenon DEF CheckOK
<1>22. OpenedOK(r)
  <2>1. CASE rest = {}
    <3>1. DOMAIN r.opened = {}
      BY <1>2, <2>1, <1>12
    <3> QED  BY <3>1 DEF OpenedOK
  <2>2. CASE rest # {}
    <3>1. DOMAIN r.opened = {n} /\ r.next = n /\ DOMAIN r.opened[n] = {"callees", "post"}
          /\ r.opened[n].callees \subseteq DOMAIN prog.cfg
      BY <1>1, <1>3, <2>2, <1>12
    <3> QED  BY <1>1, <3>1, <1>10, <1>12 DEF OpenedOK
  <2> QED  BY <2>1, <2>2
<1>23. ObjectOK(T, q)
  BY <1>1, <1>10, <1>11, <1>17, <1>18, <1>21, <1>22 DEF ObjectOK
<1>24. ASSUME NEW c, NEW k, CheckedOK(L, c, k)  PROVE CheckedOK(T, c, k)
  <2>1. c \in Paths
    BY <1>24 DEF CheckedOK
  <2>2. c \in DOMAIN T => T[c].phase \in {"check", "checked"} /\ k \in Visited(T[c])
    BY <1>1, <1>13, <1>24 DEF CheckedOK
  <2>3. ASSUME NEW p \in PathsAbove(c) \cap DOMAIN T  PROVE ComesDown(T, p, CallAfter(p, c))
    <3> DEFINE s == CallAfter(p, c)
    <3>1. p \in Paths /\ s \in Calls
      BY <2>1, PathDown
    <3>2. ComesDown(L, p, s)
      BY <1>16, <1>24 DEF CheckedOK
    <3>3. Caller(Append(p, s)) = p /\ FunctionAt(Append(p, s)) = s[2]
      BY <3>1, PathExtended
    <3> HIDE DEF s
    <3>4. ASSUME p = q  PROVE ComesDown(T, p, s)
      <4>1. s[1] \in Visited(r) /\ T[p] = r /\ r.phase = "check"
        BY <1>1, <3>2, <3>4, <1>10, <1>13 DEF ComesDown
      <4>2. ASSUME s[1] \in DOMAIN r.opened
            PROVE  Append(p, s) \in DOMAIN T \/ s[2] \notin r.opened[s[1]].callees
        <5>1. s[1] = n /\ r.opened[n].callees = rest
          BY <1>2, <1>3, <4>2, <1>12
        <5>2. Append(p, s) \in DOMAIN L \/ s[2] \notin m.opened[n].callees
          BY <5>1, <3>2, <3>4, <1>10 DEF ComesDown
        <5>3. Append(p, s) = ctx => s[2] = f
          BY <3>3
        <5> QED  BY <5>1, <5>2, <5>3
      <4> QED  BY <4>1, <4>2 DEF ComesDown
    <3>5. ASSUME p # q  PROVE ComesDown(T, p, s)
      <4>1. T[p] = L[p]
        BY <3>5
      <4>2. Append(p, s) \in DOMAIN L => Append(p, s) \in DOMAIN T
        BY <3>3, <3>5, Zenon
      <4> QED  BY <3>2, <4>1, <4>2 DEF ComesDown
    <3>6. ComesDown(T, p, s)
      BY <3>4, <3>5
    <3> QED  BY <3>6 DEF s
  <2> QED  BY <2>1, <2>2, <2>3 DEF CheckedOK
<1>25. ASSUME HeadsFresh  PROVE FreshIn(T)
  <2>1. SUFFICES ASSUME NEW e \in DOMAIN T, e # <<>>, T[Caller(e)].phase = "check"
                 PROVE  T[Caller(e)].pre[CallOf(e)] \subseteq T[e].inv
    BY DEF FreshIn
  <2>2. Caller(e) \in DOMAIN T
    BY <2>1, <1>18
  <2>3. /\ T[Caller(e)].phase = L[Caller(e)].phase /\ T[Caller(e)].pre = L[Caller(e)].pre
        /\ T[e].inv = L[e].inv /\ e \in DOMAIN L
    BY <1>1, <2>2, <1>16
  <2> QED  BY <2>1, <2>3, <1>25 DEF TableInv, FreshIn
<1>26. \A b \in DOMAIN K : b = <<b[1], b[2]>> /\ CheckedOK(T, b[1], b[2]) /\ K[b].times = 1
  BY <1>24 DEF TableInv
<1>27. <<>> \in DOMAIN T /\ prog \in Programs /\ MixedIn(T, {})
  BY <1>11 DEF TableInv, MixedIn
<1> QED  BY <1>20, <1>23, <1>25, <1>26, <1>27 DEF TableInv

(* EndChecks of the entry point.                                            *)
LEMMA EntryChecked ==
  ASSUME NEW L, NEW K, TableInv(L, K, {}), NEW ctx, ctx = <<>>,
         L[ctx].phase = "check", L[ctx].next \notin Graph(L[ctx].fun).node,
         NEW r, IsObject(ctx, r), r.phase = "checked",
         r.fun = L[ctx].fun, r.inv = L[ctx].inv, r.pre = L[ctx].pre,
         r.next = L[ctx].next, r.opened = L[ctx].opened, r.cache = L[ctx].cache,
         NEW T, T = [L EXCEPT ![ctx] = r]
  PROVE  TableInv(T, K, {})
<1>1. ctx \in DOMAIN L
  BY DEF TableInv
<1>2. OpenedOK(L[ctx]) /\ ctx \in Paths
  BY <1>1, ObjectFacts
<1>3. DOMAIN L[ctx].opened = {}
  BY <1>2 DEF OpenedOK
<1>4. OpenedOK(r)
  BY <1>3 DEF OpenedOK
<1>5. ObjectOK(T, ctx)
  BY <1>1, <1>2, <1>4 DEF ObjectOK
<1>6. Visited(L[ctx]) \subseteq Visited(r)
  BY DEF Visited
<1> QED  BY <1>1, <1>3, <1>5, <1>6, StepOfOne

------------------------------------------------------------------------------
(* The steps of the specification keep the invariant.                       *)

LEMMA RunBlockKeeps ==
  ASSUME TableInv(live, checked, {}), missing = {}, NEW ctx \in DOMAIN live, RunBlock(ctx)
  PROVE  TableInv(live', checked', missing')
<1> DEFINE o == live[ctx]
<1>1. PICK c \in Ready(o) \ Exits(Order(o.fun)) :
        /\ ~ NeedsCallees(ctx, Order(o.fun).node[c], PreOf(o, c))
        /\ live' = [live EXCEPT ![ctx] =
              [Entered(o, c) EXCEPT
                 !.post = [@ EXCEPT ![Order(o.fun).node[c]] =
                             PostWithoutCallees(ctx, Order(o.fun).node[c], PreOf(o, c))],
                 !.done = @ \cup {c}]]
  BY DEF RunBlock
<1>2. o.phase = "run" /\ checked' = checked /\ missing' = {}
  BY DEF RunBlock
<1>3. TableInv(live', checked, {})
  BY <1>1, <1>2, BlockRun
<1> QED  BY <1>2, <1>3

LEMMA BeginCallKeeps ==
  ASSUME TableInv(live, checked, {}), missing = {}, NEW ctx \in DOMAIN live, BeginCall(ctx)
  PROVE  TableInv(live', checked', missing')
<1> DEFINE o == live[ctx]
<1>1. PICK c \in Ready(o) \ Exits(Order(o.fun)) :
        /\ NeedsCallees(ctx, Order(o.fun).node[c], PreOf(o, c))
        /\ live' = With([live EXCEPT ![ctx] = Open(Entered(o, c), ctx, Order(o.fun).node[c],
                                                   PreOf(o, c))],
                        NewCallees(ctx, Order(o.fun).node[c], PreOf(o, c)))
  BY DEF BeginCall
<1>2. o.phase = "run" /\ checked' = checked /\ missing' = {}
  BY DEF BeginCall
<1>3. TableInv(live', checked, {})
  BY <1>1, <1>2, CallBegun
<1> QED  BY <1>2, <1>3

LEMMA ConvergeKeeps ==
  ASSUME TableInv(live, checked, {}), missing = {}, NEW ctx \in DOMAIN live, Converge(ctx)
  PROVE  TableInv(live', checked', missing')
<1> DEFINE o == live[ctx]  r == Converged(o)
<1>1. o.phase = "run" /\ checked' = checked /\ missing' = {}
      /\ o.done = Cells(Order(o.fun)) /\ live' = [live EXCEPT ![ctx] = r]
  BY DEF Converge
<1>2. IsObject(ctx, o)
  BY ObjectFacts
<1>3. /\ DOMAIN r = DOMAIN o /\ r.phase = "converged"
      /\ r.fun = o.fun /\ r.inv = o.inv /\ r.pre = o.pre
      /\ r.next = o.next /\ r.opened = o.opened /\ r.cache = o.cache
  BY <1>2 DEF IsObject, Converged, Fields
<1> HIDE DEF r
<1>4. IsObject(ctx, r)
  BY <1>2, <1>3 DEF IsObject
<1>5. TableInv(live', checked, {})
  BY <1>1, <1>3, <1>4, FixpointFound
<1> QED  BY <1>1, <1>5

LEMMA StartChecksKeeps ==
  ASSUME TableInv(live, checked, {}), missing = {}, NEW ctx \in DOMAIN live, StartChecks(ctx)
  PROVE  TableInv(live', checked', missing')
<1> DEFINE o == live[ctx]  r == [o EXCEPT !.phase = "check"]
<1>1. o.phase = "converged" /\ checked' = checked /\ missing' = {}
      /\ live' = [live EXCEPT ![ctx] = r]
  BY DEF StartChecks
<1>2. IsObject(ctx, o)
  BY ObjectFacts
<1>3. ctx # <<>> => live[Caller(ctx)].phase = "check"
  BY DEF StartChecks, MayCheck
<1>4. /\ DOMAIN r = DOMAIN o /\ r.phase = "check"
      /\ r.fun = o.fun /\ r.inv = o.inv /\ r.pre = o.pre
      /\ r.next = o.next /\ r.opened = o.opened /\ r.cache = o.cache
  BY <1>2 DEF IsObject, Fields
<1> HIDE DEF r
<1>5. IsObject(ctx, r)
  BY <1>2, <1>4 DEF IsObject
<1>6. TableInv(live', checked, {})
  BY <1>1, <1>3, <1>4, <1>5, ChecksStarted
<1> QED  BY <1>1, <1>6

LEMMA CheckStabilizationKeeps ==
  ASSUME TableInv(live, checked, {}), missing = {}, NEW ctx \in DOMAIN live,
         CheckStabilization(ctx)
  PROVE  TableInv(live', checked', missing')
<1> DEFINE o == live[ctx]  w == Order(o.fun)
<1>1. PICK x \in Ready(o) \cap Exits(w) :
        LET h        == HeadOfExit(x)
            n        == w.node[h]
            new      == JoinPosts(o, Inputs(o, x))
            widening == o.kind[h] = "increasing" /\ ~ new \subseteq o.pre[n]
            turn     == IF o.kind[h] = "increasing" THEN 1 ELSE o.count[h]
            refined  == Narrow(o.pre[n], new)
            stable   == ~ widening /\ (prog.narrows => o.pre[n] \subseteq refined)
            value    == IF widening THEN Extrapolate(o.count[h], o.pre[n], new) ELSE refined
        IN  live' = [live EXCEPT ![ctx] =
              [o EXCEPT
                 !.pre   = [@ EXCEPT ![n] = value],
                 !.kind  = [@ EXCEPT ![h] = IF widening \/ stable THEN "increasing"
                                            ELSE "decreasing"],
                 !.count = [@ EXCEPT ![h] = IF stable THEN 0
                                            ELSE IF widening THEN NextIteration(o.count[h])
                                            ELSE NextIteration(turn)],
                 !.done  = IF stable THEN @ \cup {x} ELSE @ \ w.comp[x]]]
  BY Zenon DEF CheckStabilization
<1> DEFINE h        == HeadOfExit(x)
           n        == w.node[h]
           new      == JoinPosts(o, Inputs(o, x))
           widening == o.kind[h] = "increasing" /\ ~ new \subseteq o.pre[n]
           refined  == Narrow(o.pre[n], new)
           stable   == ~ widening /\ (prog.narrows => o.pre[n] \subseteq refined)
           value    == IF widening THEN Extrapolate(o.count[h], o.pre[n], new) ELSE refined
           r        == live'[ctx]
<1>2. live' = [live EXCEPT ![ctx] = r]
  BY <1>1, Zenon
<1>3. o.phase = "run" /\ checked' = checked /\ missing' = {}
  BY Zenon DEF CheckStabilization
<1>4. IsObject(ctx, o)
  BY ObjectFacts
<1>5. /\ DOMAIN r = DOMAIN o
      /\ r.fun = o.fun /\ r.inv = o.inv /\ r.phase = o.phase
      /\ r.next = o.next /\ r.opened = o.opened /\ r.cache = o.cache
      /\ r.pre = [o.pre EXCEPT ![n] = value]
      /\ r.done = IF stable THEN o.done \cup {x} ELSE o.done \ w.comp[x]
  BY <1>1, <1>4, Zenon DEF IsObject, Fields
<1> HIDE DEF r, stable, value
<1>6. IsObject(ctx, r) /\ \A d \in Graph(o.fun).node : d # n => r.pre[d] = o.pre[d]
  BY <1>4, <1>5 DEF IsObject
<1>7. \/ r.done = o.done \cup {x} /\ (prog.narrows => r.pre[n] = o.pre[n])
      \/ r.done = o.done \ w.comp[x]
  <2>1. CASE stable
    <3>1. value = o.pre[n] \cap new /\ (prog.narrows => o.pre[n] \subseteq value)
      BY <2>1 DEF Narrow, stable, value
    <3>2. prog.narrows => r.pre[n] = o.pre[n]
      <4>1. prog.narrows => value = o.pre[n]
        BY <3>1
      <4> HIDE DEF n
      <4> QED  BY <4>1, <1>5
    <3> QED  BY <3>2, <1>5, <2>1
  <2>2. CASE ~ stable
    BY <1>5, <2>2
  <2> QED  BY <2>1, <2>2
<1> HIDE DEF n
<1>8. x \in Ready(o) \cap Exits(w) /\ n = w.node[HeadOfExit(x)]
  BY <1>1, Zenon DEF n, h
<1>9. ExitTaken(o, r, x, n)
  BY <1>6, <1>7 DEF ExitTaken
<1>10. TableInv(live', checked, {})
  BY <1>2, <1>3, <1>5, <1>6, <1>8, <1>9, ExitRun, Zenon
<1> QED  BY <1>3, <1>10

(* Storing the objects of callees puts them in the cache.                   *)
LEMMA StoreFacts ==
  ASSUME prog \in Programs, NEW L, NEW ctx \in Paths, NEW n \in Nat,
         NEW F, F \subseteq DOMAIN prog.cfg, NEW A
  PROVE  StoredIn(Store(A, ctx, Restrict(L, CalleePaths(ctx, n, F))), A, L, ctx, n, F)
<1> DEFINE P == CalleePaths(ctx, n, F)
           slots == {Last(c) : c \in DOMAIN Restrict(L, P)}
           new == [s \in slots |-> Restrict(L, P)[Append(ctx, s)]]
           B == Store(A, ctx, Restrict(L, P))
<1>1. DOMAIN Restrict(L, P) = P /\ \A c \in P : Restrict(L, P)[c] = L[c]
  BY DEF Restrict
<1>2. ASSUME NEW f \in F
      PROVE  Callee(ctx, n, f) \in P /\ Last(Callee(ctx, n, f)) = <<n, f>>
             /\ Append(ctx, <<n, f>>) = Callee(ctx, n, f)
  <2>1. <<n, f>> \in Calls
    BY ProgramFacts DEF Calls
  <2> QED  BY <2>1, PathExtended DEF Callee, CalleePaths
<1>3. \A s : s \in slots <=> \E f \in F : s = <<n, f>>
  BY <1>1, <1>2, Zenon DEF CalleePaths
<1>4. \A f \in F : <<n, f>> \in slots /\ new[<<n, f>>] = L[Callee(ctx, n, f)]
  BY <1>1, <1>2, <1>3
<1>5. B = With(A, new)
  BY DEF Store
<1> HIDE DEF P, B, new
<1>6. DOMAIN new = slots
  BY DEF new
<1>7. /\ DOMAIN B = DOMAIN A \cup slots
      /\ \A s \in DOMAIN B : B[s] = IF s \in slots THEN new[s] ELSE A[s]
  BY <1>5, <1>6 DEF With
<1> HIDE DEF slots
<1>8. \A s \in DOMAIN B :
        \/ s \in DOMAIN A /\ B[s] = A[s]
        \/ \E f \in F : s = <<n, f>> /\ B[s] = L[Callee(ctx, n, f)]
  BY <1>3, <1>4, <1>7
<1>9. \A s \in DOMAIN A : s[1] # n => s \in DOMAIN B /\ B[s] = A[s]
  BY <1>3, <1>7
<1>10. \A f \in F : <<n, f>> \in DOMAIN B /\ B[<<n, f>>] = L[Callee(ctx, n, f)]
  BY <1>4, <1>7
<1>11. StoredIn(B, A, L, ctx, n, F)
  BY <1>8, <1>9, <1>10 DEF StoredIn
<1> QED  BY <1>11 DEF B, P

LEMMA EndCallKeeps ==
  ASSUME TableInv(live, checked, {}), missing = {}, NEW ctx \in DOMAIN live, EndCall(ctx)
  PROVE  TableInv(live', checked', missing')
<1> DEFINE o == live[ctx]
           P(n) == CalleesAt(ctx, n)
           exits(n) == UNION {Restrict(live, P(n))[c].exit : c \in DOMAIN Restrict(live, P(n))}
<1>1. PICK n \in DOMAIN o.opened :
        /\ \A c \in DOMAIN Restrict(live, P(n)) : Restrict(live, P(n))[c].phase = "converged"
        /\ live' = [Without(live, DOMAIN Restrict(live, P(n))) EXCEPT ![ctx] =
              [o EXCEPT !.post = [@ EXCEPT ![n] = o.opened[n].post \cup exits(n)],
                        !.opened = Without(@, {n}),
                        !.cache = IF prog.cached THEN Store(@, ctx, Restrict(live, P(n))) ELSE @,
                        !.done = @ \cup {CellOf(Order(o.fun), n)}]]
  BY Zenon DEF EndCall
<1>2. o.phase = "run" /\ checked' = checked /\ missing' = {}
  BY DEF EndCall
<1>3. /\ prog \in Programs /\ ctx \in Paths /\ IsObject(ctx, o) /\ OpenedOK(o)
      /\ RunOK(live, ctx) /\ Graph(o.fun).node \subseteq Nat
  BY <1>2, ObjectFacts
<1> DEFINE F == o.opened[n].callees
<1>4. n \in Graph(o.fun).node /\ F \subseteq DOMAIN prog.cfg /\ n \in Nat
  BY <1>3 DEF OpenedOK
<1>5. P(n) = CalleePaths(ctx, n, F)
  BY DEF CalleesAt, CalleePaths
<1>6. \A f \in F : Callee(ctx, n, f) \in P(n) /\ Callee(ctx, n, f) \in DOMAIN live
  BY <1>3 DEF RunOK, CalleesAt
<1>7. /\ DOMAIN Restrict(live, P(n)) = P(n)
      /\ \A c \in P(n) : Restrict(live, P(n))[c] = live[c]
  BY DEF Restrict
<1>8. \A f \in F : live[Callee(ctx, n, f)].phase = "converged"
  BY <1>1, <1>6, <1>7
<1> DEFINE r == [o EXCEPT !.post = [@ EXCEPT ![n] = o.opened[n].post \cup exits(n)],
                          !.opened = Without(@, {n}),
                          !.cache = IF prog.cached THEN Store(@, ctx, Restrict(live, P(n))) ELSE @,
                          !.done = @ \cup {CellOf(Order(o.fun), n)}]
           T == [Without(live, DOMAIN Restrict(live, P(n))) EXCEPT ![ctx] = r]
<1>9. /\ DOMAIN r = DOMAIN o /\ r.fun = o.fun /\ r.inv = o.inv /\ r.pre = o.pre
      /\ r.phase = o.phase /\ r.next = o.next
      /\ r.done = o.done \cup {CellOf(Order(o.fun), n)}
      /\ r.opened = Without(o.opened, {n})
      /\ r.cache = IF prog.cached THEN Store(o.cache, ctx, Restrict(live, P(n))) ELSE o.cache
  BY <1>3 DEF IsObject, Fields
<1>10. live' = T
  BY <1>1
<1>11. CalleesJoined(o, r, n)
  <2>1. DOMAIN r.opened = DOMAIN o.opened \ {n} /\ \A d \in DOMAIN r.opened : r.opened[d] = o.opened[d]
    BY <1>9 DEF Without, Restrict
  <2> HIDE DEF r, o
  <2> QED  BY <1>9, <2>1 DEF CalleesJoined
<1> HIDE DEF r, exits
<1>12. StoredIn(r.cache, o.cache, live, ctx, n, F)
  <2>1. CASE prog.cached
    <3>1. r.cache = Store(o.cache, ctx, Restrict(live, CalleePaths(ctx, n, F)))
      BY <1>5, <1>9, <2>1
    <3> HIDE DEF F
    <3> QED  BY <1>3, <1>4, <3>1, StoreFacts
  <2>2. CASE ~ prog.cached
    BY <1>9, <2>2 DEF StoredIn
  <2> QED  BY <2>1, <2>2
<1>13. IsObject(ctx, r)
  <2>1. DOMAIN o.cache \subseteq Graph(o.fun).node \X DOMAIN prog.cfg
    BY <1>3 DEF IsObject
  <2>2. DOMAIN r.cache \subseteq Graph(o.fun).node \X DOMAIN prog.cfg
    BY <1>4, <1>12, <2>1 DEF StoredIn
  <2> QED  BY <1>3, <1>9, <2>2 DEF IsObject
<1>14. WithoutPaths(T, live, CalleePaths(ctx, n, F), ctx, r)
  <2>1. DOMAIN Without(live, DOMAIN Restrict(live, P(n))) = DOMAIN live \ P(n)
        /\ \A e \in DOMAIN live \ P(n) : Without(live, DOMAIN Restrict(live, P(n)))[e] = live[e]
    BY <1>7 DEF Without, Restrict
  <2>2. ctx \notin P(n)
    <3>1. ASSUME NEW f \in F  PROVE Callee(ctx, n, f) # ctx
      <4>1. <<n, f>> \in Calls
        BY <1>3, <1>4, ProgramFacts DEF Calls
      <4>2. Len(Append(ctx, <<n, f>>)) = Len(ctx) + 1 /\ Len(ctx) \in Nat
        BY <1>3, <4>1 DEF Paths
      <4> QED  BY <4>2 DEF Callee
    <3> QED  BY <3>1, <1>5 DEF CalleePaths
  <2> HIDE DEF P, F
  <2> QED  BY <2>1, <2>2, <1>5 DEF WithoutPaths
<1> HIDE DEF T, P, F
<1>15. F = o.opened[n].callees
  BY DEF F
<1>16. TableInv(T, checked, {})
  BY <1>2, <1>8, <1>11, <1>12, <1>13, <1>14, <1>15, CallEnded
<1> QED  BY <1>2, <1>10, <1>16

(* The caller of a callee whose checks have ended.                          *)
LEMMA AfterCalleeFacts ==
  ASSUME NEW q, NEW m, IsObject(q, m), NEW n \in DOMAIN m.opened,
         DOMAIN m.opened[n] = {"callees", "post"}, NEW f, NEW rest,
         rest = m.opened[n].callees \ {f}
  PROVE  LET r == AfterCallee(m, n, f)
         IN  DOMAIN r = DOMAIN m /\ r.cache = m.cache /\ CalleeLeft(m, r, n, rest)
<1> DEFINE r == AfterCallee(m, n, f)
<1>1. CASE rest = {}
  <2>1. r = [m EXCEPT !.opened = Without(@, {n}), !.next = @ + 1]
    BY <1>1 DEF AfterCallee
  <2> HIDE DEF r
  <2>2. /\ DOMAIN r = DOMAIN m /\ r.fun = m.fun /\ r.inv = m.inv /\ r.pre = m.pre
        /\ r.phase = m.phase /\ r.cache = m.cache /\ r.next = m.next + 1
        /\ r.opened = Without(m.opened, {n})
    BY <2>1 DEF IsObject, Fields
  <2>3. DOMAIN r.opened = DOMAIN m.opened \ {n}
    BY <2>2 DEF Without, Restrict
  <2> QED  BY <2>2, <2>3, <1>1 DEF r, CalleeLeft
<1>2. CASE rest # {}
  <2>1. r = [m EXCEPT !.opened = [@ EXCEPT ![n].callees = rest]]
    BY <1>2 DEF AfterCallee
  <2> HIDE DEF r
  <2>2. /\ DOMAIN r = DOMAIN m /\ r.fun = m.fun /\ r.inv = m.inv /\ r.pre = m.pre
        /\ r.phase = m.phase /\ r.cache = m.cache /\ r.next = m.next
        /\ r.opened = [m.opened EXCEPT ![n].callees = rest]
    BY <2>1 DEF IsObject, Fields
  <2>3. DOMAIN r.opened = DOMAIN m.opened /\ DOMAIN r.opened[n] = {"callees", "post"}
        /\ r.opened[n].callees = rest
    BY <2>2
  <2> QED  BY <2>2, <2>3, <1>2 DEF r, CalleeLeft
<1> QED  BY <1>1, <1>2

LEMMA EndChecksKeeps ==
  ASSUME TableInv(live, checked, {}), missing = {}, NEW ctx \in DOMAIN live, EndChecks(ctx)
  PROVE  TableInv(live', checked', missing')
<1> DEFINE o == live[ctx]  q == Caller(ctx)  m == live[q]  n == CallOf(ctx)  f == FunctionAt(ctx)
<1>1. /\ o.phase = "check" /\ o.next \notin Graph(o.fun).node
      /\ checked' = checked /\ missing' = {}
  BY DEF EndChecks
<1>2. /\ prog \in Programs /\ ctx \in Paths /\ IsObject(ctx, o) /\ OpenedOK(o)
      /\ ObjectOK(live, ctx)
  BY ObjectFacts
<1>3. CASE ctx = <<>>
  <2> DEFINE r == [o EXCEPT !.phase = "checked"]
  <2>1. live' = [live EXCEPT ![ctx] = r]
    BY <1>3 DEF EndChecks
  <2>2. /\ DOMAIN r = DOMAIN o /\ r.phase = "checked"
        /\ r.fun = o.fun /\ r.inv = o.inv /\ r.pre = o.pre
        /\ r.next = o.next /\ r.opened = o.opened /\ r.cache = o.cache
    BY <1>2 DEF IsObject, Fields
  <2> HIDE DEF r
  <2>3. IsObject(ctx, r)
    BY <1>2, <2>2 DEF IsObject
  <2>4. TableInv(live', checked, {})
    BY <1>1, <1>3, <2>1, <2>2, <2>3, EntryChecked
  <2> QED  BY <2>4, <1>1
<1>4. CASE ctx # <<>>
  <2> DEFINE a == AfterCallee(m, n, f)
             B == Store(m.cache, q, Restrict(live, {ctx}))
             r == [a EXCEPT !.cache = IF prog.cached THEN B ELSE @]
             T == [Without(live, {ctx}) EXCEPT ![q] = r]
  <2>1. q \in DOMAIN live /\ n \in DOMAIN m.opened /\ f \in m.opened[n].callees
        /\ ctx = Callee(q, n, f) /\ q # ctx
    <3>1. \A e \in DOMAIN live : ObjectOK(live, e)
      BY DEF TableInv
    <3> QED  BY <1>2, <1>4, <3>1, CallerAbove, Awaited
  <2>2. IsObject(q, m) /\ OpenedOK(m) /\ q \in Paths /\ Graph(m.fun).node \subseteq Nat
    BY <2>1, ObjectFacts
  <2>3. /\ DOMAIN m.opened[n] = {"callees", "post"} /\ f \in DOMAIN prog.cfg
        /\ n \in Graph(m.fun).node /\ n \in Nat
    BY <2>1, <2>2 DEF OpenedOK
  <2> DEFINE rest == m.opened[n].callees \ {f}
  <2>4. DOMAIN a = DOMAIN m /\ a.cache = m.cache /\ CalleeLeft(m, a, n, rest)
    <3> HIDE DEF m, n, f
    <3> QED  BY <2>1, <2>2, <2>3, AfterCalleeFacts
  <2>5. live' = T
    <3>1. live' = [Without(live, {ctx}) EXCEPT ![q] =
                 [AfterCallee(m, n, f) EXCEPT
                    !.cache = IF prog.cached THEN Store(@, q, Restrict(live, {ctx}))
                              ELSE @]]
      BY <1>4 DEF EndChecks
    <3> QED  BY <3>1, <2>4
  <2> HIDE DEF a
  <2>6. DOMAIN r = DOMAIN m /\ CalleeLeft(m, r, n, rest)
        /\ r.cache = IF prog.cached THEN B ELSE m.cache
    <3>1. /\ DOMAIN r = DOMAIN a /\ r.fun = a.fun /\ r.inv = a.inv /\ r.pre = a.pre
          /\ r.phase = a.phase /\ r.next = a.next /\ r.opened = a.opened
          /\ r.cache = IF prog.cached THEN B ELSE a.cache
      BY <2>2, <2>4 DEF IsObject, Fields
    <3> HIDE DEF r, rest, m, n, B
    <3> QED  BY <3>1, <2>4 DEF CalleeLeft
  <2> HIDE DEF r, rest
  <2>7. StoredIn(B, m.cache, live, q, n, {f})
    <3>1. {ctx} = CalleePaths(q, n, {f})
      BY <2>1 DEF CalleePaths
    <3>2. {f} \subseteq DOMAIN prog.cfg
      BY <2>3
    <3> HIDE DEF q, n, f, m
    <3>3. StoredIn(Store(m.cache, q, Restrict(live, CalleePaths(q, n, {f}))), m.cache, live, q, n, {f})
      BY <1>2, <2>2, <2>3, <3>2, StoreFacts
    <3> QED  BY <3>1, <3>3
  <2> HIDE DEF B
  <2>8. SameBut(m.cache, r.cache, n) /\ DOMAIN r.cache \subseteq DOMAIN m.cache \cup {<<n, f>>}
    <3> HIDE DEF m, n, f
    <3> QED  BY <2>6, <2>7 DEF StoredIn, SameBut
  <2>9. IsObject(q, r)
    <3>1. DOMAIN r.cache \subseteq Graph(m.fun).node \X DOMAIN prog.cfg
      <4>1. DOMAIN m.cache \subseteq Graph(m.fun).node \X DOMAIN prog.cfg
        BY <2>2 DEF IsObject
      <4>2. <<n, f>> \in Graph(m.fun).node \X DOMAIN prog.cfg
        BY <2>3
      <4> HIDE DEF m, n, f
      <4> QED  BY <4>1, <4>2, <2>8
    <3> HIDE DEF m
    <3> QED  BY <2>2, <2>6, <3>1 DEF IsObject, CalleeLeft
  <2>10. WithoutPaths(T, live, {ctx}, q, r)
    <3> HIDE DEF q
    <3> QED  BY <2>1 DEF Without, Restrict, WithoutPaths
  <2> HIDE DEF T
  <2>11. TableInv(T, checked, {})
    BY <1>1, <1>4, <2>6, <2>8, <2>9, <2>10, ChecksEnded, Zenon DEF rest
  <2> QED  BY <1>1, <2>5, <2>11
<1> QED  BY <1>3, <1>4

(* A block is recorded where the check pass comes to it for the first time. *)
LEMMA RecordFacts ==
  ASSUME TableInv(live, checked, {}), NEW ctx \in DOMAIN live, Checking(ctx), NEW v,
         RecordCheck(ctx, live[ctx].next, v), NEW T, TableInv(T, checked, {}),
         CheckedOK(T, ctx, live[ctx].next), NEW M, HeadsFresh => MixedIn(T, M)
  PROVE  TableInv(T, checked', M)
<1> DEFINE n == live[ctx].next
<1>1. live[ctx].phase = "check" /\ DOMAIN live[ctx].opened = {}
  BY DEF Checking
<1>2. <<ctx, n>> \notin DOMAIN checked
  BY <1>1, FirstCheck
<1> DEFINE E == [b \in {<<ctx, n>>} |-> [times |-> 1, value |-> v]]
<1>3. checked' = With(checked, E) /\ DOMAIN E = {<<ctx, n>>} /\ E[<<ctx, n>>].times = 1
  BY <1>2 DEF RecordCheck
<1>4. \A b \in DOMAIN checked :
        b = <<b[1], b[2]>> /\ CheckedOK(T, b[1], b[2]) /\ checked[b].times = 1
  BY DEF TableInv
<1>5. CheckedOK(T, ctx, n)
  OBVIOUS
<1> HIDE DEF n, E
<1>6. \A b \in DOMAIN checked' :
        b = <<b[1], b[2]>> /\ CheckedOK(T, b[1], b[2]) /\ checked'[b].times = 1
  <2>1. /\ DOMAIN checked' = DOMAIN checked \cup {<<ctx, n>>}
        /\ checked'[<<ctx, n>>].times = 1
        /\ \A b \in DOMAIN checked : b # <<ctx, n>> => checked'[b] = checked[b]
    BY <1>3 DEF With
  <2> QED  BY <2>1, <1>4, <1>5
<1> QED  BY <1>6 DEF TableInv

(* Callees that are missing where a call is not inlined, but collects some. *)
LEMMA MixedCall ==
  ASSUME prog \in Programs, NEW ctx \in Paths, NEW n \in Nat, NEW T, NEW M,
         \A c \in M : \E f \in Collected(ctx, n, T[ctx].pre[n]) : c = Callee(ctx, n, f),
         M # {} => IsUnknownCall(ctx, n, T[ctx].pre[n]) /\ ~ AtContextLimit(ctx)
  PROVE  MixedIn(T, M)
<1> DEFINE v == T[ctx].pre[n]
<1>1. SUFFICES ASSUME NEW c \in M
               PROVE  \E s \in T[Caller(c)].pre[CallOf(c)] :
                        prog.target[FunctionAt(Caller(c))][CallOf(c)][s] \in Analyzed(Caller(c))
  BY DEF MixedIn
<1>2. PICK f \in Collected(ctx, n, v) : c = Callee(ctx, n, f)
  OBVIOUS
<1>3. <<n, f>> \in Calls
  BY <1>2, CollectedFacts, ProgramFacts DEF Calls
<1>4. Caller(c) = ctx /\ CallOf(c) = n
  BY <1>2, <1>3, PathExtended DEF Callee
<1>5. PICK g \in Callees(FunctionAt(ctx), n, v) : g \in Analyzed(ctx)
  BY DEF IsUnknownCall, IsCurrentlyAnalyzed
<1>6. \E s \in v : g = prog.target[FunctionAt(ctx)][n][s]
  BY <1>5 DEF Callees
<1> HIDE DEF v
<1>7. \E s \in v : prog.target[FunctionAt(ctx)][n][s] \in Analyzed(ctx)
  BY <1>5, <1>6
<1> QED  BY <1>4, <1>7 DEF v

LEMMA CheckBlockKeeps ==
  ASSUME TableInv(live, checked, {}), missing = {}, NEW ctx \in DOMAIN live, CheckBlock(ctx)
  PROVE  TableInv(live', checked', missing')
<1> DEFINE o == live[ctx]  n == o.next  v == o.pre[n]
           taken == IF ~ HasCall(o.fun, n) \/ v = Bottom \/ AtContextLimit(ctx) THEN {}
                    ELSE Collected(ctx, n, v)
           gone == {g \in taken : <<n, g>> \notin DOMAIN o.cache}
           r == [o EXCEPT !.next = @ + 1, !.cache = Without(@, {n} \X taken)]
<1>1. /\ Checking(ctx) /\ ~ NeedsCallees(ctx, n, v) /\ RecordCheck(ctx, n, v)
      /\ live' = [live EXCEPT ![ctx] = r]
      /\ missing' = IF ~ prog.cached THEN missing
                    ELSE missing \cup {Callee(ctx, n, f) : f \in gone}
  BY DEF CheckBlock
<1>2. o.phase = "check" /\ n \in Graph(o.fun).node /\ DOMAIN o.opened = {}
  BY <1>1 DEF Checking
<1>3. /\ prog \in Programs /\ ctx \in Paths /\ IsObject(ctx, o)
      /\ o.fun = FunctionAt(ctx) /\ Graph(o.fun).node \subseteq Nat
  BY ObjectFacts
<1>4. /\ DOMAIN r = DOMAIN o /\ r.phase = "check" /\ r.fun = o.fun /\ r.inv = o.inv
      /\ r.pre = o.pre /\ r.next = n + 1 /\ r.opened = o.opened
      /\ r.cache = Without(o.cache, {n} \X taken)
  BY <1>2, <1>3 DEF IsObject, Fields
<1> HIDE DEF r, taken
<1>5. /\ DOMAIN r.cache \subseteq DOMAIN o.cache
      /\ \A s \in DOMAIN o.cache : s[1] # n => s \in DOMAIN r.cache /\ r.cache[s] = o.cache[s]
  BY <1>4 DEF Without, Restrict
<1>6. IsObject(ctx, r)
  <2>1. DOMAIN r.cache \subseteq Graph(o.fun).node \X DOMAIN prog.cfg
    BY <1>3, <1>5 DEF IsObject
  <2>2. n + 1 \in Nat /\ n + 1 # 0
    BY <1>3 DEF IsObject
  <2> HIDE DEF n
  <2> QED  BY <1>3, <1>4, <2>1, <2>2 DEF IsObject
<1>7. TableInv(live', checked, {}) /\ CheckedOK(live', ctx, n)
  BY <1>1, <1>2, <1>4, <1>5, <1>6, BlockChecked, Zenon
<1>8. MixedIn(live', missing')
  <2>1. live'[ctx].pre[n] = v /\ n \in Nat
    BY <1>1, <1>2, <1>3, <1>4
  <2>2. \A c \in missing' : \E f \in taken : c = Callee(ctx, n, f)
    BY <1>1
  <2>3. ASSUME taken # {}
        PROVE  taken = Collected(ctx, n, v) /\ IsUnknownCall(ctx, n, v) /\ ~ AtContextLimit(ctx)
    BY <1>1, <1>3, <2>3 DEF taken, NeedsCallees
  <2> HIDE DEF v, n, o
  <2>4. \A c \in missing' : \E f \in Collected(ctx, n, live'[ctx].pre[n]) : c = Callee(ctx, n, f)
    BY <2>1, <2>2, <2>3
  <2>5. missing' # {} => IsUnknownCall(ctx, n, live'[ctx].pre[n]) /\ ~ AtContextLimit(ctx)
    BY <2>1, <2>2, <2>3
  <2> QED  BY <1>3, <2>1, <2>4, <2>5, MixedCall
<1> QED  BY <1>1, <1>7, <1>8, RecordFacts

(* Table T is L with r at path ctx and the objects N for the callees F of   *)
(* block n.                                                                 *)
CalleesPutIn(T, L, ctx, r, n, F, N) ==
  /\ DOMAIN T = DOMAIN L \cup CalleePaths(ctx, n, F) /\ T[ctx] = r
  /\ \A e \in DOMAIN L \ {ctx} : T[e] = L[e]
  /\ \A f \in F : T[Callee(ctx, n, f)] = N[Callee(ctx, n, f)]

(* Objects for callees do not come upon others.                             *)
LEMMA TableExtended ==
  ASSUME NEW L, NEW K, TableInv(L, K, {}), NEW ctx \in DOMAIN L,
         NEW n \in Nat, n \notin DOMAIN L[ctx].opened, NEW F, F \subseteq DOMAIN prog.cfg,
         NEW N, DOMAIN N = CalleePaths(ctx, n, F), NEW r,
         NEW T, T = With([L EXCEPT ![ctx] = r], N)
  PROVE  CalleesPutIn(T, L, ctx, r, n, F, N)
<1> DEFINE A == [L EXCEPT ![ctx] = r]
<1>1. DOMAIN A = DOMAIN L /\ A[ctx] = r /\ \A e \in DOMAIN L \ {ctx} : A[e] = L[e]
  OBVIOUS
<1> HIDE DEF A
<1>2. /\ DOMAIN T = DOMAIN A \cup DOMAIN N
      /\ \A e \in DOMAIN T : T[e] = IF e \in DOMAIN N THEN N[e] ELSE A[e]
  <2>1. T = With(A, N)
    BY DEF A
  <2> QED  BY <2>1 DEF With
<1>3. \A d \in DOMAIN N : d \notin DOMAIN L
  BY NotCalled DEF CalleePaths
<1>4. \A f \in F : Callee(ctx, n, f) \in DOMAIN N
  BY DEF CalleePaths
<1>5. /\ DOMAIN T = DOMAIN L \cup CalleePaths(ctx, n, F) /\ T[ctx] = r
      /\ \A e \in DOMAIN L \ {ctx} : T[e] = L[e]
  BY <1>1, <1>2, <1>3
<1>6. \A f \in F : T[Callee(ctx, n, f)] = N[Callee(ctx, n, f)]
  BY <1>2, <1>4
<1> QED  BY <1>5, <1>6 DEF CalleesPutIn

(* The check pass calls: it has come to the block, and its object is as     *)
(* Open leaves it, but for what it takes out of the cache.                  *)
LEMMA OpenedForChecks ==
  ASSUME TableInv(live, checked, {}), NEW ctx \in DOMAIN live, Checking(ctx),
         NEW n, n = live[ctx].next, NEW v, v = live[ctx].pre[n],
         NEW A, LeftBut(live[ctx].cache, A, n),
         NEW r, r = [Open(live[ctx], ctx, n, v) EXCEPT !.cache = A],
         NEW F, F \subseteq Collected(ctx, n, v),
         NEW N, DOMAIN N = CalleePaths(ctx, n, F),
         NEW T, T = With([live EXCEPT ![ctx] = r], N),
         CalleesReady(N, ctx, n, F, v)
  PROVE  TableInv(T, checked, {}) /\ CheckedOK(T, ctx, n)
<1> DEFINE o == live[ctx]  b == Open(o, ctx, n, v)
<1>1. o.phase = "check" /\ n \in Graph(o.fun).node /\ DOMAIN o.opened = {}
  BY DEF Checking
<1>2. IsObject(ctx, o) /\ Graph(o.fun).node \subseteq Nat /\ o.next \in Nat
  BY ObjectFacts DEF IsObject
<1>3. /\ IsObject(ctx, b)
      /\ b.fun = o.fun /\ b.inv = o.inv /\ b.phase = o.phase /\ b.next = o.next
      /\ b.pre = o.pre /\ b.cache = o.cache /\ b.done = o.done
      /\ DOMAIN b.opened = DOMAIN o.opened \cup {n}
      /\ b.opened[n].callees = Collected(ctx, n, v)
      /\ DOMAIN b.opened[n] = {"callees", "post"}
  BY <1>2, OpenFacts
<1>4. r = [b EXCEPT !.cache = A]
  OBVIOUS
<1> HIDE DEF b
<1>5. /\ DOMAIN r = DOMAIN b /\ r.fun = b.fun /\ r.inv = b.inv /\ r.phase = b.phase
      /\ r.next = b.next /\ r.pre = b.pre /\ r.opened = b.opened /\ r.cache = A
  BY <1>3, <1>4 DEF IsObject, Fields
<1>6. IsObject(ctx, r)
  <2>1. DOMAIN A \subseteq Graph(o.fun).node \X DOMAIN prog.cfg
    BY <1>2 DEF IsObject, LeftBut
  <2> HIDE DEF o
  <2> QED  BY <1>2, <1>3, <1>5, <2>1, Zenon DEF IsObject
<1>7. F \subseteq DOMAIN prog.cfg /\ Collected(ctx, n, v) \subseteq DOMAIN prog.cfg /\ n \in Nat
  BY <1>1, <1>2, CollectedFacts
<1>8. n \notin DOMAIN live[ctx].opened
  BY <1>1
<1>9. CalleesPutIn(T, live, ctx, r, n, F, N)
  <2>1. F \subseteq DOMAIN prog.cfg /\ n \in Nat
    BY <1>7
  <2> QED  BY <1>8, <2>1, TableExtended
<1>10. n \notin Visited(o)
  BY <1>1, <1>2 DEF Visited
<1>11. CallAdded(live, T, ctx, n, F)
  <2>1. n \in Nat \ DOMAIN o.opened /\ F \subseteq DOMAIN prog.cfg
    BY <1>7, <1>8
  <2>2. o.phase = "run" \/ (o.phase = "check" /\ n \notin Visited(o))
    BY <1>1, <1>10
  <2>3. r.inv = o.inv /\ r.phase = o.phase /\ r.next = o.next
    BY <1>3, <1>5
  <2>4. DOMAIN r.opened = DOMAIN o.opened \cup {n} /\ F \subseteq r.opened[n].callees
        /\ \A d \in DOMAIN o.opened : r.opened[d] = o.opened[d]
    <3>1. r.opened = b.opened /\ DOMAIN o.opened = {}
      BY <1>1, <1>5
    <3> HIDE DEF o
    <3> QED  BY <3>1, <1>3
  <2>5. /\ DOMAIN T = DOMAIN live \cup CalleePaths(ctx, n, F) /\ T[ctx] = r
        /\ \A e \in DOMAIN live \ {ctx} : T[e] = live[e]
    BY <1>9, Zenon DEF CalleesPutIn
  <2> QED  BY <2>1, <2>2, <2>3, <2>4, <2>5, Zenon DEF CallAdded
<1>12. CalleesReady(T, ctx, n, F, v)
  BY <1>9, Zenon DEF CalleesPutIn, CalleesReady
<1>13. r = T[ctx]
  BY <1>9 DEF CalleesPutIn
<1>14. r.fun = o.fun /\ r.pre = o.pre /\ v = o.pre[n] /\ LeftBut(o.cache, r.cache, n)
  BY <1>3, <1>5
<1>15. DOMAIN r.opened[n] = {"callees", "post"} /\ r.opened[n].callees \subseteq DOMAIN prog.cfg
  <2>1. r.opened = b.opened /\ Collected(ctx, n, v) \subseteq DOMAIN prog.cfg
    BY <1>5, <1>7
  <2>2. DOMAIN b.opened[n] = {"callees", "post"} /\ b.opened[n].callees = Collected(ctx, n, v)
    BY <1>3
  <2> QED  BY <2>1, <2>2, Zenon
<1>16. CallOpened(live, T, ctx, n, F)
  <2>1. o.phase = "check" /\ DOMAIN o.opened = {} /\ n = o.next /\ n \in Graph(o.fun).node
    BY <1>1
  <2>2. /\ IsObject(ctx, T[ctx]) /\ T[ctx].fun = o.fun /\ T[ctx].pre = o.pre
        /\ LeftBut(o.cache, T[ctx].cache, n) /\ CalleesReady(T, ctx, n, F, o.pre[n])
    BY <1>6, <1>12, <1>13, <1>14, Zenon
  <2>3. DOMAIN T[ctx].opened[n] = {"callees", "post"}
        /\ T[ctx].opened[n].callees \subseteq DOMAIN prog.cfg
    BY <1>13, <1>15, Zenon
  <2> QED  BY <1>11, <2>1, <2>2, <2>3, Zenon DEF CallOpened
<1> QED  BY <1>16, CallChecked

LEMMA CheckCallAgainKeeps ==
  ASSUME TableInv(live, checked, {}), missing = {}, NEW ctx \in DOMAIN live,
         CheckCallAgain(ctx)
  PROVE  TableInv(live', checked', missing')
<1> DEFINE o == live[ctx]  n == o.next  v == o.pre[n]  F == Collected(ctx, n, v)
           r == [Open(o, ctx, n, v) EXCEPT !.cache = o.cache]
<1>1. /\ Checking(ctx) /\ RecordCheck(ctx, n, v) /\ missing' = {}
      /\ live' = With([live EXCEPT ![ctx] = Open(o, ctx, n, v)], NewCallees(ctx, n, v))
  BY DEF CheckCallAgain
<1>2. /\ prog \in Programs /\ ctx \in Paths /\ IsObject(ctx, o) /\ n \in Nat
  BY ObjectFacts DEF IsObject
<1>3. r = Open(o, ctx, n, v)
  BY DEF Open
<1>4. /\ DOMAIN NewCallees(ctx, n, v) = CalleePaths(ctx, n, F)
      /\ \A f \in F : NewCallees(ctx, n, v)[Callee(ctx, n, f)] = NewFixpoint(f, v)
  BY <1>2, NewCalleesFacts
<1>5. live' = With([live EXCEPT ![ctx] = r], NewCallees(ctx, n, v))
  BY <1>1, <1>3, Zenon
<1>6. CalleesReady(NewCallees(ctx, n, v), ctx, n, F, v) /\ LeftBut(o.cache, o.cache, n)
  BY <1>4 DEF CalleesReady, LeftBut
<1> DEFINE A == o.cache  N == NewCallees(ctx, n, v)
<1>7. /\ DOMAIN N = CalleePaths(ctx, n, F) /\ CalleesReady(N, ctx, n, F, v)
      /\ LeftBut(o.cache, A, n) /\ F \subseteq Collected(ctx, n, v)
      /\ live' = With([live EXCEPT ![ctx] = r], N) /\ r = [Open(o, ctx, n, v) EXCEPT !.cache = A]
      /\ n = live[ctx].next /\ v = live[ctx].pre[n]
  BY <1>4, <1>5, <1>6
<1> HIDE DEF A, N, r, F, n, v
<1>8. TableInv(live', checked, {}) /\ CheckedOK(live', ctx, n)
  BY <1>1, <1>7, OpenedForChecks, ZenonT(30)
<1>9. MixedIn(live', {})
  BY DEF MixedIn
<1> QED  BY <1>1, <1>8, <1>9, RecordFacts DEF n, v

LEMMA CheckCachedCallKeeps ==
  ASSUME TableInv(live, checked, {}), missing = {}, NEW ctx \in DOMAIN live,
         CheckCachedCall(ctx)
  PROVE  TableInv(live', checked', missing')
<1> DEFINE o == live[ctx]  n == o.next  v == o.pre[n]
           slots == {n} \X Collected(ctx, n, v)
           found == slots \cap DOMAIN o.cache
           A == Without(o.cache, found)
           r == [Open(o, ctx, n, v) EXCEPT !.cache = A]
           N == [c \in {Append(ctx, s) : s \in found} |-> o.cache[Last(c)]]
           F == {f \in Collected(ctx, n, v) : <<n, f>> \in DOMAIN o.cache}
<1>1. /\ Checking(ctx) /\ NeedsCallees(ctx, n, v) /\ prog.cached
      /\ RecordCheck(ctx, n, v)
      /\ live' = With([live EXCEPT ![ctx] = [Open(o, ctx, n, v) EXCEPT !.cache = Without(@, found)]], N)
      /\ missing' = missing \cup {Append(ctx, s) : s \in slots \ found}
  BY DEF CheckCachedCall
<1>2. /\ prog \in Programs /\ ctx \in Paths /\ IsObject(ctx, o) /\ n \in Nat
      /\ n \in Graph(o.fun).node /\ o.phase = "check" /\ DOMAIN o.opened = {}
  BY <1>1, ObjectFacts DEF IsObject, Checking
<1>3. CheckOK(live, ctx)
  BY <1>2, ObjectFacts
<1>4. n \notin Visited(o)
  BY <1>2 DEF Visited
<1>5. live' = With([live EXCEPT ![ctx] = r], N)
  <2>1. Open(o, ctx, n, v).cache = o.cache
    BY <1>2, OpenFacts
  <2> QED  BY <1>1, <2>1
<1>6. LeftBut(o.cache, A, n)
  BY DEF Without, Restrict, LeftBut
<1>7. ASSUME NEW f \in Collected(ctx, n, v)
      PROVE  /\ f \in DOMAIN prog.cfg
             /\ Callee(ctx, n, f) = Append(ctx, <<n, f>>) /\ Last(Callee(ctx, n, f)) = <<n, f>>
  <2>1. f \in DOMAIN prog.cfg
    BY CollectedFacts
  <2>2. <<n, f>> \in Calls
    BY <1>2, <2>1, ProgramFacts DEF Calls
  <2> QED  BY <1>2, <2>1, <2>2, PathExtended DEF Callee
<1>8. /\ \A f \in F : <<n, f>> \in found
      /\ \A s \in found : s[2] \in F /\ s = <<n, s[2]>>
  OBVIOUS
<1>9. DOMAIN N = CalleePaths(ctx, n, F)
      /\ \A f \in F : N[Callee(ctx, n, f)] = o.cache[<<n, f>>]
  <2>1. {Append(ctx, s) : s \in found} = CalleePaths(ctx, n, F)
    <3>1. ASSUME NEW s \in found  PROVE Append(ctx, s) \in CalleePaths(ctx, n, F)
      <4>1. s[2] \in F /\ s = <<n, s[2]>> /\ F \subseteq Collected(ctx, n, v)
        BY <1>8
      <4>2. Callee(ctx, n, s[2]) = Append(ctx, s)
        BY <4>1, <1>7
      <4> QED  BY <4>1, <4>2 DEF CalleePaths
    <3>2. ASSUME NEW f \in F  PROVE \E s \in found : Callee(ctx, n, f) = Append(ctx, s)
      BY <1>7, <1>8
    <3> QED  BY <3>1, <3>2, Zenon DEF CalleePaths
  <2>2. ASSUME NEW f \in F  PROVE N[Callee(ctx, n, f)] = o.cache[<<n, f>>]
    <3>1. Callee(ctx, n, f) \in {Append(ctx, s) : s \in found} /\ Last(Callee(ctx, n, f)) = <<n, f>>
      BY <1>7, <1>8
    <3> QED  BY <3>1
  <2> QED  BY <2>1, <2>2, Zenon
<1>10. \A f \in F : Settled(Callee(ctx, n, f), N[Callee(ctx, n, f)])
  BY <1>3, <1>4, <1>7, <1>9, Zenon DEF CheckOK
<1>11. ASSUME HeadsFresh, NEW f \in Collected(ctx, n, v)
       PROVE  <<n, f>> \in DOMAIN o.cache /\ v \subseteq o.cache[<<n, f>>].inv
  <2>1. Takes(ctx, o, n, f)
    BY <1>1 DEF Takes
  <2>2. n \in Graph(o.fun).node \ Visited(o) /\ f \in DOMAIN prog.cfg
    BY <1>2, <1>4, <1>7
  <2>3. Fresh(o, n, f)
    <3> HIDE DEF n
    <3> QED  BY <1>3, <1>11, <2>1, <2>2 DEF CheckOK, CacheFilled
  <2> QED  BY <2>3 DEF Fresh
<1>12. \A f \in F : HeadsFresh => v \subseteq N[Callee(ctx, n, f)].inv
  BY <1>9, <1>11, Zenon
<1>13. HeadsFresh => missing' = {}
  <2>1. HeadsFresh => slots \ found = {}
    BY <1>11
  <2> QED  BY <1>1, <2>1
<1>14. F \subseteq Collected(ctx, n, v)
  OBVIOUS
<1> HIDE DEF N, F, A, r, slots, found
<1>15. CalleesReady(N, ctx, n, F, v)
  BY <1>10, <1>12 DEF CalleesReady
<1>16. TableInv(live', checked, {}) /\ CheckedOK(live', ctx, n)
  <2>1. r = [Open(o, ctx, n, v) EXCEPT !.cache = A] /\ n = live[ctx].next /\ v = live[ctx].pre[n]
    BY DEF r
  <2>2. /\ DOMAIN N = CalleePaths(ctx, n, F) /\ F \subseteq Collected(ctx, n, v)
        /\ LeftBut(live[ctx].cache, A, n)
    BY <1>6, <1>9, <1>14
  <2> HIDE DEF n, v
  <2> QED  BY <1>1, <1>5, <1>15, <2>1, <2>2, OpenedForChecks, Zenon
<1>17. HeadsFresh => MixedIn(live', missing')
  BY <1>13 DEF MixedIn
<1> QED  BY <1>1, <1>16, <1>17, RecordFacts, Zenon

LEMMA InliningInit == Init => InliningInv
<1> SUFFICES ASSUME Init  PROVE InliningInv
  OBVIOUS
<1>1. /\ prog \in Programs /\ DOMAIN live = {<<>>} /\ live[<<>>] = NewFixpoint(prog.main, State)
      /\ DOMAIN checked = {} /\ missing = {}
  BY DEF Init
<1>2. ObjectOK(live, <<>>)
  <2>1. prog.main = FunctionAt(<<>>)
    BY DEF FunctionAt
  <2> QED  BY <1>1, <2>1, ProgramFacts, PathEnds, NewObject
<1>3. FreshIn(live) /\ MixedIn(live, missing)
  BY <1>1 DEF FreshIn, MixedIn
<1> QED  BY <1>1, <1>2, <1>3 DEF InliningInv, TableInv

(* The program does not change: what is said of a table in its terms stays. *)
LEMMA SameCalls ==
  ASSUME prog' = prog, NEW CONSTANT ctx, NEW CONSTANT f, NEW CONSTANT n, NEW CONSTANT v
  PROVE  /\ FunctionAt(ctx)' = FunctionAt(ctx) /\ Analyzed(ctx)' = Analyzed(ctx)
         /\ Graph(f)' = Graph(f) /\ Order(f)' = Order(f)
         /\ HasCall(f, n)' <=> HasCall(f, n)
         /\ Callees(f, n, v)' = Callees(f, n, v)
         /\ Collected(ctx, n, v)' = Collected(ctx, n, v)
         /\ NeedsCallees(ctx, n, v)' <=> NeedsCallees(ctx, n, v)
<1>1. FunctionAt(ctx)' = FunctionAt(ctx) /\ Analyzed(ctx)' = Analyzed(ctx)
  BY DEF FunctionAt, Analyzed
<1>2. \A g : Graph(g)' = Graph(g) /\ Order(g)' = Order(g)
  BY DEF Graph, Order
<1>3. \A g : HasCall(g, n)' <=> HasCall(g, n)
  BY DEF HasCall
<1>4. \A g : Callees(g, n, v)' = Callees(g, n, v)
  BY DEF Callees
<1>5. \A g : IsCurrentlyAnalyzed(ctx, g)' <=> IsCurrentlyAnalyzed(ctx, g)
  BY <1>1 DEF IsCurrentlyAnalyzed
<1>6. AtContextLimit(ctx)' <=> AtContextLimit(ctx)
  BY DEF AtContextLimit
<1>7. IsUnknownCall(ctx, n, v)' <=> IsUnknownCall(ctx, n, v)
  BY <1>1, <1>4, <1>5, <1>6 DEF IsUnknownCall
<1>8. \A g : IsDeclaration(g)' <=> IsDeclaration(g)
  BY DEF IsDeclaration
<1>9. Collected(ctx, n, v)' = Collected(ctx, n, v)
  <2>1. Callees(FunctionAt(ctx), n, v)' = Callees(FunctionAt(ctx), n, v)
    BY <1>1, <1>4
  <2>2. \A g : g \in Collected(ctx, n, v)' <=> g \in Collected(ctx, n, v)
    BY <2>1, <1>5, <1>8 DEF Collected
  <2> QED  BY <2>2 DEF Collected
<1>10. NeedsCallees(ctx, n, v)' <=> NeedsCallees(ctx, n, v)
  BY <1>1, <1>3, <1>7, <1>9 DEF NeedsCallees
<1> QED  BY <1>1, <1>2, <1>3, <1>4, <1>9, <1>10

LEMMA SameCaches ==
  ASSUME prog' = prog, NEW CONSTANT ctx, NEW CONSTANT o, NEW CONSTANT blocks
  PROVE  /\ HeadsFresh' <=> HeadsFresh
         /\ CacheFilled(ctx, o, blocks)' <=> CacheFilled(ctx, o, blocks)
         /\ IsObject(ctx, o)' <=> IsObject(ctx, o)
         /\ Settled(ctx, o)' <=> Settled(ctx, o)
<1>1. HeadsFresh' <=> HeadsFresh
  BY SameCalls DEF HeadsFresh
<1>2. \A c, r, n, f : Takes(c, r, n, f)' <=> Takes(c, r, n, f)
  BY SameCalls DEF Takes
<1>3. \A c, r, S : CacheFilled(c, r, S)' <=> CacheFilled(c, r, S)
  BY <1>1, <1>2 DEF CacheFilled
<1>4. \A c, r : IsObject(c, r)' <=> IsObject(c, r)
  BY SameCalls DEF IsObject
<1>5. \A c, r : Resting(c, r)' <=> Resting(c, r)
  BY <1>3, <1>4, SameCalls DEF Resting
<1>6. Settled(ctx, o)' <=> Settled(ctx, o)
  BY <1>5 DEF Settled
<1> QED  BY <1>1, <1>3, <1>4, <1>6

LEMMA SameObjects ==
  ASSUME prog' = prog, NEW CONSTANT L, NEW CONSTANT ctx
  PROVE  ObjectOK(L, ctx)' <=> ObjectOK(L, ctx)
<1>1. OpenedOK(L[ctx])' <=> OpenedOK(L[ctx])
  BY SameCalls DEF OpenedOK
<1>2. BlocksDone(L[ctx])' = BlocksDone(L[ctx])
  BY SameCalls DEF BlocksDone
<1>3. Busy(L[ctx])' = Busy(L[ctx])
  BY SameCalls DEF Busy
<1>4. RunOK(L, ctx)' <=> RunOK(L, ctx)
  <2>1. Order(L[ctx].fun)' = Order(L[ctx].fun)
    BY SameCalls
  <2>2. \A n, v : Collected(ctx, n, v)' = Collected(ctx, n, v)
    BY SameCalls
  <2>3. \A c, o : Settled(c, o)' <=> Settled(c, o)
    BY SameCaches
  <2>4. CacheFilled(ctx, L[ctx], BlocksDone(L[ctx]))' <=> CacheFilled(ctx, L[ctx], BlocksDone(L[ctx]))
    BY <1>2, SameCaches
  <2> QED  BY <1>3, <2>1, <2>2, <2>3, <2>4 DEF RunOK
<1>5. CheckOK(L, ctx)' <=> CheckOK(L, ctx)
  BY SameCalls, SameCaches DEF CheckOK
<1>6. IsAwaited(L, ctx)' <=> IsAwaited(L, ctx)
  BY SameCalls DEF IsAwaited
<1> QED  BY <1>1, <1>4, <1>5, <1>6, SameCaches DEF ObjectOK

LEMMA SameProgram ==
  ASSUME prog' = prog, TableInv(live', checked', missing')
  PROVE  InliningInv'
<1>1. \A L, M : MixedIn(L, M)' <=> MixedIn(L, M)
  BY SameCalls DEF MixedIn
<1>2. \A L, K, M : TableInv(L, K, M)' <=> TableInv(L, K, M)
  BY <1>1, SameObjects, SameCaches DEF TableInv
<1> QED  BY <1>2 DEF InliningInv

LEMMA InliningStep == InliningInv /\ [Next]_vars => InliningInv'
<1> SUFFICES ASSUME InliningInv, [Next]_vars  PROVE InliningInv'
  OBVIOUS
<1>1. CASE Next
  <2>1. missing = {} /\ TableInv(live, checked, {})
    BY <1>1 DEF Next, InliningInv
  <2>2. PICK ctx \in DOMAIN live :
          \/ RunBlock(ctx) \/ BeginCall(ctx) \/ EndCall(ctx)
          \/ CheckStabilization(ctx) \/ Converge(ctx)
          \/ StartChecks(ctx) \/ CheckBlock(ctx) \/ CheckCallAgain(ctx)
          \/ CheckCachedCall(ctx) \/ EndChecks(ctx)
    BY <1>1 DEF Next
  <2>3. TableInv(live', checked', missing')
    BY <2>1, <2>2, RunBlockKeeps, BeginCallKeeps, EndCallKeeps, CheckStabilizationKeeps,
       ConvergeKeeps, StartChecksKeeps, CheckBlockKeeps, CheckCallAgainKeeps,
       CheckCachedCallKeeps, EndChecksKeeps
  <2>4. prog' = prog
    BY <2>2, Zenon DEF RunBlock, BeginCall, EndCall, CheckStabilization, Converge, StartChecks,
                CheckBlock, CheckCallAgain, CheckCachedCall, EndChecks
  <2> QED  BY <2>3, <2>4, SameProgram
<1>2. CASE UNCHANGED vars
  <2>1. prog' = prog /\ live' = live /\ checked' = checked /\ missing' = missing
    BY <1>2 DEF vars
  <2>2. TableInv(live', checked', missing')
    BY <2>1 DEF InliningInv
  <2> QED  BY <2>1, <2>2, SameProgram
<1> QED  BY <1>1, <1>2

(* The inductive invariant of the inlining of calls: what the objects of    *)
(* all contexts, their caches and the history of checks have to do with one *)
(* another.                                                                 *)
THEOREM Inlining == Spec => []InliningInv
<1> QED  BY InliningInit, InliningStep, PTL DEF Spec

(* No block is checked twice on one path of calls, whichever programs,      *)
(* caches, limits and workers: an object checks its blocks one after        *)
(* another, and there is at most one object for a path as long as one may   *)
(* still come (_check_callees).                                             *)
THEOREM BlocksCheckedOnce == Spec => []CheckedOnce
<1>1. InliningInv => CheckedOnce
  BY DEF InliningInv, TableInv, CheckedOnce
<1> QED  BY <1>1, Inlining, PTL

(* The fixpoint that the check pass takes from the cache was computed for   *)
(* at least the value with which the callee is called, unless the block     *)
(* that calls is the head of a loop that is refined once (_calls_cache).    *)
THEOREM CacheIsFresh == Spec => [](HeadsFresh => CacheFresh)
<1>1. InliningInv => (HeadsFresh => CacheFresh)
  BY DEF InliningInv, TableInv, FreshIn, CacheFresh
<1> QED  BY <1>1, Inlining, PTL

(* And it is there, unless the call has recursive callees besides others:   *)
(* the stored fixpoints of the others are then taken and lost before the    *)
(* recursive one is met.                                                    *)
MissingMixed == MixedIn(live, missing)

THEOREM OnlyMixedCallsMiss == Spec => [](HeadsFresh => MissingMixed)
<1>1. InliningInv => (HeadsFresh => MissingMixed)
  BY DEF InliningInv, TableInv, MissingMixed
<1> QED  BY <1>1, Inlining, PTL
================================================================================
