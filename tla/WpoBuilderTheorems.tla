-------------------------- MODULE WpoBuilderTheorems --------------------------
(****************************************************************************)
(* The proofs about module WpoBuilder, for every control flow graph.        *)
(*                                                                          *)
(* First, what the operators of the construction compute: Reach is the      *)
(* least set that holds its roots and is closed under the edges.  Then the  *)
(* depth-first search (construct_auxilary): SearchInv says how the numbers, *)
(* the tree of parents, the stack and the stored edges fit together.  Then  *)
(* the search for components (construct_wpo): RepOK and PredsOK say that it *)
(* works on the graph of the components found so far.                       *)
(****************************************************************************)
EXTENDS WpoBuilder, FiniteSetTheorems, SequenceTheorems, WellFoundedInduction, TLAPS

------------------------------------------------------------------------------
(* Induction over the natural numbers, for sets.                            *)

LEMMA LeastNatural ==
  ASSUME NEW T \in SUBSET Nat, T # {}
  PROVE  \E k \in T : \A j \in T : k <= j
<1>1. IsWellFoundedOn(OpToRel(<, Nat), Nat)
  BY NatLessThanWellFounded
<1>2. PICK k \in T : \A j \in T : <<j, k>> \notin OpToRel(<, Nat)
  BY <1>1, WFMin
<1>3. \A j \in T : <<j, k>> \notin OpToRel(<, Nat) => k <= j
  BY DEF OpToRel
<1> QED BY <1>2, <1>3

LEMMA SetInduction ==
  ASSUME NEW T \in SUBSET Nat, 0 \in T, \A k \in T : k + 1 \in T
  PROVE  T = Nat
<1>1. SUFFICES ASSUME T # Nat PROVE FALSE
  OBVIOUS
<1>2. PICK k \in Nat \ T : \A j \in Nat \ T : k <= j
  BY <1>1, LeastNatural
<1>3. k - 1 \in Nat /\ k - 1 \in T
  BY <1>2
<1> QED BY <1>2, <1>3

(* A function on the natural numbers may be defined from its value at 0 and *)
(* a step from each number to the next.                                     *)
Steps(G, X) == G \in [Nat -> [X -> X]]

LEMMA NatRecursion ==
  ASSUME NEW X, NEW G, Steps(G, X), NEW x0 \in X
  PROVE  \E f \in [Nat -> X] :
           f[0] = x0 /\ \A k \in Nat \ {0} : f[k] = G[k][f[k - 1]]
<1> USE DEF Steps
<1> DEFINE Part(n) == {f \in [0..n -> X] : /\ f[0] = x0
                                           /\ \A k \in 1..n : f[k] = G[k][f[k - 1]]}
<1>1. ASSUME NEW a \in Nat, NEW b \in Nat, NEW f \in Part(a), NEW h \in Part(b),
             NEW i \in Nat, i <= a, i <= b
      PROVE  f[i] = h[i]
  <2> DEFINE D == {j \in Nat : j <= i /\ f[j] # h[j]}
  <2>1. SUFFICES ASSUME f[i] # h[i] PROVE FALSE
    OBVIOUS
  <2> i \in D
    BY <1>1, <2>1
  <2>2. PICK k \in D : \A j \in D : k <= j
    <3> HIDE DEF D
    <3>1. D \in SUBSET Nat
      BY DEF D
    <3> QED BY <3>1, LeastNatural
  <2>3. k # 0 /\ k \in 1..a /\ k \in 1..b
    BY <1>1, <2>2
  <2>4. k - 1 \in Nat /\ f[k - 1] = h[k - 1]
    BY <2>2, <2>3
  <2>5. f[k] = G[k][f[k - 1]] /\ h[k] = G[k][h[k - 1]]
    BY <2>3
  <2> QED BY <2>2, <2>4, <2>5
<1>2. \A n \in Nat : Part(n) # {}
  <2> DEFINE T == {n \in Nat : Part(n) # {}}
  <2>1. 0 \in T
    <3>1. [i \in 0..0 |-> x0] \in Part(0)
      OBVIOUS
    <3> QED BY <3>1
  <2>2. ASSUME NEW n \in T PROVE n + 1 \in T
    <3>1. PICK f : f \in Part(n)
      OBVIOUS
    <3> DEFINE h == [i \in 0..(n + 1) |-> IF i = n + 1 THEN G[n + 1][f[n]] ELSE f[i]]
    <3>2. f[n] \in X /\ G[n + 1][f[n]] \in X
      BY <3>1
    <3>3. h \in [0..(n + 1) -> X]
      BY <3>1, <3>2
    <3>4. h[0] = x0
      BY <3>1
    <3>5. ASSUME NEW k \in 1..(n + 1) PROVE h[k] = G[k][h[k - 1]]
      <4>1. CASE k = n + 1
        BY <4>1
      <4>2. CASE k # n + 1
        <5>1. k \in 1..n /\ k - 1 \in 0..n
          BY <4>2
        <5>2. h[k] = f[k] /\ h[k - 1] = f[k - 1]
          BY <5>1, <4>2
        <5> QED BY <5>1, <5>2, <3>1
      <4> QED BY <4>1, <4>2
    <3>6. h \in Part(n + 1)
      <4>1. \A k \in 1..(n + 1) : h[k] = G[k][h[k - 1]]
        BY <3>5
      <4> HIDE DEF h
      <4> QED BY <3>3, <3>4, <4>1, Zenon
    <3> HIDE DEF h
    <3>7. n + 1 \in Nat
      OBVIOUS
    <3> HIDE DEF h, Part
    <3> QED BY <3>6, <3>7, Zenon
  <2>3. T = Nat
    <3> HIDE DEF T
    <3>1. T \in SUBSET Nat
      BY DEF T
    <3> QED BY <2>1, <2>2, <3>1, SetInduction
  <2> QED BY <2>3
<1> DEFINE c == [n \in Nat |-> CHOOSE f \in Part(n) : TRUE]
           F == [n \in Nat |-> c[n][n]]
<1>3. \A n \in Nat : c[n] \in Part(n)
  BY <1>2
<1> HIDE DEF c
<1>4. F \in [Nat -> X]
  BY <1>3
<1>5. F[0] = x0
  BY <1>3
<1>6. ASSUME NEW k \in Nat, k # 0 PROVE F[k] = G[k][F[k - 1]]
  <2>1. k - 1 \in Nat /\ k \in 1..k
    BY <1>6
  <2>2. c[k] \in Part(k) /\ c[k - 1] \in Part(k - 1)
    BY <1>3, <2>1
  <2>3. c[k][k] = G[k][c[k][k - 1]]
    BY <2>1, <2>2
  <2>4. c[k][k - 1] = c[k - 1][k - 1]
    <3> HIDE DEF Part
    <3> QED BY <2>1, <2>2, <1>1
  <2> QED BY <2>1, <2>3, <2>4
<1> HIDE DEF F
<1> QED BY <1>4, <1>5, <1>6

------------------------------------------------------------------------------
(* Reach is the least set that holds its argument and is closed under the   *)
(* edges.                                                                   *)

IsEdges(step, V) == IsFiniteSet(V) /\ step \in [V -> SUBSET V]

Closed(step, T) == \A v \in T : step[v] \subseteq T

(* R[k] is what is reached in k rounds.                                     *)
Iterates(R, step, S, V) ==
  /\ R \in [Nat -> SUBSET V]
  /\ R[0] = S
  /\ \A k \in Nat : R[k + 1] = R[k] \cup UNION {step[v] : v \in R[k]}
  /\ Reach(step, S) = R[Cardinality(V)]

LEMMA ReachIterates ==
  ASSUME NEW V, NEW step, IsEdges(step, V), NEW S \in SUBSET V
  PROVE  \E R : Iterates(R, step, S, V)
<1> step \in [V -> SUBSET V]
  BY DEF IsEdges
<1> DEFINE H(f) == [k \in Nat |-> IF k = 0 THEN S
                                  ELSE LET T == f[k - 1] IN T \cup UNION {step[v] : v \in T}]
           G == [k \in Nat |-> [T \in SUBSET V |-> T \cup UNION {step[v] : v \in T}]]
<1>1. G \in [Nat -> [SUBSET V -> SUBSET V]]
  OBVIOUS
<1>2. PICK f \in [Nat -> SUBSET V] :
        f[0] = S /\ \A k \in Nat \ {0} : f[k] = G[k][f[k - 1]]
  <2> HIDE DEF G
  <2> DEFINE X == SUBSET V
  <2>1. Steps(G, X) /\ S \in X
    BY <1>1 DEF Steps
  <2> HIDE DEF X
  <2>2. \E f \in [Nat -> X] : f[0] = S /\ \A k \in Nat \ {0} : f[k] = G[k][f[k - 1]]
    BY <2>1, NatRecursion
  <2> QED BY <2>2 DEF X
<1>3. \A k \in Nat : k # 0 => f[k - 1] \in SUBSET V
  OBVIOUS
<1>4. f = H(f)
  <2>1. \A k \in Nat : k # 0 =>
          G[k][f[k - 1]] = f[k - 1] \cup UNION {step[v] : v \in f[k - 1]}
    BY <1>3
  <2> HIDE DEF G
  <2>2. \A k \in Nat : f[k] = IF k = 0 THEN S
                            ELSE LET T == f[k - 1] IN T \cup UNION {step[v] : v \in T}
    BY <1>2, <2>1
  <2> QED BY <2>2
<1> DEFINE R == CHOOSE r : r = H(r)
<1>5. R = H(R)
  <2> HIDE DEF H
  <2> QED BY <1>4
<1>6. Reach(step, S) = R[Cardinality(V)]
  <2>1. DOMAIN step = V
    OBVIOUS
  <2> QED BY <2>1 DEF Reach
<1> HIDE DEF R
<1>7. R[0] = S
  BY <1>5
<1>8. \A k \in Nat : R[k + 1] = R[k] \cup UNION {step[v] : v \in R[k]}
  <2> TAKE k \in Nat
  <2>1. k + 1 \in Nat /\ k + 1 # 0 /\ (k + 1) - 1 = k
    OBVIOUS
  <2> QED BY <1>5, <2>1
<1>9. R \in [Nat -> SUBSET V]
  <2> DEFINE T == {k \in Nat : R[k] \in SUBSET V}
  <2>1. 0 \in T
    BY <1>7
  <2>2. \A k \in T : k + 1 \in T
    BY <1>8
  <2>3. T = Nat
    <3>1. T \in SUBSET Nat
      OBVIOUS
    <3> HIDE DEF T
    <3> QED BY <2>1, <2>2, <3>1, SetInduction
  <2>4. R = [k \in Nat |-> R[k]]
    BY <1>5
  <2>5. \A k \in Nat : R[k] \in SUBSET V
    BY <2>3
  <2> QED BY <2>4, <2>5, Zenon
<1> QED BY <1>6, <1>7, <1>8, <1>9 DEF Iterates

LEMMA ReachLeast ==
  ASSUME NEW V, NEW step, IsEdges(step, V), NEW S \in SUBSET V,
         NEW T \in SUBSET V, S \subseteq T, Closed(step, T)
  PROVE  Reach(step, S) \subseteq T
<1>0. PICK R : Iterates(R, step, S, V)
  BY ReachIterates
<1> IsFiniteSet(V) /\ step \in [V -> SUBSET V]
  BY DEF IsEdges
<1>1. /\ R \in [Nat -> SUBSET V]
      /\ R[0] = S
      /\ \A k \in Nat : R[k + 1] = R[k] \cup UNION {step[v] : v \in R[k]}
      /\ Reach(step, S) = R[Cardinality(V)]
  BY <1>0 DEF Iterates
<1> DEFINE K == {k \in Nat : R[k] \subseteq T}
<1>2. 0 \in K
  BY <1>1
<1>3. \A k \in K : k + 1 \in K
  BY <1>1 DEF Closed
<1>4. K = Nat
  <2>1. K \in SUBSET Nat
    OBVIOUS
  <2> HIDE DEF K
  <2> QED BY <1>2, <1>3, <2>1, SetInduction
<1>5. Cardinality(V) \in Nat
  BY FS_CardinalityType
<1> QED BY <1>1, <1>4, <1>5

LEMMA ReachClosed ==
  ASSUME NEW V, NEW step, IsEdges(step, V), NEW S \in SUBSET V
  PROVE  /\ Reach(step, S) \in SUBSET V
         /\ S \subseteq Reach(step, S)
         /\ Closed(step, Reach(step, S))
<1>0. PICK R : Iterates(R, step, S, V)
  BY ReachIterates
<1> IsFiniteSet(V) /\ step \in [V -> SUBSET V]
  BY DEF IsEdges
<1>1. /\ R \in [Nat -> SUBSET V]
      /\ R[0] = S
      /\ \A k \in Nat : R[k + 1] = R[k] \cup UNION {step[v] : v \in R[k]}
      /\ Reach(step, S) = R[Cardinality(V)]
  BY <1>0 DEF Iterates
<1>2. /\ Cardinality(V) \in Nat
      /\ \A k \in Nat : IsFiniteSet(R[k]) /\ Cardinality(R[k]) \in Nat
                          /\ Cardinality(R[k]) <= Cardinality(V)
                          /\ (Cardinality(R[k]) = Cardinality(V) => R[k] = V)
  <2>1. ASSUME NEW k \in Nat
        PROVE  /\ IsFiniteSet(R[k]) /\ Cardinality(R[k]) \in Nat
               /\ Cardinality(R[k]) <= Cardinality(V)
               /\ (Cardinality(R[k]) = Cardinality(V) => R[k] = V)
    <3>1. R[k] \in SUBSET V
      BY <1>1
    <3> QED BY <3>1, FS_CardinalityType, FS_Subset
  <2> QED BY <2>1, FS_CardinalityType
<1> DEFINE K == {k \in Nat : /\ S \subseteq R[k]
                             /\ Closed(step, R[k]) \/ Cardinality(R[k]) >= k}
<1>3. 0 \in K
  BY <1>1, <1>2
<1>4. ASSUME NEW k \in K PROVE k + 1 \in K
  <2>1. k \in Nat /\ k + 1 \in Nat /\ R[k] \subseteq R[k + 1] /\ S \subseteq R[k + 1]
    BY <1>1
  <2>2. CASE Closed(step, R[k])
    <3>1. R[k + 1] = R[k]
      <4>1. \A v \in R[k] : step[v] \subseteq R[k]
        BY <2>2 DEF Closed
      <4>2. UNION {step[v] : v \in R[k]} \subseteq R[k]
        BY <4>1
      <4> QED BY <1>1, <2>1, <4>2
    <3> QED BY <2>1, <2>2, <3>1
  <2>3. CASE ~ Closed(step, R[k])
    <3>1. R[k + 1] # R[k]
      BY <1>1, <2>3, <2>1 DEF Closed
    <3>2. Cardinality(R[k]) < Cardinality(R[k + 1])
      BY <1>2, <2>1, <3>1, FS_Subset
    <3>3. Cardinality(R[k + 1]) >= k + 1
      BY <1>2, <2>1, <2>3, <3>2
    <3> QED BY <2>1, <3>3
  <2> QED BY <2>2, <2>3
<1>5. K = Nat
  <2>1. K \in SUBSET Nat
    OBVIOUS
  <2> HIDE DEF K
  <2> QED BY <1>3, <1>4, <2>1, SetInduction
<1> DEFINE n == Cardinality(V)
<1>6. S \subseteq R[n] /\ (Closed(step, R[n]) \/ Cardinality(R[n]) >= n)
  BY <1>5, <1>2
<1>7. Closed(step, R[n])
  <2>1. CASE Cardinality(R[n]) >= n
    <3>1. R[n] = V
      BY <1>2, <2>1
    <3> QED BY <3>1 DEF Closed
  <2> QED BY <1>6, <2>1
<1> QED BY <1>1, <1>2, <1>6, <1>7

(* What is reached from what is reached is reached.                         *)
LEMMA ReachTransitive ==
  ASSUME NEW V, NEW step, IsEdges(step, V), NEW a \in V,
         NEW b \in Reach(step, {a}), NEW c \in Reach(step, {b})
  PROVE  c \in Reach(step, {a})
<1>1. {a} \in SUBSET V
  OBVIOUS
<1>2. Reach(step, {a}) \in SUBSET V /\ Closed(step, Reach(step, {a}))
  BY <1>1, ReachClosed
<1>3. {b} \in SUBSET V /\ {b} \subseteq Reach(step, {a})
  BY <1>2
<1>4. Reach(step, {b}) \subseteq Reach(step, {a})
  BY <1>2, <1>3, ReachLeast
<1> QED BY <1>4

(* A vertex reaches itself, and what its successors reach.                  *)
LEMMA ReachUnfold ==
  ASSUME NEW V, NEW step, IsEdges(step, V), NEW a \in V
  PROVE  /\ Reach(step, {a}) \in SUBSET V
         /\ Closed(step, Reach(step, {a}))
         /\ a \in Reach(step, {a})
         /\ \A b \in step[a] : b \in V /\ Reach(step, {b}) \subseteq Reach(step, {a})
         /\ \A c \in Reach(step, {a}) : c = a \/ \E b \in step[a] : c \in Reach(step, {b})
<1>1. \A v \in V : {v} \in SUBSET V
  OBVIOUS
<1>2. \A v \in V : /\ Reach(step, {v}) \in SUBSET V
                   /\ v \in Reach(step, {v})
                   /\ Closed(step, Reach(step, {v}))
  BY <1>1, ReachClosed
<1>3. \A v \in V : step[v] \subseteq V
  BY DEF IsEdges
<1>4. ASSUME NEW b \in step[a]
      PROVE  b \in V /\ Reach(step, {b}) \subseteq Reach(step, {a})
  <2>1. b \in Reach(step, {a}) /\ b \in V
    BY <1>2, <1>3 DEF Closed
  <2>2. {b} \in SUBSET V /\ {b} \subseteq Reach(step, {a})
    BY <2>1
  <2>3. Reach(step, {b}) \subseteq Reach(step, {a})
    BY <1>2, <2>2, ReachLeast
  <2> QED BY <2>1, <2>3
<1> DEFINE T == {a} \cup UNION {Reach(step, {b}) : b \in step[a]}
<1>5. Reach(step, {a}) \subseteq T
  <2>1. T \in SUBSET V /\ {a} \subseteq T
    BY <1>2, <1>3
  <2>2. Closed(step, T)
    <3>1. ASSUME NEW v \in T, NEW u \in step[v] PROVE u \in T
      <4>1. CASE v = a
        BY <4>1, <1>2, <1>3, <3>1
      <4>2. CASE \E b \in step[a] : v \in Reach(step, {b})
        BY <4>2, <1>2, <1>3, <3>1 DEF Closed
      <4> QED BY <4>1, <4>2
    <3> QED BY <3>1 DEF Closed
  <2>3. {a} \in SUBSET V
    OBVIOUS
  <2> HIDE DEF T
  <2> QED BY <2>1, <2>2, <2>3, ReachLeast
<1>6. \A c \in Reach(step, {a}) : c = a \/ \E b \in step[a] : c \in Reach(step, {b})
  BY <1>5
<1> QED BY <1>2, <1>4, <1>6

(* Edges that nothing reached has do not matter.                            *)
LEMMA ReachSame ==
  ASSUME NEW V, NEW step, IsEdges(step, V), NEW other, IsEdges(other, V), NEW a \in V,
         \A v \in Reach(step, {a}) : other[v] = step[v]
  PROVE  Reach(other, {a}) = Reach(step, {a})
<1>1. {a} \in SUBSET V
  OBVIOUS
<1>2. /\ Reach(step, {a}) \in SUBSET V /\ {a} \subseteq Reach(step, {a})
      /\ Closed(step, Reach(step, {a}))
      /\ Reach(other, {a}) \in SUBSET V /\ {a} \subseteq Reach(other, {a})
      /\ Closed(other, Reach(other, {a}))
  BY <1>1, ReachClosed
<1>3. Closed(other, Reach(step, {a}))
  BY <1>2 DEF Closed
<1>4. Reach(other, {a}) \subseteq Reach(step, {a})
  BY <1>1, <1>2, <1>3, ReachLeast
<1>5. Closed(step, Reach(other, {a}))
  BY <1>2, <1>4 DEF Closed
<1>6. Reach(step, {a}) \subseteq Reach(other, {a})
  BY <1>1, <1>2, <1>5, ReachLeast
<1> QED BY <1>4, <1>6

(* A vertex is reached along the edges where it reaches against them.       *)
LEMMA ReachDual ==
  ASSUME NEW V, NEW succ, NEW pred, IsEdges(succ, V), IsEdges(pred, V),
         \A u, t \in V : t \in succ[u] => u \in pred[t],
         NEW a \in V, NEW b \in Reach(succ, {a})
  PROVE  a \in Reach(pred, {b})
<1> DEFINE T == {w \in V : a \in Reach(pred, {w})}
<1>1. \A w \in V : /\ w \in Reach(pred, {w})
                   /\ \A u \in pred[w] : Reach(pred, {u}) \subseteq Reach(pred, {w})
  BY ReachUnfold
<1>2. {a} \in SUBSET V /\ T \in SUBSET V /\ {a} \subseteq T
  BY <1>1
<1>3. Closed(succ, T)
  <2>1. ASSUME NEW w \in T, NEW y \in succ[w] PROVE y \in T
    <3>1. y \in V
      BY <2>1 DEF IsEdges
    <3>2. w \in pred[y]
      BY <2>1, <3>1
    <3> QED BY <1>1, <2>1, <3>1, <3>2
  <2> QED BY <2>1 DEF Closed
<1> HIDE DEF T
<1>4. Reach(succ, {a}) \subseteq T
  BY <1>2, <1>3, ReachLeast
<1> QED BY <1>4 DEF T

(* Without the vertex h, less is reached.                                   *)
Without(h, V, step, less) ==
  /\ h \in V /\ less = [u \in V \ {h} |-> step[u] \ {h}]

LEMMA WithoutIsEdges ==
  ASSUME NEW V, NEW step, IsEdges(step, V), NEW h, NEW less, Without(h, V, step, less)
  PROVE  IsEdges(less, V \ {h})
<1>1. IsFiniteSet(V \ {h})
  BY FS_Subset DEF IsEdges
<1>2. \A u \in V \ {h} : step[u] \ {h} \subseteq V \ {h}
  BY DEF IsEdges
<1>3. less \in [V \ {h} -> SUBSET (V \ {h})]
  BY <1>2 DEF Without
<1> QED BY <1>1, <1>3 DEF IsEdges

LEMMA ReachWithout ==
  ASSUME NEW V, NEW step, IsEdges(step, V), NEW h, NEW less, Without(h, V, step, less),
         NEW a \in V \ {h}
  PROVE  /\ Reach(less, {a}) \subseteq Reach(step, {a})
         /\ \A b \in Reach(step, {a}) :
              b \in Reach(less, {a}) \/ (h \in Reach(step, {a}) /\ b \in Reach(step, {h}))
<1>1. IsEdges(less, V \ {h})
  BY WithoutIsEdges
<1>2. \A u \in V \ {h} : less[u] = step[u] \ {h}
  BY DEF Without
<1>3. h \in V
  BY DEF Without
<1>4. /\ Reach(step, {a}) \in SUBSET V /\ a \in Reach(step, {a}) /\ Closed(step, Reach(step, {a}))
      /\ Reach(step, {h}) \in SUBSET V /\ h \in Reach(step, {h}) /\ Closed(step, Reach(step, {h}))
  BY <1>3, ReachUnfold
<1>5. /\ Reach(less, {a}) \in SUBSET (V \ {h}) /\ a \in Reach(less, {a})
      /\ Closed(less, Reach(less, {a}))
  BY <1>1, ReachUnfold
<1>6. Reach(less, {a}) \subseteq Reach(step, {a})
  <2> DEFINE T == Reach(step, {a}) \ {h}
  <2>1. T \in SUBSET (V \ {h}) /\ {a} \in SUBSET (V \ {h}) /\ {a} \subseteq T
    BY <1>4
  <2>2. Closed(less, T)
    BY <1>2, <1>4 DEF Closed
  <2> HIDE DEF T
  <2>3. Reach(less, {a}) \subseteq T
    BY <1>1, <2>1, <2>2, ReachLeast
  <2> QED BY <2>3 DEF T
<1> DEFINE T == Reach(less, {a}) \cup {b \in Reach(step, {h}) : h \in Reach(step, {a})}
<1>7. T \in SUBSET V /\ {a} \in SUBSET V /\ {a} \subseteq T
  BY <1>4, <1>5
<1>8. Closed(step, T)
  <2>1. ASSUME NEW w \in T, NEW y \in step[w] PROVE y \in T
    <3>1. CASE w \in Reach(less, {a})
      <4>1. w \in Reach(step, {a}) /\ w \in V \ {h}
        BY <1>5, <1>6, <3>1
      <4>2. y \in Reach(step, {a})
        BY <1>4, <2>1, <4>1 DEF Closed
      <4>3. CASE y = h
        BY <1>4, <4>2, <4>3
      <4>4. CASE y # h
        BY <1>2, <1>5, <2>1, <3>1, <4>1, <4>4 DEF Closed
      <4> QED BY <4>3, <4>4
    <3>2. CASE w \in Reach(step, {h}) /\ h \in Reach(step, {a})
      BY <1>4, <2>1, <3>2 DEF Closed
    <3> QED BY <2>1, <3>1, <3>2
  <2> QED BY <2>1 DEF Closed
<1> HIDE DEF T
<1>9. Reach(step, {a}) \subseteq T
  BY <1>7, <1>8, ReachLeast
<1> QED BY <1>6, <1>9 DEF T

------------------------------------------------------------------------------
(* Among keeps the elements of a sequence that lie in a set.                *)
LEMMA AmongFacts ==
  ASSUME NEW D, NEW q \in Seq(D), NEW S
  PROVE  /\ Among(q, S) \in Seq(D)
         /\ \A i \in 1..Len(Among(q, S)) :
              Among(q, S)[i] \in S /\ \E j \in 1..Len(q) : Among(q, S)[i] = q[j]
         /\ \A j \in 1..Len(q) : q[j] \in S => \E i \in 1..Len(Among(q, S)) : Among(q, S)[i] = q[j]
<1> DEFINE n == Len(q)
           X == Seq(D)
           Keep(k, x) == IF k \in 1..n /\ q[k] \in S THEN Append(x, q[k]) ELSE x
           G == [k \in Nat |-> [x \in X |-> Keep(k, x)]]
           H(f) == [i \in 0..n |-> IF i = 0 THEN <<>>
                                   ELSE IF q[i] \in S THEN Append(f[i - 1], q[i]) ELSE f[i - 1]]
<1>1. n \in Nat
  OBVIOUS
<1>2. \A k \in Nat : \A x \in X : Keep(k, x) \in X
  OBVIOUS
<1>3. Steps(G, X) /\ <<>> \in X
  <2> HIDE DEF Keep, X
  <2>1. Steps(G, X)
    BY <1>2 DEF Steps
  <2> QED BY <2>1 DEF X
<1>4. PICK f : f \in [Nat -> X] /\ f[0] = <<>> /\ \A k \in Nat \ {0} : f[k] = G[k][f[k - 1]]
  <2> HIDE DEF G, X
  <2> QED BY <1>3, NatRecursion
<1> DEFINE r == [i \in 0..n |-> f[i]]
<1>5. r = H(r)
  <2>1. \A i \in 0..n : i # 0 => i - 1 \in Nat /\ i \in Nat /\ i \in 1..n /\ f[i - 1] \in X
    BY <1>1, <1>4
  <2>2. \A i \in 0..n : i # 0 => f[i] = Keep(i, f[i - 1])
    <3> HIDE DEF X, Keep
    <3> QED BY <1>4, <2>1
  <2>3. \A i \in 0..n : i # 0 => i - 1 \in 0..n /\ i \in 1..n
    BY <1>1
  <2>4. \A i \in 0..n : f[i] = IF i = 0 THEN <<>>
                               ELSE IF q[i] \in S THEN Append(r[i - 1], q[i]) ELSE r[i - 1]
    BY <1>4, <2>2, <2>3
  <2> QED BY <2>4
<1> DEFINE A == CHOOSE a : a = H(a)
<1>6. A = H(A)
  <2> HIDE DEF H, r
  <2> QED BY <1>5
<1>7. Among(q, S) = A[n]
  BY DEF Among
<1> HIDE DEF A
<1>8. A[0] = <<>> /\ \A i \in 1..n : A[i] = IF q[i] \in S THEN Append(A[i - 1], q[i]) ELSE A[i - 1]
  <2>1. \A i \in 0..n : A[i] = IF i = 0 THEN <<>>
                               ELSE IF q[i] \in S THEN Append(A[i - 1], q[i]) ELSE A[i - 1]
    BY <1>6
  <2>2. 0 \in 0..n /\ \A i \in 1..n : i \in 0..n /\ i # 0
    BY <1>1
  <2> QED BY <2>1, <2>2
<1> DEFINE Good(k) == /\ A[k] \in Seq(D)
                      /\ \A i \in 1..Len(A[k]) : A[k][i] \in S /\ \E j \in 1..k : A[k][i] = q[j]
                      /\ \A j \in 1..k : q[j] \in S => \E i \in 1..Len(A[k]) : A[k][i] = q[j]
           K == {k \in Nat : k <= n => Good(k)}
<1>9. 0 \in K
  <2>1. A[0] = <<>> /\ A[0] \in Seq(D) /\ Len(A[0]) = 0 /\ 1..0 = {}
    BY <1>8
  <2> QED BY <2>1
<1>10. ASSUME NEW k \in K PROVE k + 1 \in K
  <2> SUFFICES ASSUME k + 1 <= n PROVE Good(k + 1)
    BY <1>10
  <2>1. k \in Nat /\ Good(k) /\ k + 1 \in 1..n /\ (k + 1) - 1 = k /\ q[k + 1] \in D
    BY <1>1
  <2>2. CASE q[k + 1] \notin S
    <3>1. A[k + 1] = A[k]
      BY <1>8, <2>1, <2>2
    <3>2. \A j \in 1..(k + 1) : q[j] \in S => j \in 1..k
      BY <2>1, <2>2
    <3> QED BY <2>1, <3>1, <3>2
  <2>3. CASE q[k + 1] \in S
    <3>1. A[k + 1] = Append(A[k], q[k + 1])
      BY <1>8, <2>1, <2>3
    <3>2. /\ A[k + 1] \in Seq(D) /\ Len(A[k + 1]) = Len(A[k]) + 1
          /\ \A i \in 1..Len(A[k]) : A[k + 1][i] = A[k][i]
          /\ A[k + 1][Len(A[k]) + 1] = q[k + 1]
          /\ Len(A[k]) \in Nat
      BY <2>1, <3>1, AppendProperties
    <3>3. \A i \in 1..Len(A[k + 1]) : i \in 1..Len(A[k]) \/ i = Len(A[k]) + 1
      BY <3>2
    <3>4. ASSUME NEW i \in 1..Len(A[k + 1])
          PROVE  A[k + 1][i] \in S /\ \E j \in 1..(k + 1) : A[k + 1][i] = q[j]
      <4>1. k + 1 \in 1..(k + 1) /\ \A j \in 1..k : j \in 1..(k + 1)
        BY <2>1
      <4>2. CASE i \in 1..Len(A[k])
        <5>1. PICK j \in 1..k : A[k][i] = q[j]
          BY <2>1, <4>2
        <5> QED BY <2>1, <3>2, <4>1, <4>2, <5>1
      <4>3. CASE i = Len(A[k]) + 1
        BY <2>3, <3>2, <4>1, <4>3
      <4> QED BY <3>3, <4>2, <4>3
    <3>5. ASSUME NEW j \in 1..(k + 1), q[j] \in S
          PROVE  \E i \in 1..Len(A[k + 1]) : A[k + 1][i] = q[j]
      <4>1. j \in 1..k \/ j = k + 1
        BY <2>1
      <4>2. \A i \in 1..Len(A[k]) : i \in 1..Len(A[k + 1])
        BY <3>2
      <4>3. Len(A[k]) + 1 \in 1..Len(A[k + 1])
        BY <3>2
      <4> QED BY <2>1, <3>2, <3>5, <4>1, <4>2, <4>3
    <3> QED BY <3>2, <3>4, <3>5
  <2> QED BY <2>2, <2>3
<1>11. K = Nat
  <2>1. K \in SUBSET Nat
    OBVIOUS
  <2> HIDE DEF K
  <2> QED BY <1>9, <1>10, <2>1, SetInduction
<1> QED BY <1>1, <1>7, <1>11

------------------------------------------------------------------------------
(* The invariant of the depth-first search (construct_auxilary).            *)

IsGraph(g) ==
  /\ IsFiniteSet(g.node) /\ g.entry \in g.node
  /\ g.succ \in [g.node -> Seq(g.node)]

Numbers(g) == 1..NumBlocks(g)

StackEntries(g) == [vertex : g.node, finished : BOOLEAN, pred : 0..NumBlocks(g)]

SearchStates(g) ==
  [stack    : Seq(StackEntries(g)),
   next     : 1..(NumBlocks(g) + 1),
   dfn      : [g.node -> 0..NumBlocks(g)],
   nextPost : Nat,
   post     : [g.node -> Nat],
   black    : SUBSET Numbers(g),
   anc      : [0..NumBlocks(g) -> 0..NumBlocks(g)],
   cross    : [Numbers(g) -> SUBSET (Numbers(g) \X Numbers(g))],
   back     : [Numbers(g) -> SUBSET Numbers(g)],
   nonback  : [Numbers(g) -> SUBSET Numbers(g)]]

(* The vertices that are discovered, and those of them that are not         *)
(* finished.                                                                *)
Seen(d) == 1..(d.next - 1)
Gray(d) == Seen(d) \ d.black

(* The ancestors of v in the depth-first tree, v included: the only non-back *)
(* predecessor that the search gives a vertex is its parent.                *)
Up(d, v) == Reach(d.nonback, {v})

IsEdge(g, d, v, u) ==
  \E m \in g.node : \E n \in CfgSucc(g, m) : d.dfn[m] = v /\ d.dfn[n] = u

(* Depth-first numbers are given in order, to one block each.               *)
NumberingOK(g, d) ==
  /\ \A n \in g.node : d.dfn[n] < d.next
  /\ \A v \in Seen(d) : \E n \in g.node : d.dfn[n] = v
  /\ \A m, n \in g.node : d.dfn[m] = d.dfn[n] /\ d.dfn[m] # 0 => m = n

(* The tree: every vertex but the first has a parent.                       *)
TreeOK(g, d) ==
  /\ d.black \subseteq Seen(d)
  /\ \A v \in Numbers(g) : v \notin Seen(d) \/ v = 1 => d.nonback[v] = {}
  /\ \A v \in Seen(d) \ {1} : \E p \in Seen(d) :
        p < v /\ d.nonback[v] = {p} /\ IsEdge(g, d, p, v)

(* An unfinished vertex is an ancestor of all that are discovered after it, *)
(* and the descendants of a vertex have consecutive numbers.                *)
OrderOK(d) ==
  /\ \A v \in Seen(d) : Up(d, v) \subseteq 1..v
  /\ \A v \in Gray(d) : Up(d, v) \subseteq Gray(d)
  /\ \A v \in Gray(d) : \A u \in Seen(d) : v <= u => v \in Up(d, u)
  /\ \A a, b, c \in Seen(d) : a <= b /\ b <= c /\ a \in Up(d, c) => a \in Up(d, b)

(* The stack holds the unfinished vertices, and between them the blocks to  *)
(* visit from them; pred is the unfinished vertex next below.               *)
EntryOK(g, d, i) ==
  LET e == d.stack[i]  v == d.dfn[e.vertex]
  IN  /\ e.finished => v \in Gray(d) /\ d.nonback[v] = {e.pred} \ {0}
      /\ ~ e.finished /\ e.pred = 0 => d.next = 1
      /\ ~ e.finished /\ e.pred # 0 =>
           /\ v = 0 \/ v > e.pred
           /\ \E m \in g.node : d.dfn[m] = e.pred /\ e.vertex \in CfgSucc(g, m)
      /\ \A j \in (i + 1)..Len(d.stack) :
           d.stack[j].finished => d.dfn[d.stack[j].vertex] <= e.pred
      /\ \/ e.pred = 0
         \/ \E j \in (i + 1)..Len(d.stack) :
              d.stack[j].finished /\ d.dfn[d.stack[j].vertex] = e.pred

StackOK(g, d) ==
  /\ d.next = 1 => Len(d.stack) = 1
  /\ \A i \in 1..Len(d.stack) : EntryOK(g, d, i)
  /\ \A v \in Gray(d) : \E i \in 1..Len(d.stack) :
        d.stack[i].finished /\ d.dfn[d.stack[i].vertex] = v

(* anc maps a finished vertex to its nearest unfinished ancestor.           *)
AncOK(g, d) ==
  /\ \A v \in 0..NumBlocks(g) : v \notin d.black => d.anc[v] = v
  /\ \A v \in d.black : /\ d.anc[v] = 0 \/ d.anc[v] \in Up(d, v) \cap Gray(d)
                        /\ \A a \in Up(d, v) \cap Gray(d) : a <= d.anc[v]

(* Every edge of a discovered block leads to a descendant, is stored as a   *)
(* back or a cross edge, or waits on the stack; and what is stored are back *)
(* edges, and cross edges at their lowest common ancestor.                  *)
EdgeStored(g, d, v, n) ==
  \/ d.dfn[n] > v /\ v \in Up(d, d.dfn[n])
  \/ d.dfn[n] # 0 /\ v \in d.back[d.dfn[n]]
  \/ \E l \in Numbers(g) : <<v, d.dfn[n]>> \in d.cross[l]
  \/ \E i \in 1..Len(d.stack) :
       ~ d.stack[i].finished /\ d.stack[i].vertex = n /\ d.stack[i].pred = v

IsCross(g, d, l, v, u) ==
  /\ v \in Seen(d) /\ u \in Seen(d) /\ u < v /\ IsEdge(g, d, v, u)
  /\ l \in Up(d, v) /\ l \in Up(d, u) /\ l # u
  /\ \A a \in Up(d, v) \cap Up(d, u) : a <= l

EdgesOK(g, d) ==
  /\ \A m \in g.node : d.dfn[m] # 0 =>
       \A n \in CfgSucc(g, m) : EdgeStored(g, d, d.dfn[m], n)
  /\ \A u \in Numbers(g) : \A v \in d.back[u] :
       v \in Seen(d) /\ u \in Up(d, v) /\ IsEdge(g, d, v, u)
  /\ \A l, v, u \in Numbers(g) : <<v, u>> \in d.cross[l] => IsCross(g, d, l, v, u)

SearchInv(g, d) ==
  /\ d \in SearchStates(g)
  /\ NumberingOK(g, d)
  /\ TreeOK(g, d)
  /\ OrderOK(d)
  /\ StackOK(g, d)
  /\ AncOK(g, d)
  /\ EdgesOK(g, d)

------------------------------------------------------------------------------
(* The types of the search, in the form that the proofs need.               *)
LEMMA SearchTypes ==
  ASSUME NEW g, NEW d, IsGraph(g), d \in SearchStates(g)
  PROVE  /\ NumBlocks(g) \in Nat /\ NumBlocks(g) >= 1
         /\ d.stack \in Seq(StackEntries(g))
         /\ \A i \in 1..Len(d.stack) :
              /\ d.stack[i] \in StackEntries(g)
              /\ d.stack[i].vertex \in g.node
              /\ d.stack[i].finished \in BOOLEAN
              /\ d.stack[i].pred \in 0..NumBlocks(g)
              /\ d.dfn[d.stack[i].vertex] \in 0..NumBlocks(g)
         /\ Len(d.stack) \in Nat
         /\ d.next \in 1..(NumBlocks(g) + 1)
         /\ Seen(d) \subseteq Numbers(g) /\ Gray(d) \subseteq Numbers(g)
         /\ d.dfn \in [g.node -> 0..NumBlocks(g)]
         /\ \A m \in g.node : CfgSucc(g, m) \subseteq g.node
         /\ d.black \subseteq Numbers(g)
         /\ d.anc \in [0..NumBlocks(g) -> 0..NumBlocks(g)]
         /\ IsEdges(d.nonback, Numbers(g))
         /\ \A v \in Numbers(g) : d.nonback[v] \subseteq Numbers(g)
<1>1. NumBlocks(g) \in Nat /\ NumBlocks(g) >= 1
  <2>1. Cardinality(g.node) \in Nat /\ Cardinality(g.node) # 0
    BY FS_CardinalityType, FS_EmptySet DEF IsGraph
  <2> QED BY <2>1 DEF NumBlocks
<1>2. /\ d.stack \in Seq(StackEntries(g)) /\ d.next \in 1..(NumBlocks(g) + 1)
      /\ d.dfn \in [g.node -> 0..NumBlocks(g)] /\ d.black \subseteq Numbers(g)
      /\ d.anc \in [0..NumBlocks(g) -> 0..NumBlocks(g)]
      /\ d.nonback \in [Numbers(g) -> SUBSET Numbers(g)]
  BY DEF SearchStates
<1>3. Seen(d) \subseteq Numbers(g) /\ Gray(d) \subseteq Numbers(g)
  BY <1>1, <1>2 DEF Seen, Gray, Numbers
<1>4. IsFiniteSet(Numbers(g))
  BY <1>1, FS_Interval DEF Numbers
<1>5. \A m \in g.node : CfgSucc(g, m) \subseteq g.node
  BY DEF IsGraph, CfgSucc
<1>6. \A i \in 1..Len(d.stack) :
              /\ d.stack[i] \in StackEntries(g)
              /\ d.stack[i].vertex \in g.node
              /\ d.stack[i].finished \in BOOLEAN
              /\ d.stack[i].pred \in 0..NumBlocks(g)
              /\ d.dfn[d.stack[i].vertex] \in 0..NumBlocks(g)
  <2> TAKE i \in 1..Len(d.stack)
  <2>1. d.stack[i] \in StackEntries(g)
    BY <1>2
  <2>2. d.stack[i].vertex \in g.node /\ d.stack[i].finished \in BOOLEAN
        /\ d.stack[i].pred \in 0..NumBlocks(g)
    BY <2>1 DEF StackEntries
  <2> QED BY <1>2, <2>1, <2>2
<1> QED BY <1>1, <1>2, <1>3, <1>4, <1>5, <1>6 DEF IsEdges

LEMMA SearchInit == ASSUME NEW g, IsGraph(g) PROVE SearchInv(g, InitDfs(g))
<1> DEFINE d == InitDfs(g)
           N == NumBlocks(g)
<1>1. N \in Nat /\ N >= 1
  <2>1. Cardinality(g.node) \in Nat /\ Cardinality(g.node) # 0
    BY FS_CardinalityType, FS_EmptySet DEF IsGraph
  <2> QED BY <2>1 DEF NumBlocks
<1>2. d \in SearchStates(g)
  <2>1. [vertex |-> g.entry, finished |-> FALSE, pred |-> 0] \in StackEntries(g)
    BY <1>1 DEF StackEntries, IsGraph
  <2>2. <<[vertex |-> g.entry, finished |-> FALSE, pred |-> 0]>> \in Seq(StackEntries(g))
    BY <2>1
  <2> QED BY <1>1, <2>2 DEF InitDfs, SearchStates, Numbers
<1>3. /\ d.stack = <<[vertex |-> g.entry, finished |-> FALSE, pred |-> 0]>>
      /\ d.next = 1 /\ d.dfn = [n \in g.node |-> 0] /\ d.black = {}
      /\ d.anc = [v \in 0..N |-> v]
      /\ d.cross = [v \in 1..N |-> {}] /\ d.back = [v \in 1..N |-> {}]
      /\ d.nonback = [v \in 1..N |-> {}]
  BY DEF InitDfs
<1> HIDE DEF d
<1>4. Seen(d) = {} /\ Gray(d) = {}
  BY <1>3 DEF Seen, Gray
<1>5. NumberingOK(g, d) /\ TreeOK(g, d) /\ OrderOK(d)
  BY <1>3, <1>4 DEF NumberingOK, TreeOK, OrderOK, Numbers
<1>6. AncOK(g, d) /\ EdgesOK(g, d)
  BY <1>3, <1>4 DEF AncOK, EdgesOK, Numbers
<1>7. StackOK(g, d)
  <2>1. Len(d.stack) = 1 /\ \A i \in 1..Len(d.stack) :
          /\ i = 1 /\ ~ d.stack[i].finished /\ d.stack[i].pred = 0
          /\ d.dfn[d.stack[i].vertex] = 0
    BY <1>3 DEF IsGraph
  <2>2. \A i \in 1..Len(d.stack) : EntryOK(g, d, i)
    BY <1>3, <2>1 DEF EntryOK
  <2> QED BY <1>4, <2>1, <2>2 DEF StackOK
<1> QED BY <1>2, <1>5, <1>6, <1>7 DEF SearchInv, d

(* Taking the top off the stack.                                            *)
LEMMA PopStack ==
  ASSUME NEW S, NEW s \in Seq(S), s # <<>>
  PROVE  /\ Len(s) \in Nat /\ Len(s) >= 1 /\ Head(s) = s[1] /\ Head(s) \in S
         /\ Tail(s) \in Seq(S) /\ Len(Tail(s)) = Len(s) - 1
         /\ \A i \in 1..Len(Tail(s)) : i + 1 \in 1..Len(s) /\ Tail(s)[i] = s[i + 1]
         /\ \A i \in 2..Len(s) : i - 1 \in 1..Len(Tail(s)) /\ Tail(s)[i - 1] = s[i]
<1>1. Len(s) \in Nat /\ Len(s) >= 1
  BY EmptySeq
<1>2. /\ Head(s) = s[1] /\ Head(s) \in S
      /\ Tail(s) \in Seq(S) /\ Len(Tail(s)) = Len(s) - 1
      /\ \A i \in 1..Len(Tail(s)) : Tail(s)[i] = s[i + 1]
  BY <1>1, HeadTailProperties
<1> QED BY <1>1, <1>2

(* A step that keeps the numbers, the tree and the edges.                   *)
Unmoved(d, e) ==
  /\ e.next = d.next /\ e.dfn = d.dfn /\ e.nonback = d.nonback
  /\ e.cross = d.cross /\ e.back = d.back

LEMMA PopKeepsEdges ==
  ASSUME NEW g, NEW d, NEW e, IsGraph(g), SearchInv(g, d), e \in SearchStates(g), Unmoved(d, e),
         d.stack # <<>>, e.stack = Tail(d.stack),
         \/ Head(d.stack).finished
         \/ d.dfn[Head(d.stack).vertex] > Head(d.stack).pred
            /\ Head(d.stack).pred \in Up(d, d.dfn[Head(d.stack).vertex])
  PROVE  EdgesOK(g, e)
<1>1. d \in SearchStates(g) /\ EdgesOK(g, d)
  BY DEF SearchInv
<1>2. d.stack \in Seq(StackEntries(g))
  BY <1>1, SearchTypes
<1>3. /\ Seen(e) = Seen(d) /\ \A v : Up(e, v) = Up(d, v)
      /\ \A v, u : IsEdge(g, e, v, u) = IsEdge(g, d, v, u)
  BY DEF Unmoved, Seen, Up, IsEdge
<1>4. ASSUME NEW v, NEW n, EdgeStored(g, d, v, n) PROVE EdgeStored(g, e, v, n)
  <2>1. CASE \E i \in 1..Len(d.stack) :
               ~ d.stack[i].finished /\ d.stack[i].vertex = n /\ d.stack[i].pred = v
    <3>1. PICK i \in 1..Len(d.stack) :
               ~ d.stack[i].finished /\ d.stack[i].vertex = n /\ d.stack[i].pred = v
      BY <2>1
    <3>2. CASE i = 1
      BY <1>2, <1>3, <3>1, <3>2, PopStack DEF EdgeStored, Unmoved
    <3>3. CASE i # 1
      <4>1. i - 1 \in 1..Len(e.stack) /\ e.stack[i - 1] = d.stack[i]
        BY <1>2, <3>3, PopStack
      <4> QED BY <3>1, <4>1 DEF EdgeStored
    <3> QED BY <3>2, <3>3
  <2> QED BY <1>3, <1>4, <2>1 DEF EdgeStored, Unmoved
<1>5. \A l, v, u : IsCross(g, d, l, v, u) => IsCross(g, e, l, v, u)
  BY <1>3 DEF IsCross
<1> QED BY <1>1, <1>3, <1>4, <1>5 DEF EdgesOK, Unmoved

(* Taking an entry off the stack leaves the entries below as they are.      *)
LEMMA PopKeepsEntries ==
  ASSUME NEW g, NEW d, NEW e, IsGraph(g), SearchInv(g, d), e \in SearchStates(g), Unmoved(d, e),
         d.stack # <<>>, e.stack = Tail(d.stack), d.next # 1,
         NEW i \in 1..Len(e.stack), ~ e.stack[i].finished \/ d.dfn[e.stack[i].vertex] \in Gray(e)
  PROVE  EntryOK(g, e, i)
<1>1. d \in SearchStates(g) /\ EntryOK(g, d, i + 1)
  BY SearchTypes, PopStack DEF SearchInv, StackOK
<1>2. d.stack \in Seq(StackEntries(g))
  BY <1>1, SearchTypes
<1>3. /\ i + 1 \in 1..Len(d.stack) /\ e.stack[i] = d.stack[i + 1]
      /\ Len(e.stack) = Len(d.stack) - 1 /\ i \in Nat /\ Len(d.stack) \in Nat
  BY <1>2, PopStack
<1>4. \A j \in (i + 1)..Len(e.stack) :
        j + 1 \in ((i + 1) + 1)..Len(d.stack) /\ e.stack[j] = d.stack[j + 1]
  BY <1>2, <1>3, PopStack
<1>5. \A j \in ((i + 1) + 1)..Len(d.stack) :
        j - 1 \in (i + 1)..Len(e.stack) /\ e.stack[j - 1] = d.stack[j]
  BY <1>2, <1>3, PopStack
<1> DEFINE t == e.stack[i]
<1>6. t = d.stack[i + 1] /\ e.dfn = d.dfn /\ e.nonback = d.nonback /\ e.next = d.next
  BY <1>3 DEF Unmoved
<1>7. /\ t.finished => d.dfn[t.vertex] \in Gray(e) /\ d.nonback[d.dfn[t.vertex]] = {t.pred} \ {0}
      /\ ~ t.finished /\ t.pred = 0 => d.next = 1
      /\ ~ t.finished /\ t.pred # 0 =>
           /\ d.dfn[t.vertex] = 0 \/ d.dfn[t.vertex] > t.pred
           /\ \E m \in g.node : d.dfn[m] = t.pred /\ t.vertex \in CfgSucc(g, m)
  BY <1>1, <1>6 DEF EntryOK
<1>8. \A j \in (i + 1)..Len(e.stack) :
        e.stack[j].finished => d.dfn[e.stack[j].vertex] <= t.pred
  BY <1>1, <1>4, <1>6 DEF EntryOK
<1>9. \/ t.pred = 0
      \/ \E j \in (i + 1)..Len(e.stack) :
           e.stack[j].finished /\ d.dfn[e.stack[j].vertex] = t.pred
  <2>1. CASE t.pred # 0
    <3>1. PICK j \in ((i + 1) + 1)..Len(d.stack) :
            d.stack[j].finished /\ d.dfn[d.stack[j].vertex] = t.pred
      BY <1>1, <1>6, <2>1 DEF EntryOK
    <3> QED BY <1>5, <3>1
  <2> QED BY <2>1
<1> HIDE DEF t
<1>10. EntryOK(g, e, i) <=>
         /\ t.finished => d.dfn[t.vertex] \in Gray(e) /\ d.nonback[d.dfn[t.vertex]] = {t.pred} \ {0}
         /\ ~ t.finished /\ t.pred = 0 => d.next = 1
         /\ ~ t.finished /\ t.pred # 0 =>
              /\ d.dfn[t.vertex] = 0 \/ d.dfn[t.vertex] > t.pred
              /\ \E m \in g.node : d.dfn[m] = t.pred /\ t.vertex \in CfgSucc(g, m)
         /\ \A j \in (i + 1)..Len(e.stack) :
              e.stack[j].finished => d.dfn[e.stack[j].vertex] <= t.pred
         /\ \/ t.pred = 0
            \/ \E j \in (i + 1)..Len(e.stack) :
                 e.stack[j].finished /\ d.dfn[e.stack[j].vertex] = t.pred
  BY <1>6 DEF EntryOK, t
<1> QED BY <1>7, <1>8, <1>9, <1>10

(* The unfinished vertices are those below on the stack.                    *)
LEMMA TopOfStack ==
  ASSUME NEW g, NEW d, IsGraph(g), SearchInv(g, d), d.stack # <<>>
  PROVE  LET top == Head(d.stack)  p == top.pred  v == d.dfn[top.vertex]
         IN  /\ top = d.stack[1] /\ 1 \in 1..Len(d.stack) /\ EntryOK(g, d, 1)
             /\ top.vertex \in g.node /\ p \in 0..NumBlocks(g)
             /\ p # 0 => p \in Gray(d) /\ p \in Seen(d)
             /\ \A w \in Gray(d) : (w = v /\ top.finished) \/ w <= p
             /\ top.finished => v \in Gray(d) /\ v \in Seen(d) /\ p < v /\ d.nonback[v] = {p} \ {0}
<1> DEFINE top == Head(d.stack)
           p == top.pred
           v == d.dfn[top.vertex]
<1>1. d \in SearchStates(g) /\ StackOK(g, d) /\ TreeOK(g, d)
  BY DEF SearchInv
<1>2. d.stack \in Seq(StackEntries(g))
  BY <1>1, SearchTypes
<1>3. top = d.stack[1] /\ 1 \in 1..Len(d.stack) /\ EntryOK(g, d, 1)
  BY <1>1, <1>2, PopStack DEF StackOK
<1>4. top.vertex \in g.node /\ p \in 0..NumBlocks(g)
  BY <1>1, <1>3, SearchTypes
<1>5. ASSUME p # 0 PROVE p \in Gray(d) /\ p \in Seen(d)
  <2>1. PICK j \in 2..Len(d.stack) : d.stack[j].finished /\ d.dfn[d.stack[j].vertex] = p
    BY <1>3, <1>5 DEF EntryOK
  <2>2. EntryOK(g, d, j)
    BY <1>1, <2>1 DEF StackOK
  <2> QED BY <2>1, <2>2 DEF EntryOK, Gray
<1>6. ASSUME NEW w \in Gray(d) PROVE (w = v /\ top.finished) \/ w <= p
  <2>1. PICK i \in 1..Len(d.stack) : d.stack[i].finished /\ d.dfn[d.stack[i].vertex] = w
    BY <1>1 DEF StackOK
  <2>2. CASE i = 1
    BY <1>3, <2>1, <2>2
  <2>3. CASE i # 1
    <3>1. i \in (1 + 1)..Len(d.stack)
      BY <2>3
    <3> QED BY <1>3, <2>1, <3>1 DEF EntryOK
  <2> QED BY <2>2, <2>3
<1>7. ASSUME top.finished
      PROVE  v \in Gray(d) /\ v \in Seen(d) /\ p < v /\ d.nonback[v] = {p} \ {0}
  <2>1. v \in Gray(d) /\ v \in Seen(d) /\ d.nonback[v] = {p} \ {0}
    BY <1>3, <1>7 DEF EntryOK, Gray
  <2>2. v \in Nat /\ v >= 1 /\ v \in Numbers(g)
    BY <2>1, <1>1, SearchTypes DEF Seen, Numbers
  <2>3. CASE p # 0
    <3>1. d.nonback[v] = {p}
      BY <2>1, <2>3
    <3>2. v # 1
      BY <1>1, <2>2, <3>1 DEF TreeOK
    <3>3. PICK q \in Seen(d) : q < v /\ d.nonback[v] = {q}
      BY <1>1, <2>1, <3>2 DEF TreeOK
    <3> HIDE DEF v, p, top
    <3>4. p = q
      BY <3>1, <3>3
    <3> QED BY <2>1, <3>3, <3>4
  <2> QED BY <2>1, <2>2, <2>3
<1> QED BY <1>3, <1>4, <1>5, <1>6, <1>7

LEMMA FinishKeeps ==
  ASSUME NEW g, NEW d, IsGraph(g), SearchInv(g, d), d.stack # <<>>, Head(d.stack).finished
  PROVE  SearchInv(g, FinishVertex(d))
<1> DEFINE top == Head(d.stack)
           p == top.pred
           v == d.dfn[top.vertex]
           e == FinishVertex(d)
           N == NumBlocks(g)
<1>1. d \in SearchStates(g) /\ NumberingOK(g, d) /\ TreeOK(g, d) /\ OrderOK(d)
      /\ StackOK(g, d) /\ AncOK(g, d) /\ EdgesOK(g, d)
  BY DEF SearchInv
<1>2. /\ N \in Nat /\ d.stack \in Seq(StackEntries(g)) /\ d.next \in 1..(N + 1)
      /\ Seen(d) \subseteq Numbers(g) /\ d.black \subseteq Numbers(g)
      /\ d.anc \in [0..N -> 0..N] /\ IsEdges(d.nonback, Numbers(g))
  BY <1>1, SearchTypes
<1>3. /\ top.vertex \in g.node /\ p \in 0..N
      /\ p # 0 => p \in Gray(d) /\ p \in Seen(d)
      /\ \A w \in Gray(d) : w = v \/ w <= p
      /\ v \in Gray(d) /\ v \in Seen(d) /\ p < v /\ d.nonback[v] = {p} \ {0}
  BY TopOfStack
<1>4. v \in Numbers(g) /\ v \in Nat /\ v >= 1 /\ d.next # 1 /\ d.next \in Nat
  BY <1>2, <1>3 DEF Seen, Numbers
<1>5. /\ e.stack = Tail(d.stack) /\ e.black = d.black \cup {v}
      /\ e.anc = [u \in 0..N |-> IF d.anc[u] \in {d.anc[v], d.anc[p]} THEN p ELSE d.anc[u]]
      /\ Unmoved(d, e)
  BY <1>1, <1>2 DEF FinishVertex, SearchStates, Unmoved
<1>6. e \in SearchStates(g)
  <2>1. Tail(d.stack) \in Seq(StackEntries(g))
    BY <1>2, PopStack
  <2>2. [u \in 0..N |-> IF d.anc[u] \in {d.anc[v], d.anc[p]} THEN p ELSE d.anc[u]]
          \in [0..N -> 0..N]
    BY <1>2, <1>3
  <2>3. d.black \cup {v} \in SUBSET Numbers(g)
    BY <1>2, <1>4
  <2>4. e = [d EXCEPT !.stack = Tail(d.stack), !.black = d.black \cup {v},
                      !.post = [d.post EXCEPT ![top.vertex] = d.nextPost],
                      !.nextPost = d.nextPost + 1,
                      !.anc = [u \in 0..N |-> IF d.anc[u] \in {d.anc[v], d.anc[p]}
                                              THEN p ELSE d.anc[u]]]
    BY <1>1, <1>2 DEF FinishVertex, SearchStates
  <2>5. [d.post EXCEPT ![top.vertex] = d.nextPost] \in [g.node -> Nat] /\ d.nextPost + 1 \in Nat
    BY <1>1, <1>3 DEF SearchStates
  <2> HIDE DEF e, v, p, top
  <2> QED BY <1>1, <2>1, <2>2, <2>3, <2>4, <2>5 DEF SearchStates
<1>0. top = d.stack[1] /\ v = d.dfn[top.vertex] /\ EntryOK(g, d, 1)
  BY TopOfStack
<1> HIDE DEF e, v, p, top
<1>7. Seen(e) = Seen(d) /\ Gray(e) = Gray(d) \ {v} /\ \A u : Up(e, u) = Up(d, u)
      /\ \A a, b : IsEdge(g, e, a, b) = IsEdge(g, d, a, b)
  <2>1. Seen(e) = Seen(d)
    BY <1>5 DEF Unmoved, Seen
  <2>2. Gray(e) = Gray(d) \ {v}
    BY <1>5, <2>1 DEF Gray
  <2>3. \A u : Up(e, u) = Up(d, u)
    BY <1>5 DEF Unmoved, Up
  <2>4. \A a, b : IsEdge(g, e, a, b) = IsEdge(g, d, a, b)
    BY <1>5 DEF Unmoved, IsEdge
  <2> QED BY <2>1, <2>2, <2>3, <2>4
<1>8. \A w \in Gray(e) : w <= p /\ w \in Nat /\ w >= 1 /\ w \in Seen(d) /\ w \in Gray(d)
  BY <1>3, <1>7 DEF Gray, Seen
<1>9. NumberingOK(g, e)
  BY <1>1, <1>5, <1>7 DEF NumberingOK, Unmoved
<1>10. TreeOK(g, e)
  BY <1>1, <1>3, <1>5, <1>7 DEF TreeOK, Unmoved
<1>11. OrderOK(e)
  <2>1. ASSUME NEW w \in Gray(e) PROVE Up(e, w) \subseteq Gray(e)
    <3>1. w < v /\ w \in Nat
      <4>1. w <= p /\ w \in Nat
        BY <1>8
      <4>2. p < v /\ p \in Nat /\ v \in Nat
        BY <1>2, <1>3, <1>4
      <4> QED BY <4>1, <4>2
    <3>2. Up(d, w) \subseteq Gray(d) /\ Up(d, w) \subseteq 1..w
      BY <1>1, <1>8 DEF OrderOK
    <3> QED BY <1>4, <1>7, <3>1, <3>2
  <2> QED BY <1>1, <1>7, <1>8, <2>1 DEF OrderOK
<1>12. StackOK(g, e)
  <2>1. /\ Len(e.stack) = Len(d.stack) - 1 /\ Len(d.stack) \in Nat
        /\ \A i \in 1..Len(e.stack) : i + 1 \in 2..Len(d.stack) /\ e.stack[i] = d.stack[i + 1]
        /\ \A i \in 2..Len(d.stack) : i - 1 \in 1..Len(e.stack) /\ e.stack[i - 1] = d.stack[i]
    BY <1>2, <1>5, PopStack
  <2>2. ASSUME NEW i \in 1..Len(e.stack), e.stack[i].finished
        PROVE  d.dfn[e.stack[i].vertex] \in Gray(e)
    <3>1. i + 1 \in (1 + 1)..Len(d.stack) /\ i + 1 \in 1..Len(d.stack) /\ d.stack[i + 1].finished
          /\ e.stack[i] = d.stack[i + 1]
      BY <2>1, <2>2
    <3>2. EntryOK(g, d, 1) /\ EntryOK(g, d, i + 1) /\ d.stack[1] = top
      BY <1>0, <1>1, <3>1 DEF StackOK
    <3>3. d.dfn[d.stack[i + 1].vertex] <= p
      BY <3>1, <3>2 DEF EntryOK, p
    <3>4. d.dfn[d.stack[i + 1].vertex] \in Gray(d)
      BY <3>1, <3>2 DEF EntryOK
    <3> QED BY <1>3, <1>4, <1>7, <3>1, <3>3, <3>4
  <2>3. \A i \in 1..Len(e.stack) : EntryOK(g, e, i)
    BY <1>4, <1>5, <1>6, <2>2, PopKeepsEntries
  <2>4. ASSUME NEW w \in Gray(e)
        PROVE  \E i \in 1..Len(e.stack) : e.stack[i].finished /\ e.dfn[e.stack[i].vertex] = w
    <3>1. PICK i \in 1..Len(d.stack) : d.stack[i].finished /\ d.dfn[d.stack[i].vertex] = w
      BY <1>1, <1>8 DEF StackOK
    <3>2. i # 1
      BY <1>0, <1>7, <3>1
    <3>3. i \in 2..Len(d.stack)
      BY <3>2
    <3> QED BY <1>5, <2>1, <3>1, <3>3 DEF Unmoved
  <2> QED BY <1>4, <1>5, <2>3, <2>4 DEF StackOK, Unmoved
<1>13. AncOK(g, e)
  <2>1. d.anc[v] = v /\ d.anc[p] = p
    <3>1. 0 \notin d.black /\ 0 \in 0..N /\ v \in 0..N /\ v \notin d.black
      BY <1>2, <1>3, <1>4 DEF Numbers, Gray
    <3>2. p \notin d.black
      BY <1>3, <3>1 DEF Gray
    <3> QED BY <1>1, <1>3, <3>1, <3>2 DEF AncOK
  <2>2. \A u \in 0..N : e.anc[u] = IF d.anc[u] = v \/ d.anc[u] = p THEN p ELSE d.anc[u]
    BY <1>5, <2>1
  <2>3. ASSUME NEW u \in 0..N, u \notin e.black PROVE e.anc[u] = u
    BY <1>1, <1>5, <2>2, <2>3 DEF AncOK
  <2>4. ASSUME NEW u \in e.black
        PROVE  /\ e.anc[u] = 0 \/ e.anc[u] \in Up(e, u) \cap Gray(e)
               /\ \A a \in Up(e, u) \cap Gray(e) : a <= e.anc[u]
    <3>1. u \in Numbers(g) /\ u \in 0..N
      BY <1>2, <1>4, <1>5 DEF Numbers
    <3>2. p # 0 => p \in Up(d, v) /\ p \in Gray(e)
      <4>1. p # 0 => p \in d.nonback[v] /\ p # v /\ p \in Numbers(g)
        BY <1>2, <1>3, <1>4
      <4>2. p # 0 => p \in Up(d, v)
        BY <1>2, <1>4, <4>1, ReachUnfold DEF Up, Closed
      <4> QED BY <1>3, <1>7, <4>1, <4>2
    <3>3. CASE d.anc[u] = v
      <4>1. v \in Up(d, u)
        <5>1. CASE u = v
          BY <1>2, <3>1, <5>1, ReachUnfold DEF Up
        <5>2. CASE u # v
          BY <1>1, <1>4, <1>5, <3>3, <5>2 DEF AncOK
        <5> QED BY <5>1, <5>2
      <4>2. p # 0 => p \in Up(d, u)
        BY <1>2, <3>1, <3>2, <4>1, ReachTransitive DEF Up
      <4> QED BY <1>7, <1>8, <2>2, <3>1, <3>2, <3>3, <4>2
    <3>4. CASE d.anc[u] # v
      <4>1. u # v /\ u \in d.black
        BY <1>5, <2>1, <3>4
      <4>2. e.anc[u] = d.anc[u]
        BY <2>2, <3>1, <3>4
      <4> QED BY <1>1, <1>7, <3>4, <4>1, <4>2 DEF AncOK
    <3> QED BY <3>3, <3>4
  <2> QED BY <2>3, <2>4 DEF AncOK
<1>14. EdgesOK(g, e)
  BY <1>5, <1>6, PopKeepsEdges
<1> QED BY <1>6, <1>9, <1>10, <1>11, <1>12, <1>13, <1>14 DEF SearchInv, e

LEMMA SkipKeeps ==
  ASSUME NEW g, NEW d, IsGraph(g), SearchInv(g, d), d.stack # <<>>,
         ~ Head(d.stack).finished, d.dfn[Head(d.stack).vertex] # 0
  PROVE  SearchInv(g, SkipForward(d))
<1> DEFINE top == Head(d.stack)
           p == top.pred
           u == d.dfn[top.vertex]
           e == SkipForward(d)
<1>1. d \in SearchStates(g) /\ NumberingOK(g, d) /\ TreeOK(g, d) /\ OrderOK(d)
      /\ StackOK(g, d) /\ AncOK(g, d) /\ EdgesOK(g, d)
  BY DEF SearchInv
<1>2. /\ d.stack \in Seq(StackEntries(g)) /\ d.next \in 1..(NumBlocks(g) + 1)
      /\ d.dfn \in [g.node -> 0..NumBlocks(g)] /\ NumBlocks(g) \in Nat
  BY <1>1, SearchTypes
<1>3. /\ top = d.stack[1] /\ EntryOK(g, d, 1) /\ top.vertex \in g.node
      /\ p # 0 => p \in Gray(d) /\ p \in Seen(d)
  BY TopOfStack
<1>4. e.stack = Tail(d.stack) /\ e.black = d.black /\ e.anc = d.anc /\ Unmoved(d, e)
      /\ e \in SearchStates(g)
  BY <1>1, <1>2, PopStack DEF SkipForward, SearchStates, Unmoved
<1> HIDE DEF e, p, u, top
<1>5. u \in Seen(d) /\ d.next # 1
  <2>1. u \in 0..NumBlocks(g) /\ u # 0 /\ u < d.next
    BY <1>1, <1>2, <1>3 DEF NumberingOK, u, top
  <2> QED BY <1>2, <2>1 DEF Seen
<1>6. u > p /\ p \in Up(d, u)
  <2>1. p # 0 /\ u > p
    BY <1>3, <1>5 DEF EntryOK, p, u, top
  <2>2. p \in Nat /\ u \in Nat
    BY <1>2, <1>3, <1>5, <2>1 DEF Seen
  <2> QED BY <1>1, <1>3, <1>5, <2>1, <2>2 DEF OrderOK
<1>7. Seen(e) = Seen(d) /\ Gray(e) = Gray(d) /\ \A w : Up(e, w) = Up(d, w)
      /\ \A a, b : IsEdge(g, e, a, b) = IsEdge(g, d, a, b)
  <2>1. Seen(e) = Seen(d)
    BY <1>4 DEF Unmoved, Seen
  <2>2. Gray(e) = Gray(d)
    BY <1>4, <2>1 DEF Gray
  <2>3. \A w : Up(e, w) = Up(d, w)
    BY <1>4 DEF Unmoved, Up
  <2>4. \A a, b : IsEdge(g, e, a, b) = IsEdge(g, d, a, b)
    BY <1>4 DEF Unmoved, IsEdge
  <2> QED BY <2>1, <2>2, <2>3, <2>4
<1>8. NumberingOK(g, e) /\ TreeOK(g, e) /\ OrderOK(e) /\ AncOK(g, e)
  <2>1. NumberingOK(g, e)
    BY <1>1, <1>4, <1>7 DEF NumberingOK, Unmoved
  <2>2. TreeOK(g, e)
    BY <1>1, <1>4, <1>7 DEF TreeOK, Unmoved
  <2>3. OrderOK(e)
    BY <1>1, <1>7 DEF OrderOK
  <2>4. AncOK(g, e)
    BY <1>1, <1>4, <1>7 DEF AncOK
  <2> QED BY <2>1, <2>2, <2>3, <2>4
<1>9. StackOK(g, e)
  <2>1. /\ \A i \in 1..Len(e.stack) : i + 1 \in 1..Len(d.stack) /\ e.stack[i] = d.stack[i + 1]
        /\ \A i \in 2..Len(d.stack) : i - 1 \in 1..Len(e.stack) /\ e.stack[i - 1] = d.stack[i]
    BY <1>2, <1>4, PopStack
  <2>2. ASSUME NEW i \in 1..Len(e.stack), e.stack[i].finished
        PROVE  d.dfn[e.stack[i].vertex] \in Gray(e)
    <3>1. EntryOK(g, d, i + 1) /\ d.stack[i + 1].finished /\ e.stack[i] = d.stack[i + 1]
      BY <1>1, <2>1, <2>2 DEF StackOK
    <3> QED BY <1>7, <3>1 DEF EntryOK
  <2>3. \A i \in 1..Len(e.stack) : EntryOK(g, e, i)
    BY <1>4, <1>5, <2>2, PopKeepsEntries
  <2>4. ASSUME NEW w \in Gray(e)
        PROVE  \E i \in 1..Len(e.stack) : e.stack[i].finished /\ e.dfn[e.stack[i].vertex] = w
    <3>1. PICK i \in 1..Len(d.stack) : d.stack[i].finished /\ d.dfn[d.stack[i].vertex] = w
      BY <1>1, <1>7 DEF StackOK
    <3>2. i \in 2..Len(d.stack)
      BY <1>3, <3>1 DEF top
    <3> QED BY <1>4, <2>1, <3>1, <3>2 DEF Unmoved
  <2> QED BY <1>4, <1>5, <2>3, <2>4 DEF StackOK, Unmoved
<1>10. EdgesOK(g, e)
  BY <1>4, <1>6, PopKeepsEdges DEF p, u, top
<1> QED BY <1>4, <1>8, <1>9, <1>10 DEF SearchInv, e

------------------------------------------------------------------------------
(* The discovery of a vertex.                                               *)
CanDiscover(g, d) ==
  /\ IsGraph(g) /\ SearchInv(g, d) /\ d.stack # <<>>
  /\ ~ Head(d.stack).finished /\ d.dfn[Head(d.stack).vertex] = 0

(* There is a number left for it.                                           *)
LEMMA NumberLeft == ASSUME NEW g, NEW d, CanDiscover(g, d) PROVE d.next <= NumBlocks(g)
<1> DEFINE x == Head(d.stack).vertex
           D == g.node \ {x}
<1>1. d \in SearchStates(g) /\ NumberingOK(g, d) /\ x \in g.node /\ IsFiniteSet(g.node)
      /\ d.dfn[x] = 0
  BY TopOfStack DEF CanDiscover, SearchInv, IsGraph
<1>2. d.next \in 1..(NumBlocks(g) + 1) /\ NumBlocks(g) \in Nat /\ d.dfn \in [g.node -> 0..NumBlocks(g)]
  BY <1>1, SearchTypes DEF CanDiscover
<1>3. IsFiniteSet(D) /\ Cardinality(D) = NumBlocks(g) - 1
  BY <1>1, FS_RemoveElement DEF NumBlocks
<1> DEFINE B == {n \in D : d.dfn[n] # 0}
           f == [n \in B |-> d.dfn[n]]
<1>4. IsFiniteSet(B) /\ Cardinality(B) <= Cardinality(D) /\ Cardinality(B) \in Nat
  BY <1>3, FS_Subset, FS_CardinalityType
<1>5. f \in Surjection(B, Seen(d))
  <2>1. \A n \in B : f[n] \in Seen(d)
    BY <1>1, <1>2 DEF NumberingOK, Seen
  <2>2. \A v \in Seen(d) : \E n \in B : f[n] = v
    <3> TAKE v \in Seen(d)
    <3>1. PICK n \in g.node : d.dfn[n] = v
      BY <1>1 DEF NumberingOK
    <3>2. v # 0
      BY <1>2 DEF Seen
    <3>3. n \in B
      BY <1>1, <3>1, <3>2
    <3> QED BY <3>1, <3>3
  <2> HIDE DEF B
  <2> QED BY <2>1, <2>2 DEF Surjection
<1>6. Cardinality(Seen(d)) <= Cardinality(B)
  <2> HIDE DEF B, f
  <2> QED BY <1>4, <1>5, FS_Surjection
<1>7. Cardinality(Seen(d)) = d.next - 1
  <2>1. d.next - 1 \in Nat /\ 1 \in Int
    BY <1>2
  <2>2. Cardinality(1..(d.next - 1)) = IF 1 > d.next - 1 THEN 0 ELSE (d.next - 1) - 1 + 1
    BY <2>1, FS_Interval
  <2> QED BY <2>1, <2>2 DEF Seen
<1> QED BY <1>2, <1>3, <1>4, <1>6, <1>7

(* What the step does, in terms of the vertex v that it discovers.          *)
Discovered(g, d, e) ==
  LET v == d.next  x == Head(d.stack).vertex  p == Head(d.stack).pred
      old == {e.dfn[n] : n \in CfgSucc(g, x)} \ {0}
  IN  /\ e \in SearchStates(g)
      /\ e.next = v + 1 /\ e.dfn = [d.dfn EXCEPT ![x] = v]
      /\ e.black = d.black /\ e.anc = d.anc
      /\ e.cross = [l \in Numbers(g) |-> d.cross[l] \cup
                      {<<v, u>> : u \in {t \in old \cap d.black : d.anc[t] = l}}]
      /\ e.back = [u \in Numbers(g) |-> IF u \in old \ d.black THEN d.back[u] \cup {v}
                                        ELSE d.back[u]]
      /\ e.nonback = [d.nonback EXCEPT ![v] = {p} \ {0}]

(* What it does to the stack, with k entries pushed.                        *)
Pushed(g, d, e, k) ==
  LET v == d.next  x == Head(d.stack).vertex  p == Head(d.stack).pred
  IN  /\ k \in Nat /\ Len(e.stack) = k + Len(d.stack)
      /\ \A i \in 1..k : /\ e.stack[i].vertex \in CfgSucc(g, x) /\ e.dfn[e.stack[i].vertex] = 0
                         /\ ~ e.stack[i].finished /\ e.stack[i].pred = v
      /\ e.stack[k + 1].vertex = x /\ e.stack[k + 1].finished /\ e.stack[k + 1].pred = p
      /\ \A i \in 2..Len(d.stack) : e.stack[k + i] = d.stack[i]
      /\ \A n \in CfgSucc(g, x) : e.dfn[n] = 0 => \E i \in 1..k : e.stack[i].vertex = n

LEMMA TupleIsSeq ==
  ASSUME NEW S, NEW n \in Nat, NEW f \in [1..n -> S]
  PROVE  f \in Seq(S) /\ Len(f) = n
<1>1. f \in Seq(S)
  BY SeqDef
<1>2. DOMAIN f = 1..Len(f) /\ Len(f) \in Nat
  BY <1>1, LenProperties
<1> QED BY <1>1, <1>2

LEMMA PushStack ==
  ASSUME NEW S, NEW a \in Seq(S), NEW w \in S, NEW t \in Seq(S)
  PROVE  LET s == a \o <<w>> \o t
         IN  /\ s \in Seq(S) /\ Len(s) = Len(a) + 1 + Len(t)
             /\ \A i \in 1..Len(a) : s[i] = a[i]
             /\ s[Len(a) + 1] = w
             /\ \A i \in 1..Len(t) : s[Len(a) + 1 + i] = t[i]
<1> DEFINE b == a \o <<w>>
           s == b \o t
<1>1. <<w>> \in Seq(S) /\ Len(<<w>>) = 1 /\ <<w>>[1] = w /\ Len(a) \in Nat /\ Len(t) \in Nat
  OBVIOUS
<1>2. /\ b \in Seq(S) /\ Len(b) = Len(a) + 1
      /\ \A i \in 1..(Len(a) + 1) : b[i] = IF i <= Len(a) THEN a[i] ELSE <<w>>[i - Len(a)]
  BY <1>1, ConcatProperties
<1> HIDE DEF b
<1>3. /\ s \in Seq(S) /\ Len(s) = Len(a) + 1 + Len(t)
      /\ \A i \in 1..(Len(a) + 1 + Len(t)) :
           s[i] = IF i <= Len(a) + 1 THEN b[i] ELSE t[i - (Len(a) + 1)]
  <2>1. /\ s \in Seq(S) /\ Len(s) = Len(b) + Len(t)
        /\ \A i \in 1..(Len(b) + Len(t)) : s[i] = IF i <= Len(b) THEN b[i] ELSE t[i - Len(b)]
    <3>1. b \in Seq(S)
      BY <1>2
    <3> QED BY <3>1, ConcatProperties, Zenon
  <2> HIDE DEF s
  <2> QED BY <1>1, <1>2, <2>1
<1> HIDE DEF s
<1>4. \A i \in 1..Len(a) : s[i] = a[i]
  BY <1>1, <1>2, <1>3
<1>5. s[Len(a) + 1] = w
  BY <1>1, <1>2, <1>3
<1>6. \A i \in 1..Len(t) : s[Len(a) + 1 + i] = t[i]
  <2> TAKE i \in 1..Len(t)
  <2>1. Len(a) + 1 + i \in 1..(Len(a) + 1 + Len(t)) /\ ~ (Len(a) + 1 + i <= Len(a) + 1)
        /\ (Len(a) + 1 + i) - (Len(a) + 1) = i
    BY <1>1
  <2> QED BY <1>3, <2>1
<1> QED BY <1>3, <1>4, <1>5, <1>6 DEF s, b

LEMMA DiscoverEffect ==
  ASSUME NEW g, NEW d, CanDiscover(g, d)
  PROVE  Discovered(g, d, DiscoverVertex(g, d)) /\ \E k : Pushed(g, d, DiscoverVertex(g, d), k)
<1> DEFINE top == Head(d.stack)
           v == d.next
           x == top.vertex
           p == top.pred
           N == NumBlocks(g)
           dfn == [d.dfn EXCEPT ![x] = v]
           none == {n \in g.node : dfn[n] = 0}
           q == g.succ[x]
           fresh == Among(q, none)
           old == {dfn[n] : n \in CfgSucc(g, x)} \ {0}
           k == Len(fresh)
           pushed == [i \in 1..k |-> [vertex |-> fresh[i], finished |-> FALSE, pred |-> v]]
           waiting == [vertex |-> x, finished |-> TRUE, pred |-> p]
           cross == [l \in DOMAIN d.cross |-> d.cross[l] \cup
                       {<<v, u>> : u \in {t \in old \cap d.black : d.anc[t] = l}}]
           back == [u \in DOMAIN d.back |-> IF u \in old \ d.black THEN d.back[u] \cup {v}
                                            ELSE d.back[u]]
           nonback == [u \in DOMAIN d.nonback |->
                         IF u = v /\ p # 0 THEN d.nonback[u] \cup {p} ELSE d.nonback[u]]
           stack == pushed \o <<waiting>> \o Tail(d.stack)
           e == DiscoverVertex(g, d)
<1>1. IsGraph(g) /\ d \in SearchStates(g) /\ TreeOK(g, d) /\ d.stack # <<>>
  BY DEF CanDiscover, SearchInv
<1>2. /\ N \in Nat /\ d.stack \in Seq(StackEntries(g)) /\ d.next \in 1..(N + 1)
      /\ d.dfn \in [g.node -> 0..N] /\ d.nonback \in [Numbers(g) -> SUBSET Numbers(g)]
      /\ \A m \in g.node : CfgSucc(g, m) \subseteq g.node
  BY <1>1, SearchTypes DEF IsEdges
<1>3. x \in g.node /\ p \in 0..N /\ q \in Seq(g.node)
  BY TopOfStack DEF CanDiscover, IsGraph
<1>4. v \in Numbers(g) /\ v \in Nat /\ v \in 0..N /\ v # 0
  BY <1>2, NumberLeft DEF Numbers
<1>5. e = [d EXCEPT !.stack = stack, !.next = v + 1, !.dfn = dfn, !.cross = cross,
                    !.back = back, !.nonback = nonback]
  BY DEF DiscoverVertex
<1>6. /\ fresh \in Seq(g.node) /\ k \in Nat
      /\ \A i \in 1..k : fresh[i] \in none /\ fresh[i] \in CfgSucc(g, x)
      /\ \A n \in CfgSucc(g, x) : n \in none => \E i \in 1..k : fresh[i] = n
  <2>1. CfgSucc(g, x) = {q[i] : i \in 1..Len(q)}
    BY DEF CfgSucc
  <2> HIDE DEF none, q, x
  <2>2. /\ fresh \in Seq(g.node)
        /\ \A i \in 1..Len(fresh) : fresh[i] \in none /\ \E j \in 1..Len(q) : fresh[i] = q[j]
        /\ \A j \in 1..Len(q) : q[j] \in none => \E i \in 1..Len(fresh) : fresh[i] = q[j]
    BY <1>3, AmongFacts
  <2> HIDE DEF fresh
  <2>3. k \in Nat /\ \A i \in 1..k : fresh[i] \in none /\ fresh[i] \in CfgSucc(g, x)
    BY <2>1, <2>2
  <2>4. ASSUME NEW n \in CfgSucc(g, x), n \in none PROVE \E i \in 1..k : fresh[i] = n
    <3>1. PICK j \in 1..Len(q) : n = q[j]
      BY <2>1
    <3> QED BY <2>2, <2>4, <3>1
  <2> QED BY <2>2, <2>3, <2>4
<1>7. \A n \in g.node : dfn[n] \in 0..N /\ (n \in none <=> dfn[n] = 0)
  BY <1>2, <1>3, <1>4
<1>8. dfn \in [g.node -> 0..N] /\ dfn[x] = v
  BY <1>2, <1>3, <1>4
<1> HIDE DEF none, q, fresh, k, dfn, e, v, p, x
<1>9. old \subseteq Numbers(g)
  BY <1>2, <1>3, <1>7 DEF Numbers
<1>10. /\ pushed \in Seq(StackEntries(g)) /\ Len(pushed) = k /\ waiting \in StackEntries(g)
       /\ \A i \in 1..k : /\ pushed[i].vertex = fresh[i] /\ ~ pushed[i].finished
                           /\ pushed[i].pred = v
       /\ waiting.vertex = x /\ waiting.finished /\ waiting.pred = p
  <2>1. \A i \in 1..k : fresh[i] \in g.node
    BY <1>6 DEF k
  <2>2. \A i \in 1..k : [vertex |-> fresh[i], finished |-> FALSE, pred |-> v] \in StackEntries(g)
    BY <1>4, <2>1 DEF StackEntries
  <2>3. pushed \in [1..k -> StackEntries(g)]
    BY <2>2
  <2>4. waiting \in StackEntries(g)
    BY <1>3 DEF StackEntries
  <2>5. \A i \in 1..k : /\ pushed[i].vertex = fresh[i] /\ ~ pushed[i].finished
                         /\ pushed[i].pred = v
    OBVIOUS
  <2> HIDE DEF pushed
  <2>6. pushed \in Seq(StackEntries(g)) /\ Len(pushed) = k
    BY <1>6, <2>3, TupleIsSeq
  <2> QED BY <2>4, <2>5, <2>6
<1>11. d.nonback[v] = {}
  <2>1. v \notin Seen(d)
    BY <1>4 DEF Seen, v
  <2> QED BY <1>1, <1>4, <2>1 DEF TreeOK
<1>12. cross \in [Numbers(g) -> SUBSET (Numbers(g) \X Numbers(g))]
       /\ back \in [Numbers(g) -> SUBSET Numbers(g)]
  <2>1. d.cross \in [Numbers(g) -> SUBSET (Numbers(g) \X Numbers(g))]
        /\ d.back \in [Numbers(g) -> SUBSET Numbers(g)]
    BY <1>1 DEF SearchStates
  <2> HIDE DEF old
  <2>2. ASSUME NEW l \in Numbers(g)
        PROVE  d.cross[l] \cup {<<v, u>> : u \in {t \in old \cap d.black : d.anc[t] = l}}
                   \in SUBSET (Numbers(g) \X Numbers(g))
    BY <1>4, <1>9, <2>1
  <2>3. back \in [Numbers(g) -> SUBSET Numbers(g)]
    BY <1>4, <1>9, <2>1
  <2> QED BY <2>1, <2>2, <2>3
<1>13. nonback = [d.nonback EXCEPT ![v] = {p} \ {0}] /\ nonback \in [Numbers(g) -> SUBSET Numbers(g)]
  <2>1. {p} \ {0} \in SUBSET Numbers(g)
    BY <1>2, <1>3 DEF Numbers
  <2>2. nonback = [d.nonback EXCEPT ![v] = {p} \ {0}]
    BY <1>2, <1>11
  <2> HIDE DEF nonback
  <2> QED BY <1>2, <2>1, <2>2
<1>14. cross = [l \in Numbers(g) |-> d.cross[l] \cup
                  {<<v, u>> : u \in {t \in old \cap d.black : d.anc[t] = l}}]
       /\ back = [u \in Numbers(g) |-> IF u \in old \ d.black THEN d.back[u] \cup {v}
                                        ELSE d.back[u]]
  <2>1. DOMAIN d.cross = Numbers(g) /\ DOMAIN d.back = Numbers(g)
    BY <1>1 DEF SearchStates
  <2> QED BY <2>1
<1> HIDE DEF pushed, waiting
<1>15. /\ stack \in Seq(StackEntries(g)) /\ Len(stack) = k + Len(d.stack)
       /\ \A i \in 1..k : stack[i] = pushed[i]
       /\ stack[k + 1] = waiting
       /\ \A i \in 2..Len(d.stack) : stack[k + i] = d.stack[i]
  <2>1. /\ Tail(d.stack) \in Seq(StackEntries(g)) /\ Len(d.stack) \in Nat /\ Len(d.stack) >= 1
        /\ Len(Tail(d.stack)) = Len(d.stack) - 1
        /\ \A i \in 2..Len(d.stack) : i - 1 \in 1..Len(Tail(d.stack)) /\ Tail(d.stack)[i - 1] = d.stack[i]
    BY <1>1, <1>2, PopStack
  <2> DEFINE t == Tail(d.stack)
             S == StackEntries(g)
  <2> HIDE DEF t, S
  <2>2. pushed \in Seq(S) /\ waiting \in S /\ t \in Seq(S)
    BY <1>10, <2>1 DEF S, t
  <2>3. stack = pushed \o <<waiting>> \o t
    BY DEF t
  <2> HIDE DEF stack
  <2>4. /\ stack \in Seq(S) /\ Len(stack) = Len(pushed) + 1 + Len(t)
        /\ \A i \in 1..Len(pushed) : stack[i] = pushed[i]
        /\ stack[Len(pushed) + 1] = waiting
        /\ \A i \in 1..Len(t) : stack[Len(pushed) + 1 + i] = t[i]
    BY <2>2, <2>3, PushStack
  <2>5. ASSUME NEW i \in 2..Len(d.stack) PROVE stack[k + i] = d.stack[i]
    <3>1. i - 1 \in 1..Len(t) /\ t[i - 1] = d.stack[i] /\ k + 1 + (i - 1) = k + i
      BY <1>6, <2>1 DEF t
    <3> QED BY <1>10, <2>4, <3>1
  <2>6. Len(stack) = k + Len(d.stack)
    <3>1. Len(t) = Len(d.stack) - 1 /\ Len(pushed) = k
      BY <1>10, <2>1 DEF t
    <3>2. Len(stack) = Len(pushed) + 1 + Len(t)
      BY <2>4
    <3>3. Len(stack) = k + 1 + (Len(d.stack) - 1)
      BY <3>1, <3>2
    <3>4. k \in Nat /\ Len(d.stack) \in Nat
      BY <1>6, <2>1
    <3> DEFINE m == Len(d.stack)
    <3> HIDE DEF m
    <3>5. k \in Nat /\ m \in Nat /\ Len(stack) = k + 1 + (m - 1)
      BY <3>3, <3>4 DEF m
    <3>6. k + 1 + (m - 1) = k + m
      BY <3>5
    <3> QED BY <3>5, <3>6 DEF m
  <2> QED BY <1>10, <2>4, <2>5, <2>6 DEF S
<1>16. v + 1 \in 1..(N + 1)
  BY <1>2, <1>4, NumberLeft DEF v, Numbers
<1> HIDE DEF stack, cross, back, nonback
<1>17. /\ e.stack = stack /\ e.next = v + 1 /\ e.dfn = dfn /\ e.cross = cross /\ e.back = back
       /\ e.nonback = nonback /\ e.black = d.black /\ e.anc = d.anc
       /\ e \in SearchStates(g)
  BY <1>1, <1>5, <1>8, <1>12, <1>13, <1>15, <1>16 DEF SearchStates
<1>18. Discovered(g, d, e)
  <2>1. old = {e.dfn[n] : n \in CfgSucc(g, x)} \ {0}
    BY <1>17
  <2>2. dfn = [d.dfn EXCEPT ![x] = v]
    BY DEF dfn
  <2> HIDE DEF old
  <2> QED BY <1>13, <1>14, <1>17, <2>1, <2>2 DEF Discovered, v, x, p
<1>19. Pushed(g, d, e, k)
  <2>1. \A i \in 1..k : /\ e.stack[i].vertex = fresh[i] /\ ~ e.stack[i].finished
                        /\ e.stack[i].pred = v
    BY <1>10, <1>15, <1>17
  <2>2. e.stack[k + 1].vertex = x /\ e.stack[k + 1].finished /\ e.stack[k + 1].pred = p
    BY <1>10, <1>15, <1>17
  <2>3. \A i \in 1..k : e.stack[i].vertex \in CfgSucc(g, x) /\ e.dfn[e.stack[i].vertex] = 0
    BY <1>2, <1>3, <1>6, <1>7, <1>17, <2>1
  <2>4. \A n \in CfgSucc(g, x) : e.dfn[n] = 0 => \E i \in 1..k : e.stack[i].vertex = n
    <3>1. ASSUME NEW n \in CfgSucc(g, x), e.dfn[n] = 0
          PROVE  \E i \in 1..k : e.stack[i].vertex = n
      <4>1. n \in none
        BY <1>2, <1>3, <1>7, <1>17, <3>1
      <4>2. PICK i \in 1..k : fresh[i] = n
        <5>1. \A m \in CfgSucc(g, x) : m \in none => \E i \in 1..k : fresh[i] = m
          BY <1>6
        <5> QED BY <3>1, <4>1, <5>1, Zenon
      <4> QED BY <2>1, <4>2
    <3> QED BY <3>1
  <2>5. k \in Nat /\ Len(e.stack) = k + Len(d.stack)
        /\ \A i \in 2..Len(d.stack) : e.stack[k + i] = d.stack[i]
    BY <1>6, <1>15, <1>17
  <2> QED BY <2>1, <2>2, <2>3, <2>4, <2>5 DEF Pushed, x, p, v
<1> QED BY <1>18, <1>19 DEF e

(* The numbers, the tree and the edges after the step.                      *)
Grown(g, d, e, v, x, p) ==
  /\ v = d.next /\ x = Head(d.stack).vertex /\ p = Head(d.stack).pred
  /\ v \in Nat /\ v >= 1 /\ v \in Numbers(g) /\ p \in Nat /\ x \in g.node
  /\ Seen(e) = Seen(d) \cup {v} /\ Gray(e) = Gray(d) \cup {v}
  /\ \A w \in Seen(d) : w \in Nat /\ w >= 1 /\ w < v /\ w \in Numbers(g)
  /\ p = 0 => v = 1
  /\ p # 0 => p \in Gray(d) /\ p \in Seen(d) /\ v # 1
  /\ d.dfn[x] = 0 /\ e.dfn[x] = v
  /\ \A n \in g.node : /\ n # x => e.dfn[n] = d.dfn[n] /\ e.dfn[n] # v
                        /\ d.dfn[n] \in Nat /\ (d.dfn[n] # 0 => d.dfn[n] \in Seen(d))
  /\ e.nonback[v] = {p} \ {0}
  /\ \A w \in Numbers(g) : w # v => e.nonback[w] = d.nonback[w]
  /\ \A w \in Seen(d) : Up(e, w) = Up(d, w)
  /\ Up(e, v) = Gray(e)
  /\ \A a \in Seen(d) : \A b : b # 0 /\ IsEdge(g, d, a, b) => IsEdge(g, e, a, b)

LEMMA DiscoverGrows ==
  ASSUME NEW g, NEW d, NEW e, CanDiscover(g, d), Discovered(g, d, e)
  PROVE  \E v, x, p : Grown(g, d, e, v, x, p)
<1> DEFINE top == Head(d.stack)
           v == d.next
           x == top.vertex
           p == top.pred
           N == NumBlocks(g)
<1>1. /\ IsGraph(g) /\ SearchInv(g, d) /\ d.stack # <<>> /\ ~ top.finished /\ d.dfn[x] = 0
      /\ d \in SearchStates(g) /\ NumberingOK(g, d) /\ TreeOK(g, d) /\ OrderOK(d) /\ StackOK(g, d)
  BY DEF CanDiscover, SearchInv
<1>2. /\ N \in Nat /\ v \in 1..(N + 1)
      /\ d.dfn \in [g.node -> 0..N] /\ IsEdges(d.nonback, Numbers(g))
      /\ d.black \subseteq Numbers(g)
  BY <1>1, SearchTypes
<1>3. v \in Nat /\ v >= 1 /\ v \in Numbers(g)
  BY <1>2, NumberLeft DEF Numbers
<1>4. /\ e.next = v + 1 /\ e.dfn = [d.dfn EXCEPT ![x] = v] /\ e.black = d.black
      /\ e.nonback = [d.nonback EXCEPT ![v] = {p} \ {0}] /\ e \in SearchStates(g)
  BY DEF Discovered
<1>5. IsEdges(e.nonback, Numbers(g))
  BY <1>1, <1>4, SearchTypes
<1>6. /\ EntryOK(g, d, 1) /\ top = d.stack[1] /\ x \in g.node /\ p \in 0..N
      /\ p # 0 => p \in Gray(d) /\ p \in Seen(d)
      /\ \A w \in Gray(d) : w <= p
  BY <1>1, TopOfStack
<1>7. p = 0 => v = 1
  BY <1>1, <1>6 DEF EntryOK
<1>8. \A w \in Seen(d) : w \in Nat /\ w >= 1 /\ w < v /\ w \in Numbers(g)
  BY <1>2, <1>3 DEF Seen, Numbers
<1> HIDE DEF v, x, p, top
<1>9. d.black \subseteq Seen(d)
  BY <1>1 DEF TreeOK
<1>10. Seen(e) = Seen(d) \cup {v}
  BY <1>3, <1>4 DEF Seen, v
<1>11. Gray(e) = Gray(d) \cup {v}
  BY <1>4, <1>8, <1>9, <1>10 DEF Gray
<1>12. \A n \in g.node : /\ d.dfn[n] \in Nat /\ (d.dfn[n] # 0 => d.dfn[n] \in Seen(d))
                         /\ n # x => e.dfn[n] = d.dfn[n] /\ e.dfn[n] # v
  <2> TAKE n \in g.node
  <2>1. d.dfn[n] \in Nat /\ d.dfn[n] < d.next
    BY <1>1, <1>2 DEF NumberingOK
  <2>2. d.dfn[n] # 0 => d.dfn[n] \in Seen(d)
    BY <2>1, <1>3 DEF Seen, v
  <2>3. n # x => e.dfn[n] = d.dfn[n]
    BY <1>2, <1>4
  <2> QED BY <1>3, <2>1, <2>2, <2>3 DEF v
<1>13. e.dfn[x] = v
  BY <1>2, <1>4, <1>6
<1>14. e.nonback[v] = {p} \ {0} /\ \A w \in Numbers(g) : w # v => e.nonback[w] = d.nonback[w]
  BY <1>2, <1>3, <1>4 DEF IsEdges
<1>15. ASSUME NEW w \in Seen(d) PROVE Up(e, w) = Up(d, w)
  <2>1. Up(d, w) \subseteq 1..w /\ w \in Numbers(g)
    BY <1>1, <1>8 DEF OrderOK
  <2>2. Up(d, w) \in SUBSET Numbers(g)
    BY <1>2, <2>1, ReachUnfold DEF Up
  <2>3. ASSUME NEW u \in Up(d, w) PROVE e.nonback[u] = d.nonback[u]
    <3>1. u # v /\ u \in Numbers(g)
      BY <1>3, <1>8, <2>1, <2>2
    <3> QED BY <1>14, <3>1
  <2>4. \A u \in Reach(d.nonback, {w}) : e.nonback[u] = d.nonback[u]
    BY <2>3 DEF Up
  <2>5. Reach(e.nonback, {w}) = Reach(d.nonback, {w})
    <3> DEFINE step == d.nonback
               other == e.nonback
               V == Numbers(g)
    <3>1. IsEdges(step, V) /\ IsEdges(other, V) /\ w \in V
      BY <1>2, <1>5, <2>1
    <3>2. \A u \in Reach(step, {w}) : other[u] = step[u]
      BY <2>4
    <3> HIDE DEF step, other, V
    <3>3. Reach(other, {w}) = Reach(step, {w})
      BY <3>1, <3>2, ReachSame
    <3> QED BY <3>3 DEF step, other
  <2> QED BY <2>5 DEF Up
<1>16. Up(e, v) = Gray(e)
  <2>1. /\ v \in Up(e, v)
        /\ \A b \in e.nonback[v] : Up(e, b) \subseteq Up(e, v)
        /\ \A c \in Up(e, v) : c = v \/ \E b \in e.nonback[v] : c \in Up(e, b)
    BY <1>3, <1>5, ReachUnfold DEF Up
  <2>2. CASE p = 0
    <3>1. e.nonback[v] = {}
      BY <1>14, <2>2
    <3>2. Gray(d) = {}
      <4>1. \A w \in Gray(d) : w <= p /\ w \in Nat /\ w >= 1
        BY <1>6, <1>8 DEF Gray
      <4> QED BY <2>2, <4>1
    <3> QED BY <1>11, <2>1, <3>1, <3>2
  <2>3. CASE p # 0
    <3>1. e.nonback[v] = {p}
      BY <1>14, <2>3
    <3>2. Up(e, p) = Up(d, p) /\ p \in Gray(d) /\ p \in Seen(d)
      BY <1>6, <1>15, <2>3
    <3>3. Up(d, p) = Gray(d)
      <4>1. Up(d, p) \subseteq Gray(d)
        BY <1>1, <3>2 DEF OrderOK
      <4>2. \A w \in Gray(d) : w <= p
        BY <1>6
      <4>3. \A w \in Gray(d) : w \in Up(d, p)
        BY <1>1, <3>2, <4>2 DEF OrderOK
      <4> QED BY <4>1, <4>3
    <3> QED BY <1>11, <2>1, <3>1, <3>2, <3>3
  <2> QED BY <2>2, <2>3
<1>17. ASSUME NEW a \in Seen(d), NEW b, b # 0, IsEdge(g, d, a, b) PROVE IsEdge(g, e, a, b)
  <2>1. PICK m \in g.node : \E n \in CfgSucc(g, m) : d.dfn[m] = a /\ d.dfn[n] = b
    BY <1>17 DEF IsEdge
  <2>2. PICK n \in CfgSucc(g, m) : d.dfn[m] = a /\ d.dfn[n] = b
    BY <2>1
  <2>3. n \in g.node
    BY <1>1, SearchTypes
  <2>4. m # x /\ n # x
    BY <1>1, <1>8, <1>17, <2>2 DEF x, top
  <2>5. e.dfn[m] = a /\ e.dfn[n] = b
    BY <1>12, <2>2, <2>3, <2>4
  <2> QED BY <2>5 DEF IsEdge
<1>18. p # 0 => v # 1
  BY <1>6, <1>8
<1>19. d.dfn[x] = 0 /\ p \in Nat
  BY <1>1, <1>2, <1>6 DEF x, top
<1>20. v = d.next /\ x = Head(d.stack).vertex /\ p = Head(d.stack).pred
  BY DEF v, x, p, top
<1>21. Grown(g, d, e, v, x, p)
  BY <1>3, <1>6, <1>7, <1>8, <1>10, <1>11, <1>12, <1>13, <1>14, <1>15, <1>16, <1>17, <1>18,
     <1>19, <1>20 DEF Grown
<1> QED BY <1>21

LEMMA DiscoverKeepsTree ==
  ASSUME NEW g, NEW d, NEW e, NEW v, NEW x, NEW p, CanDiscover(g, d), Discovered(g, d, e),
         Grown(g, d, e, v, x, p)
  PROVE  NumberingOK(g, e) /\ TreeOK(g, e) /\ OrderOK(e)
<1>1. /\ IsGraph(g) /\ d.stack # <<>> /\ SearchInv(g, d) /\ ~ Head(d.stack).finished
      /\ NumberingOK(g, d) /\ TreeOK(g, d) /\ OrderOK(d)
  BY DEF CanDiscover, SearchInv
<1>2. e.next = v + 1 /\ e.black = d.black
  BY DEF Discovered, Grown
<1>3. EntryOK(g, d, 1) /\ d.stack[1].vertex = x /\ d.stack[1].pred = p /\ ~ d.stack[1].finished
  BY <1>1, TopOfStack DEF Grown
<1>4. NumberingOK(g, e)
  <2>1. \A n \in g.node : e.dfn[n] < e.next
    BY <1>2 DEF Grown
  <2>2. ASSUME NEW w \in Seen(e) PROVE \E n \in g.node : e.dfn[n] = w
    <3>1. CASE w = v
      BY <3>1 DEF Grown
    <3>2. CASE w \in Seen(d)
      BY <1>1, <3>2 DEF Grown, NumberingOK
    <3> QED BY <3>1, <3>2 DEF Grown
  <2>3. \A m, n \in g.node : e.dfn[m] = e.dfn[n] /\ e.dfn[m] # 0 => m = n
    BY <1>1 DEF Grown, NumberingOK
  <2> QED BY <2>1, <2>2, <2>3 DEF NumberingOK
<1>5. TreeOK(g, e)
  <2>1. e.black \subseteq Seen(e)
    BY <1>1, <1>2 DEF Grown, TreeOK
  <2>2. ASSUME NEW w \in Numbers(g), w \notin Seen(e) \/ w = 1 PROVE e.nonback[w] = {}
    <3>1. CASE w = v
      BY <2>2, <3>1 DEF Grown
    <3>2. CASE w # v
      BY <1>1, <2>2, <3>2 DEF Grown, TreeOK
    <3> QED BY <3>1, <3>2
  <2>3. ASSUME NEW w \in Seen(e) \ {1}
        PROVE  \E q \in Seen(e) : q < w /\ e.nonback[w] = {q} /\ IsEdge(g, e, q, w)
    <3>1. CASE w = v
      <4>1. p # 0 /\ p \in Seen(d) /\ p \in Seen(e) /\ p < v /\ e.nonback[w] = {p}
        BY <2>3, <3>1 DEF Grown
      <4>2. PICK m \in g.node : d.dfn[m] = p /\ x \in CfgSucc(g, m)
        BY <1>3, <4>1 DEF EntryOK
      <4>3. e.dfn[m] = p /\ e.dfn[x] = v
        BY <4>1, <4>2 DEF Grown
      <4>4. IsEdge(g, e, p, v)
        BY <4>2, <4>3 DEF IsEdge
      <4> QED BY <3>1, <4>1, <4>4
    <3>2. CASE w # v
      <4>1. w \in Seen(d) \ {1} /\ w \in Numbers(g) /\ w # 0
        BY <2>3, <3>2 DEF Grown
      <4>2. PICK q \in Seen(d) : q < w /\ d.nonback[w] = {q} /\ IsEdge(g, d, q, w)
        BY <1>1, <4>1 DEF TreeOK
      <4> QED BY <3>2, <4>1, <4>2 DEF Grown
    <3> QED BY <3>1, <3>2
  <2> QED BY <2>1, <2>2, <2>3 DEF TreeOK
<1>6. OrderOK(e)
  <2>1. Gray(d) \subseteq Seen(d)
    BY DEF Gray
  <2>2. ASSUME NEW w \in Seen(e) PROVE Up(e, w) \subseteq 1..w
    <3>1. CASE w = v
      <4>1. \A u \in Gray(e) : u \in 1..v
        BY <2>1 DEF Grown
      <4> QED BY <3>1, <4>1 DEF Grown
    <3>2. CASE w \in Seen(d)
      BY <1>1, <3>2 DEF Grown, OrderOK
    <3> QED BY <3>1, <3>2 DEF Grown
  <2>3. ASSUME NEW w \in Gray(e) PROVE Up(e, w) \subseteq Gray(e)
    <3>1. CASE w = v
      BY <3>1 DEF Grown
    <3>2. CASE w \in Gray(d)
      BY <1>1, <2>1, <3>2 DEF Grown, OrderOK
    <3> QED BY <3>1, <3>2 DEF Grown
  <2>4. ASSUME NEW w \in Gray(e), NEW u \in Seen(e), w <= u PROVE w \in Up(e, u)
    <3>1. CASE u = v
      BY <3>1 DEF Grown
    <3>2. CASE u \in Seen(d)
      <4>1. w \in Gray(d)
        BY <2>4, <3>2 DEF Grown
      <4> QED BY <1>1, <2>4, <3>2, <4>1 DEF Grown, OrderOK
    <3> QED BY <3>1, <3>2 DEF Grown
  <2>5. ASSUME NEW a \in Seen(e), NEW b \in Seen(e), NEW c \in Seen(e),
               a <= b, b <= c, a \in Up(e, c)
        PROVE  a \in Up(e, b)
    <3>1. CASE c = v
      <4>1. a \in Gray(e)
        BY <2>5, <3>1 DEF Grown
      <4> QED BY <2>4, <2>5, <4>1
    <3>2. CASE c \in Seen(d)
      <4>1. a \in Seen(d) /\ b \in Seen(d)
        BY <2>5, <3>2 DEF Grown
      <4>2. a \in Up(d, c)
        BY <2>5, <3>2 DEF Grown
      <4>3. a \in Up(d, b)
        BY <1>1, <2>5, <3>2, <4>1, <4>2 DEF OrderOK
      <4> QED BY <4>1, <4>3 DEF Grown
    <3> QED BY <3>1, <3>2 DEF Grown
  <2> QED BY <2>2, <2>3, <2>4, <2>5 DEF OrderOK
<1> QED BY <1>4, <1>5, <1>6

LEMMA DiscoverKeepsStack ==
  ASSUME NEW g, NEW d, NEW e, NEW v, NEW x, NEW p, NEW k, CanDiscover(g, d), Discovered(g, d, e),
         Grown(g, d, e, v, x, p), Pushed(g, d, e, k)
  PROVE  StackOK(g, e)
<1>1. /\ IsGraph(g) /\ d.stack # <<>> /\ SearchInv(g, d) /\ ~ Head(d.stack).finished
      /\ NumberingOK(g, d) /\ StackOK(g, d) /\ d \in SearchStates(g)
  BY DEF CanDiscover, SearchInv
<1>2. e.next = v + 1 /\ e.dfn \in [g.node -> Nat] /\ e.next # 1
  <2>1. e.next = v + 1 /\ e \in SearchStates(g)
    BY DEF Discovered, Grown
  <2>2. NumBlocks(g) \in Nat /\ e.dfn \in [g.node -> 0..NumBlocks(g)]
    BY <1>1, <2>1, SearchTypes
  <2> QED BY <2>1, <2>2 DEF Grown
<1>3. EntryOK(g, d, 1) /\ d.stack[1].vertex = x /\ d.stack[1].pred = p /\ ~ d.stack[1].finished
  BY <1>1, TopOfStack DEF Grown
<1> DEFINE n == Len(d.stack)
<1>4. n \in Nat /\ n >= 1 /\ \A i \in 1..n : d.stack[i].vertex \in g.node /\ d.stack[i].pred \in Nat
  <2>1. /\ d.stack \in Seq(StackEntries(g)) /\ NumBlocks(g) \in Nat
        /\ \A i \in 1..n : d.stack[i].vertex \in g.node /\ d.stack[i].pred \in 0..NumBlocks(g)
    BY <1>1, SearchTypes
  <2> QED BY <1>1, <2>1, PopStack
<1>5. /\ k \in Nat /\ Len(e.stack) = k + n
      /\ \A i \in 1..k : /\ e.stack[i].vertex \in CfgSucc(g, x) /\ e.dfn[e.stack[i].vertex] = 0
                         /\ ~ e.stack[i].finished /\ e.stack[i].pred = v
      /\ e.stack[k + 1].vertex = x /\ e.stack[k + 1].finished /\ e.stack[k + 1].pred = p
      /\ \A i \in 2..n : e.stack[k + i] = d.stack[i]
  BY DEF Pushed, Grown
<1> HIDE DEF n
<1>6. /\ \A i \in 1..k : i \in 1..(k + n)
      /\ k + 1 \in 1..(k + n)
      /\ \A i \in 2..n : i \in 1..n /\ k + i \in 1..(k + n)
      /\ \A i \in 1..(k + n) : i \in 1..k \/ i = k + 1 \/ \E j \in 2..n : i = k + j
  <2>1. ASSUME NEW i \in 1..(k + n)
        PROVE  i \in 1..k \/ i = k + 1 \/ \E j \in 2..n : i = k + j
    <3>1. CASE i > k + 1
      <4>1. i - k \in 2..n /\ i = k + (i - k)
        BY <1>4, <1>5, <3>1
      <4> QED BY <4>1
    <3> QED BY <1>4, <1>5, <3>1
  <2> QED BY <1>4, <1>5, <2>1
<1>7. ASSUME NEW i \in 2..n, d.stack[i].finished
      PROVE  /\ d.dfn[d.stack[i].vertex] \in Gray(d) /\ d.stack[i].vertex # x
             /\ e.dfn[d.stack[i].vertex] = d.dfn[d.stack[i].vertex]
  <2>1. i \in 1..n /\ d.stack[i].vertex \in g.node
    BY <1>4, <1>6
  <2>2. d.dfn[d.stack[i].vertex] \in Gray(d)
    BY <1>1, <1>7, <2>1 DEF StackOK, EntryOK, n
  <2>3. d.dfn[d.stack[i].vertex] # 0
    BY <2>2 DEF Gray, Grown
  <2>4. d.stack[i].vertex # x
    BY <2>3 DEF Grown
  <2> QED BY <2>1, <2>2, <2>4 DEF Grown
<1>8. \A j \in 2..n : d.stack[j].finished => d.dfn[d.stack[j].vertex] <= p
  BY <1>3 DEF EntryOK, n
<1>9. p = 0 \/ \E j \in 2..n : d.stack[j].finished /\ d.dfn[d.stack[j].vertex] = p
  BY <1>3 DEF EntryOK, n
<1>10. ASSUME NEW i \in 1..k PROVE EntryOK(g, e, i)
  <2>1. e.dfn[x] = v /\ x \in g.node /\ v # 0 /\ v \in Nat
    BY DEF Grown
  <2>2. /\ ~ e.stack[i].finished /\ e.stack[i].pred = v /\ e.dfn[e.stack[i].vertex] = 0
        /\ e.stack[i].vertex \in CfgSucc(g, x)
    BY <1>5
  <2>3. ASSUME NEW j \in (i + 1)..Len(e.stack), e.stack[j].finished
        PROVE  e.dfn[e.stack[j].vertex] <= v
    <3>1. j \in 1..(k + n)
      BY <1>4, <1>5
    <3>2. CASE j \in 1..k
      BY <1>5, <2>3, <3>2
    <3>3. CASE j = k + 1
      BY <1>5, <2>1, <3>3
    <3>4. CASE \E l \in 2..n : j = k + l
      <4>1. PICK l \in 2..n : j = k + l
        BY <3>4
      <4>2. e.stack[j] = d.stack[l]
        BY <1>5, <4>1
      <4>3. e.dfn[e.stack[j].vertex] \in Seen(d)
        BY <1>7, <2>3, <4>2 DEF Gray
      <4> QED BY <4>3 DEF Grown
    <3> QED BY <1>6, <3>1, <3>2, <3>3, <3>4
  <2>4. k + 1 \in (i + 1)..Len(e.stack)
    BY <1>4, <1>5
  <2>5. \E j \in (i + 1)..Len(e.stack) : e.stack[j].finished /\ e.dfn[e.stack[j].vertex] = v
    BY <1>5, <2>1, <2>4
  <2>6. \E m \in g.node : e.dfn[m] = v /\ e.stack[i].vertex \in CfgSucc(g, m)
    BY <2>1, <2>2
  <2> QED BY <2>1, <2>2, <2>3, <2>5, <2>6 DEF EntryOK
<1>11. EntryOK(g, e, k + 1)
  <2>1. /\ e.stack[k + 1].vertex = x /\ e.stack[k + 1].finished /\ e.stack[k + 1].pred = p
        /\ e.dfn[x] = v /\ v \in Gray(e) /\ e.nonback[v] = {p} \ {0}
    BY <1>5 DEF Grown
  <2>2. ASSUME NEW j \in (k + 1 + 1)..Len(e.stack), e.stack[j].finished
        PROVE  e.dfn[e.stack[j].vertex] <= p
    <3>1. PICK l \in 2..n : j = k + l
      BY <1>4, <1>5, <1>6
    <3>2. e.stack[j] = d.stack[l]
      BY <1>5, <3>1
    <3> QED BY <1>7, <1>8, <2>2, <3>2
  <2>3. p = 0 \/ \E j \in (k + 1 + 1)..Len(e.stack) :
          e.stack[j].finished /\ e.dfn[e.stack[j].vertex] = p
    <3>1. CASE p # 0
      <4>1. PICK l \in 2..n : d.stack[l].finished /\ d.dfn[d.stack[l].vertex] = p
        BY <1>9, <3>1
      <4>2. k + l \in (k + 1 + 1)..Len(e.stack)
        BY <1>4, <1>5
      <4>3. e.stack[k + l] = d.stack[l]
        BY <1>5
      <4> QED BY <1>7, <4>1, <4>2, <4>3
    <3> QED BY <3>1
  <2> QED BY <2>1, <2>2, <2>3 DEF EntryOK
<1>12. ASSUME NEW i \in 2..n PROVE EntryOK(g, e, k + i)
  <2> DEFINE t == d.stack[i]
  <2>1. EntryOK(g, d, i) /\ i \in 1..n /\ t.vertex \in g.node /\ t.pred \in Nat
    BY <1>1, <1>4, <1>6 DEF StackOK, n
  <2>2. /\ t.finished => d.dfn[t.vertex] \in Gray(d) /\ d.nonback[d.dfn[t.vertex]] = {t.pred} \ {0}
        /\ ~ t.finished /\ t.pred = 0 => d.next = 1
        /\ ~ t.finished /\ t.pred # 0 =>
             /\ d.dfn[t.vertex] = 0 \/ d.dfn[t.vertex] > t.pred
             /\ \E m \in g.node : d.dfn[m] = t.pred /\ t.vertex \in CfgSucc(g, m)
        /\ \A j \in (i + 1)..n : d.stack[j].finished => d.dfn[d.stack[j].vertex] <= t.pred
        /\ \/ t.pred = 0
           \/ \E j \in (i + 1)..n : d.stack[j].finished /\ d.dfn[d.stack[j].vertex] = t.pred
    BY <2>1 DEF EntryOK, n
  <2>3. e.stack[k + i] = t
    BY <1>5
  <2> HIDE DEF t
  <2>4. t.finished => e.dfn[t.vertex] \in Gray(e) /\ e.nonback[e.dfn[t.vertex]] = {t.pred} \ {0}
    <3>1. SUFFICES ASSUME t.finished
                   PROVE  e.dfn[t.vertex] \in Gray(e) /\ e.nonback[e.dfn[t.vertex]] = {t.pred} \ {0}
      OBVIOUS
    <3>2. e.dfn[t.vertex] = d.dfn[t.vertex] /\ d.dfn[t.vertex] \in Gray(d)
      BY <1>7, <3>1 DEF t
    <3>3. d.dfn[t.vertex] \in Seen(d)
      BY <3>2 DEF Gray
    <3>4. d.dfn[t.vertex] # v /\ d.dfn[t.vertex] \in Numbers(g)
      BY <3>3 DEF Grown
    <3> QED BY <2>2, <3>1, <3>2, <3>4 DEF Grown
  <2>5. d.next # 1
    BY <1>1, <1>4 DEF StackOK, n
  <2>6. t.pred # 0 => t.pred \in Seen(d)
    <3>1. SUFFICES ASSUME t.pred # 0 PROVE t.pred \in Seen(d)
      OBVIOUS
    <3>2. PICK j \in (i + 1)..n : d.stack[j].finished /\ d.dfn[d.stack[j].vertex] = t.pred
      BY <2>2, <3>1
    <3>3. j \in 2..n
      BY <1>4
    <3> QED BY <1>7, <3>2, <3>3 DEF Gray
  <2>7. ~ t.finished /\ t.pred # 0 =>
             /\ e.dfn[t.vertex] = 0 \/ e.dfn[t.vertex] > t.pred
             /\ \E m \in g.node : e.dfn[m] = t.pred /\ t.vertex \in CfgSucc(g, m)
    <3>1. SUFFICES ASSUME ~ t.finished /\ t.pred # 0
                   PROVE  /\ e.dfn[t.vertex] = 0 \/ e.dfn[t.vertex] > t.pred
                          /\ \E m \in g.node : e.dfn[m] = t.pred /\ t.vertex \in CfgSucc(g, m)
      OBVIOUS
    <3>2. PICK m \in g.node : d.dfn[m] = t.pred /\ t.vertex \in CfgSucc(g, m)
      BY <2>2, <3>1
    <3>3. e.dfn[m] = t.pred
      BY <3>1, <3>2 DEF Grown
    <3>4. e.dfn[t.vertex] = 0 \/ e.dfn[t.vertex] > t.pred
      <4>1. CASE t.vertex = x
        BY <2>1, <2>6, <3>1, <4>1 DEF Grown
      <4>2. CASE t.vertex # x
        BY <2>1, <2>2, <3>1, <4>2 DEF Grown
      <4> QED BY <4>1, <4>2
    <3> QED BY <3>2, <3>3, <3>4
  <2>8. ASSUME NEW j \in (k + i + 1)..Len(e.stack), e.stack[j].finished
        PROVE  e.dfn[e.stack[j].vertex] <= t.pred
    <3>1. j - k \in (i + 1)..n /\ j - k \in 2..n /\ j = k + (j - k)
      BY <1>4, <1>5
    <3>2. e.stack[j] = d.stack[j - k]
      BY <1>5, <3>1
    <3> QED BY <1>7, <2>2, <2>8, <3>1, <3>2
  <2>9. \/ t.pred = 0
        \/ \E j \in (k + i + 1)..Len(e.stack) : e.stack[j].finished /\ e.dfn[e.stack[j].vertex] = t.pred
    <3>1. CASE t.pred # 0
      <4>1. PICK j \in (i + 1)..n : d.stack[j].finished /\ d.dfn[d.stack[j].vertex] = t.pred
        BY <2>2, <3>1
      <4>2. j \in 2..n /\ k + j \in (k + i + 1)..Len(e.stack)
        BY <1>4, <1>5
      <4>3. e.stack[k + j] = d.stack[j]
        BY <1>5, <4>2
      <4> QED BY <1>7, <4>1, <4>2, <4>3
    <3> QED BY <3>1
  <2> QED BY <2>2, <2>3, <2>4, <2>5, <2>7, <2>8, <2>9 DEF EntryOK
<1>13. \A i \in 1..Len(e.stack) : EntryOK(g, e, i)
  BY <1>5, <1>6, <1>10, <1>11, <1>12
<1>14. ASSUME NEW w \in Gray(e)
       PROVE  \E i \in 1..Len(e.stack) : e.stack[i].finished /\ e.dfn[e.stack[i].vertex] = w
  <2>1. CASE w = v
    BY <1>5, <1>6, <2>1 DEF Grown
  <2>2. CASE w \in Gray(d)
    <3>1. PICK i \in 1..n : d.stack[i].finished /\ d.dfn[d.stack[i].vertex] = w
      BY <1>1, <2>2 DEF StackOK, n
    <3>2. i # 1
      BY <1>3, <3>1
    <3>3. i \in 2..n
      BY <1>4, <3>2
    <3>4. k + i \in 1..Len(e.stack) /\ e.stack[k + i] = d.stack[i]
      BY <1>5, <1>6, <3>3
    <3> QED BY <1>7, <3>1, <3>3, <3>4
  <2> QED BY <2>1, <2>2 DEF Grown
<1> QED BY <1>2, <1>13, <1>14 DEF StackOK

LEMMA DiscoverKeepsAnc ==
  ASSUME NEW g, NEW d, NEW e, NEW v, NEW x, NEW p, CanDiscover(g, d), Discovered(g, d, e),
         Grown(g, d, e, v, x, p)
  PROVE  AncOK(g, e)
<1>1. e.black = d.black /\ e.anc = d.anc
  BY DEF Discovered
<1>2. AncOK(g, d) /\ OrderOK(d) /\ d.black \subseteq Seen(d)
  BY DEF CanDiscover, SearchInv, TreeOK
<1>3. ASSUME NEW w \in d.black
      PROVE  Up(e, w) = Up(d, w) /\ Up(e, w) \cap Gray(e) = Up(d, w) \cap Gray(d)
  <2>1. Up(e, w) = Up(d, w) /\ w \in Seen(d)
    BY <1>2 DEF Grown
  <2>2. v \notin Up(d, w)
    BY <1>2, <2>1 DEF OrderOK, Grown
  <2> QED BY <2>1, <2>2 DEF Grown
<1> QED BY <1>1, <1>2, <1>3 DEF AncOK

(* Every vertex descends from the first.                                    *)
LEMMA FirstIsAncestor ==
  ASSUME NEW g, NEW d, IsGraph(g), d \in SearchStates(g), TreeOK(g, d), OrderOK(d), NEW u \in Seen(d)
  PROVE  1 \in Up(d, u)
<1>1. /\ IsEdges(d.nonback, Numbers(g)) /\ Seen(d) \subseteq Numbers(g)
  BY SearchTypes
<1>2. /\ Up(d, u) \in SUBSET Numbers(g) /\ u \in Up(d, u) /\ Closed(d.nonback, Up(d, u))
  BY <1>1, ReachUnfold DEF Up
<1>3. Up(d, u) \subseteq 1..u
  BY DEF OrderOK
<1>4. d.next \in Nat /\ u \in Nat /\ u < d.next
  BY SearchTypes DEF Seen
<1>5. Up(d, u) \in SUBSET Nat
  BY <1>3
<1>6. PICK k \in Up(d, u) : \A j \in Up(d, u) : k <= j
  BY <1>2, <1>5, LeastNatural
<1>7. k \in Seen(d)
  BY <1>3, <1>4 DEF Seen
<1>8. ASSUME k # 1 PROVE FALSE
  <2>1. PICK q \in Seen(d) : q < k /\ d.nonback[k] = {q}
    BY <1>7, <1>8 DEF TreeOK
  <2>2. q \in Up(d, u)
    BY <1>2, <2>1 DEF Closed
  <2> QED BY <1>5, <1>6, <2>1, <2>2
<1> QED BY <1>8

LEMMA DiscoverKeepsEdges ==
  ASSUME NEW g, NEW d, NEW e, NEW v, NEW x, NEW p, NEW k, CanDiscover(g, d), Discovered(g, d, e),
         Grown(g, d, e, v, x, p), Pushed(g, d, e, k), StackOK(g, e)
  PROVE  EdgesOK(g, e)
<1> DEFINE old == {e.dfn[n] : n \in CfgSucc(g, x)} \ {0}
<1>1. /\ IsGraph(g) /\ d.stack # <<>> /\ SearchInv(g, d) /\ ~ Head(d.stack).finished
      /\ d \in SearchStates(g) /\ TreeOK(g, d) /\ OrderOK(d) /\ AncOK(g, d) /\ EdgesOK(g, d)
      /\ d.black \subseteq Seen(d)
  BY DEF CanDiscover, SearchInv, TreeOK
<1>2. /\ e.black = d.black
      /\ e.cross = [l \in Numbers(g) |-> d.cross[l] \cup
                      {<<v, u>> : u \in {t \in old \cap d.black : d.anc[t] = l}}]
      /\ e.back = [u \in Numbers(g) |-> IF u \in old \ d.black THEN d.back[u] \cup {v}
                                        ELSE d.back[u]]
      /\ e \in SearchStates(g)
  BY DEF Discovered, Grown
<1>3. /\ NumBlocks(g) \in Nat /\ \A m \in g.node : CfgSucc(g, m) \subseteq g.node
      /\ Seen(d) \subseteq Numbers(g)
      /\ d.anc \in [0..NumBlocks(g) -> 0..NumBlocks(g)]
  BY <1>1, SearchTypes
<1>4. d.stack[1].vertex = x /\ d.stack[1].pred = p
  BY <1>1, TopOfStack DEF Grown
<1>5. /\ k \in Nat /\ Len(e.stack) = k + Len(d.stack) /\ Len(d.stack) \in Nat
      /\ \A i \in 1..k : ~ e.stack[i].finished /\ e.stack[i].pred = v
      /\ \A i \in 2..Len(d.stack) : e.stack[k + i] = d.stack[i]
      /\ \A n \in CfgSucc(g, x) : e.dfn[n] = 0 => \E i \in 1..k : e.stack[i].vertex = n
  BY <1>1, SearchTypes DEF Pushed, Grown
<1>6. /\ \A u \in Numbers(g) : d.back[u] \subseteq e.back[u]
      /\ \A l \in Numbers(g) : d.cross[l] \subseteq e.cross[l]
  BY <1>2
<1>7. \A u \in old : u \in Seen(e) /\ IsEdge(g, e, v, u)
  <2> SUFFICES ASSUME NEW u \in old PROVE u \in Seen(e) /\ IsEdge(g, e, v, u)
    OBVIOUS
  <2>1. PICK n \in CfgSucc(g, x) : e.dfn[n] = u
    OBVIOUS
  <2>2. n \in g.node /\ x \in g.node /\ e.dfn[x] = v /\ u # 0
    BY <1>3 DEF Grown
  <2>3. u \in Seen(e)
    BY <2>1, <2>2 DEF Grown
  <2>4. IsEdge(g, e, v, u)
    BY <2>1, <2>2 DEF IsEdge
  <2> QED BY <2>3, <2>4
<1>8. ASSUME NEW u \in old \cap d.black PROVE d.anc[u] \in Numbers(g) /\ d.anc[u] \in Up(d, u) \cap Gray(d)
  <2>1. u \in Seen(d) /\ 1 \in Up(d, u)
    BY <1>1, FirstIsAncestor
  <2>2. p # 0
    BY <2>1 DEF Grown
  <2>3. p \in Gray(d) /\ p \in Seen(d)
    BY <2>2 DEF Grown
  <2>4. 1 \in Gray(d)
    BY <1>1, <2>3, FirstIsAncestor DEF OrderOK
  <2>5. 1 <= d.anc[u] /\ (d.anc[u] = 0 \/ d.anc[u] \in Up(d, u) \cap Gray(d))
    BY <1>1, <2>1, <2>4 DEF AncOK
  <2>6. d.anc[u] \in Up(d, u) \cap Gray(d)
    BY <2>5
  <2> QED BY <1>3, <2>6 DEF Gray
<1> HIDE DEF old
<1>9. ASSUME NEW m \in g.node, e.dfn[m] # 0, NEW n \in CfgSucc(g, m)
      PROVE  EdgeStored(g, e, e.dfn[m], n)
  <2>0. n \in g.node
    BY <1>3
  <2>1. CASE m = x
    <3>1. e.dfn[m] = v
      BY <2>1 DEF Grown
    <3>2. CASE e.dfn[n] = 0
      <4>1. PICK i \in 1..k : e.stack[i].vertex = n
        BY <1>5, <1>9, <2>1, <3>2
      <4>2. i \in 1..Len(e.stack)
        BY <1>5
      <4> QED BY <1>5, <3>1, <4>1, <4>2 DEF EdgeStored
    <3>3. CASE e.dfn[n] # 0 /\ e.dfn[n] \notin d.black
      <4>1. e.dfn[n] \in old \ d.black
        BY <1>9, <2>1, <3>3 DEF old
      <4>2. e.dfn[n] \in Numbers(g)
        BY <1>3, <1>7, <4>1 DEF Grown
      <4> QED BY <1>2, <3>1, <3>3, <4>1, <4>2 DEF EdgeStored
    <3>4. CASE e.dfn[n] # 0 /\ e.dfn[n] \in d.black
      <4>1. e.dfn[n] \in old \cap d.black
        BY <1>9, <2>1, <3>4 DEF old
      <4>2. d.anc[e.dfn[n]] \in Numbers(g)
        BY <1>8, <4>1
      <4>3. <<v, e.dfn[n]>> \in e.cross[d.anc[e.dfn[n]]]
        BY <1>2, <4>1, <4>2
      <4> QED BY <3>1, <4>2, <4>3 DEF EdgeStored
    <3> QED BY <3>2, <3>3, <3>4
  <2>2. CASE m # x
    <3> DEFINE a == d.dfn[m]
    <3>1. e.dfn[m] = a /\ a \in Seen(d) /\ a # 0
      BY <1>9, <2>2 DEF Grown
    <3>2. EdgeStored(g, d, a, n)
      BY <1>1, <3>1 DEF EdgesOK
    <3> HIDE DEF a
    <3>3. CASE n # x
      <4>1. e.dfn[n] = d.dfn[n] /\ (d.dfn[n] # 0 => d.dfn[n] \in Seen(d))
        BY <2>0, <3>3 DEF Grown
      <4>2. CASE d.dfn[n] > a /\ a \in Up(d, d.dfn[n])
        <5>1. d.dfn[n] # 0
          BY <3>1, <4>2 DEF Grown
        <5> QED BY <3>1, <4>1, <4>2, <5>1 DEF EdgeStored, Grown
      <4>3. CASE d.dfn[n] # 0 /\ a \in d.back[d.dfn[n]]
        <5>1. d.dfn[n] \in Numbers(g)
          BY <1>3, <4>1, <4>3
        <5> QED BY <1>6, <3>1, <4>1, <4>3, <5>1 DEF EdgeStored
      <4>4. CASE \E l \in Numbers(g) : <<a, d.dfn[n]>> \in d.cross[l]
        BY <1>6, <3>1, <4>1, <4>4 DEF EdgeStored
      <4>5. CASE \E i \in 1..Len(d.stack) :
                   ~ d.stack[i].finished /\ d.stack[i].vertex = n /\ d.stack[i].pred = a
        <5>1. PICK i \in 1..Len(d.stack) :
                   ~ d.stack[i].finished /\ d.stack[i].vertex = n /\ d.stack[i].pred = a
          BY <4>5
        <5>2. i # 1
          BY <1>4, <3>3, <5>1
        <5>3. i \in 2..Len(d.stack) /\ k + i \in 1..Len(e.stack)
          BY <1>5, <5>2
        <5> QED BY <1>5, <3>1, <5>1, <5>3 DEF EdgeStored
      <4> QED BY <3>2, <4>2, <4>3, <4>4, <4>5 DEF EdgeStored
    <3>4. CASE n = x
      <4>1. d.dfn[n] = 0 /\ e.dfn[n] = v
        BY <3>4 DEF Grown
      <4>2. ~ (d.dfn[n] > a /\ a \in Up(d, d.dfn[n])) /\ ~ (d.dfn[n] # 0)
        BY <3>1, <4>1 DEF Grown
      <4>3. \A l \in Numbers(g) : <<a, d.dfn[n]>> \notin d.cross[l]
        <5>1. 0 \notin Numbers(g) /\ d.cross \in [Numbers(g) -> SUBSET (Numbers(g) \X Numbers(g))]
          BY <1>1 DEF Numbers, SearchStates
        <5> QED BY <4>1, <5>1
      <4>4. PICK i \in 1..Len(d.stack) :
                   ~ d.stack[i].finished /\ d.stack[i].vertex = n /\ d.stack[i].pred = a
        BY <3>2, <4>2, <4>3 DEF EdgeStored
      <4>5. CASE i = 1
        <5>1. a = p /\ p \in Gray(e)
          BY <1>4, <3>1, <4>4, <4>5 DEF Grown
        <5> QED BY <3>1, <4>1, <5>1 DEF EdgeStored, Grown
      <4>6. CASE i # 1
        <5>1. i \in 2..Len(d.stack) /\ k + i \in 1..Len(e.stack)
          BY <1>5, <4>6
        <5> QED BY <1>5, <3>1, <4>4, <5>1 DEF EdgeStored
      <4> QED BY <4>5, <4>6
    <3> QED BY <3>3, <3>4
  <2> QED BY <2>1, <2>2
<1>10. ASSUME NEW u \in Numbers(g), NEW w \in e.back[u]
       PROVE  w \in Seen(e) /\ u \in Up(e, w) /\ IsEdge(g, e, w, u)
  <2>1. CASE w \in d.back[u]
    <3>1. w \in Seen(d) /\ u \in Up(d, w) /\ IsEdge(g, d, w, u)
      BY <1>1, <2>1 DEF EdgesOK
    <3>2. u # 0
      BY DEF Numbers
    <3> QED BY <3>1, <3>2 DEF Grown
  <2>2. CASE w \notin d.back[u]
    <3>1. w = v /\ u \in old \ d.black
      BY <1>2, <1>10, <2>2
    <3>2. u \in Seen(e) /\ IsEdge(g, e, v, u)
      BY <1>7, <3>1
    <3>3. u \in Gray(e)
      BY <1>2, <3>1, <3>2 DEF Gray
    <3> QED BY <3>1, <3>2, <3>3 DEF Grown
  <2> QED BY <2>1, <2>2
<1>11. ASSUME NEW l \in Numbers(g), NEW a \in Numbers(g), NEW b \in Numbers(g), <<a, b>> \in e.cross[l]
       PROVE  IsCross(g, e, l, a, b)
  <2>1. CASE <<a, b>> \in d.cross[l]
    <3>1. IsCross(g, d, l, a, b)
      BY <1>1, <2>1 DEF EdgesOK
    <3>2. b # 0
      BY DEF Numbers
    <3> QED BY <3>1, <3>2 DEF Grown, IsCross
  <2>2. CASE <<a, b>> \notin d.cross[l]
    <3>1. a = v /\ b \in old \cap d.black /\ d.anc[b] = l
      <4>1. <<a, b>> \in {<<v, u>> : u \in {t \in old \cap d.black : d.anc[t] = l}}
        BY <1>2, <1>11, <2>2
      <4> QED BY <4>1
    <3>2. b \in Seen(d) /\ b \in Seen(e) /\ b < v /\ Up(e, b) = Up(d, b) /\ v \in Seen(e)
      BY <1>1, <3>1 DEF Grown
    <3>3. IsEdge(g, e, v, b)
      BY <1>7, <3>1
    <3>4. l \in Up(d, b) /\ l \in Gray(d)
      BY <1>8, <3>1
    <3>5. ASSUME NEW c \in Up(e, v) \cap Up(e, b) PROVE c <= l
      <4>1. c \in Gray(e) /\ c \in Up(d, b)
        BY <3>2 DEF Grown
      <4>2. c # v
        BY <1>1, <3>2, <4>1 DEF OrderOK, Grown
      <4>3. c \in Gray(d)
        BY <4>1, <4>2 DEF Grown
      <4> QED BY <1>1, <3>1, <4>1, <4>3 DEF AncOK
    <3>6. l \in Up(e, v) /\ l # b
      BY <3>1, <3>4 DEF Grown, Gray
    <3> QED BY <3>1, <3>2, <3>3, <3>4, <3>5, <3>6 DEF IsCross
  <2> QED BY <2>1, <2>2
<1> QED BY <1>9, <1>10, <1>11 DEF EdgesOK

LEMMA DiscoverKeeps ==
  ASSUME NEW g, NEW d, CanDiscover(g, d)
  PROVE  SearchInv(g, DiscoverVertex(g, d))
<1> DEFINE e == DiscoverVertex(g, d)
<1>1. Discovered(g, d, e)
  BY DiscoverEffect
<1>2. PICK k : Pushed(g, d, e, k)
  BY DiscoverEffect
<1> HIDE DEF e
<1>3. PICK v, x, p : Grown(g, d, e, v, x, p)
  BY <1>1, DiscoverGrows
<1>4. NumberingOK(g, e) /\ TreeOK(g, e) /\ OrderOK(e)
  BY <1>1, <1>3, DiscoverKeepsTree
<1>5. StackOK(g, e)
  BY <1>1, <1>2, <1>3, DiscoverKeepsStack
<1>6. AncOK(g, e)
  BY <1>1, <1>3, DiscoverKeepsAnc
<1>7. EdgesOK(g, e)
  BY <1>1, <1>2, <1>3, <1>5, DiscoverKeepsEdges
<1>8. e \in SearchStates(g)
  BY <1>1 DEF Discovered
<1> QED BY <1>4, <1>5, <1>6, <1>7, <1>8 DEF SearchInv, e

------------------------------------------------------------------------------
(* What the finished search leaves for construct_wpo.                       *)
SearchDone(g, d) == IsGraph(g) /\ SearchInv(g, d) /\ d.stack = <<>>

LEMMA NoneIsGray == ASSUME NEW g, NEW d, SearchDone(g, d) PROVE Gray(d) = {}
<1>1. StackOK(g, d) /\ Len(d.stack) = 0
  BY DEF SearchDone, SearchInv
<1> QED BY <1>1 DEF StackOK

(* The ancestors of a vertex.                                               *)
LEMMA Ancestors ==
  ASSUME NEW g, NEW d, SearchDone(g, d)
  PROVE  /\ \A v \in Numbers(g) : /\ Up(d, v) \in SUBSET Numbers(g) /\ v \in Up(d, v)
                                  /\ Up(d, v) \subseteq 1..v
         /\ \A c \in Numbers(g) : \A b \in Up(d, c) : \A a \in Up(d, b) : a \in Up(d, c)
         /\ \A a, b, c \in Numbers(g) : a <= b /\ b <= c /\ a \in Up(d, c) => a \in Up(d, b)
         /\ \A v \in Numbers(g) : \A q \in d.nonback[v] :
              /\ q \in Numbers(g) /\ q < v /\ IsEdge(g, d, q, v)
              /\ \A a \in Up(d, v) : a = v \/ a \in Up(d, q)
         /\ \A v \in Numbers(g) : \A a \in Up(d, v) : a = v \/ \E q \in d.nonback[v] : a \in Up(d, q)
<1>1. IsGraph(g) /\ d \in SearchStates(g) /\ TreeOK(g, d) /\ OrderOK(d)
  BY DEF SearchDone, SearchInv
<1>2. /\ NumBlocks(g) \in Nat /\ d.next \in 1..(NumBlocks(g) + 1) /\ Seen(d) \subseteq Numbers(g)
      /\ IsEdges(d.nonback, Numbers(g))
  BY <1>1, SearchTypes
<1>3. ASSUME NEW v \in Numbers(g)
      PROVE  /\ Up(d, v) \in SUBSET Numbers(g) /\ v \in Up(d, v)
             /\ \A a \in Up(d, v) : a = v \/ \E q \in d.nonback[v] : a \in Up(d, q)
  BY <1>2, ReachUnfold DEF Up
<1>4. ASSUME NEW v \in Numbers(g), v \notin Seen(d)
      PROVE  Up(d, v) = {v}
  <2>1. d.nonback[v] = {}
    BY <1>1, <1>4 DEF TreeOK
  <2> QED BY <1>3, <2>1
<1>5. ASSUME NEW v \in Numbers(g) PROVE Up(d, v) \subseteq 1..v
  <2>1. v \in 1..v
    BY DEF Numbers
  <2> QED BY <1>1, <1>4, <2>1 DEF OrderOK
<1>6. ASSUME NEW c \in Numbers(g), NEW b \in Up(d, c), NEW a \in Up(d, b) PROVE a \in Up(d, c)
  <2>1. b \in Reach(d.nonback, {c}) /\ a \in Reach(d.nonback, {b})
    BY <1>6 DEF Up
  <2>2. a \in Reach(d.nonback, {c})
    BY <1>2, <2>1, ReachTransitive
  <2> QED BY <2>2 DEF Up
<1>7. ASSUME NEW a \in Numbers(g), NEW b \in Numbers(g), NEW c \in Numbers(g),
             a <= b, b <= c, a \in Up(d, c)
      PROVE  a \in Up(d, b)
  <2>1. CASE c \in Seen(d)
    <3>1. a \in Seen(d) /\ b \in Seen(d)
      BY <1>2, <1>7, <2>1 DEF Numbers, Seen
    <3> QED BY <1>1, <1>7, <2>1, <3>1 DEF OrderOK
  <2>2. CASE c \notin Seen(d)
    <3>1. a = c
      BY <1>4, <1>7, <2>2
    <3>2. a = b
      BY <1>7, <3>1 DEF Numbers
    <3> QED BY <1>3, <3>2
  <2> QED BY <2>1, <2>2
<1>8. ASSUME NEW v \in Numbers(g), NEW q \in d.nonback[v]
      PROVE  /\ q \in Numbers(g) /\ q < v /\ IsEdge(g, d, q, v)
             /\ \A a \in Up(d, v) : a = v \/ a \in Up(d, q)
  <2>1. v \in Seen(d) \ {1}
    BY <1>1, <1>8 DEF TreeOK
  <2>2. PICK p \in Seen(d) : p < v /\ d.nonback[v] = {p} /\ IsEdge(g, d, p, v)
    BY <1>1, <2>1 DEF TreeOK
  <2>3. q = p
    BY <1>8, <2>2
  <2> QED BY <1>2, <1>3, <2>2, <2>3
<1> QED BY <1>3, <1>5, <1>6, <1>7, <1>8

(* Every edge leads to a descendant, or is a back edge, or a cross edge.    *)
LEMMA EdgeKinds ==
  ASSUME NEW g, NEW d, SearchDone(g, d), NEW a \in Numbers(g), NEW b \in Numbers(g)
  PROVE  /\ IsEdge(g, d, a, b) =>
              \/ a < b /\ a \in Up(d, b)
              \/ a \in d.back[b]
              \/ \E l \in Numbers(g) : <<a, b>> \in d.cross[l]
         /\ a \in d.back[b] => IsEdge(g, d, a, b) /\ b \in Up(d, a)
         /\ \A l \in Numbers(g) : <<a, b>> \in d.cross[l] =>
              /\ IsEdge(g, d, a, b) /\ b < a /\ l < b
              /\ l \in Up(d, a) /\ l \in Up(d, b)
              /\ \A c \in Up(d, a) : c \in Up(d, b) => c <= l
<1>1. IsGraph(g) /\ d \in SearchStates(g) /\ EdgesOK(g, d) /\ Len(d.stack) = 0
  BY DEF SearchDone, SearchInv
<1>2. a # 0 /\ b # 0 /\ a \in Nat /\ b \in Nat
  BY DEF Numbers
<1>3. ASSUME IsEdge(g, d, a, b)
      PROVE  \/ a < b /\ a \in Up(d, b)
             \/ a \in d.back[b]
             \/ \E l \in Numbers(g) : <<a, b>> \in d.cross[l]
  <2>1. PICK m \in g.node : \E n \in CfgSucc(g, m) : d.dfn[m] = a /\ d.dfn[n] = b
    BY <1>3 DEF IsEdge
  <2>2. PICK n \in CfgSucc(g, m) : d.dfn[m] = a /\ d.dfn[n] = b
    BY <2>1
  <2>3. EdgeStored(g, d, a, n)
    BY <1>1, <1>2, <2>1, <2>2 DEF EdgesOK
  <2>4. b > a /\ a \in Up(d, b) => a < b /\ a \in Up(d, b)
    BY <1>2
  <2> QED BY <1>1, <2>2, <2>3, <2>4 DEF EdgeStored
<1>4. ASSUME NEW l \in Numbers(g), <<a, b>> \in d.cross[l]
      PROVE  /\ IsEdge(g, d, a, b) /\ b < a /\ l < b
             /\ l \in Up(d, a) /\ l \in Up(d, b)
             /\ \A c \in Up(d, a) : c \in Up(d, b) => c <= l
  <2>1. IsCross(g, d, l, a, b)
    BY <1>1, <1>4 DEF EdgesOK
  <2>2. l \in 1..b /\ l # b
    BY <2>1, Ancestors DEF IsCross
  <2>3. l < b
    BY <1>2, <2>2
  <2> QED BY <2>1, <2>3 DEF IsCross
<1>5. a \in d.back[b] => IsEdge(g, d, a, b) /\ b \in Up(d, a)
  BY <1>1 DEF EdgesOK
<1> QED BY <1>3, <1>4, <1>5

------------------------------------------------------------------------------
(* The strongly connected components of the vertices from h upwards.        *)
From(g, h) == {u \in Numbers(g) : u >= h}
Out(g, d, h) == [u \in From(g, h) |-> {t \in From(g, h) : IsEdge(g, d, u, t)}]
In(g, d, h) == [u \in From(g, h) |-> {t \in From(g, h) : IsEdge(g, d, t, u)}]
Scc(g, d, h, v) == Reach(Out(g, d, h), {v}) \cap Reach(In(g, d, h), {v})

(* There is a path from a to b among the vertices from h upwards.           *)
Conn(g, d, h, a, b) == b \in Reach(Out(g, d, h), {a})

LEMMA OutIn ==
  ASSUME NEW g, IsGraph(g), NEW d, NEW h \in Nat
  PROVE  IsEdges(Out(g, d, h), From(g, h)) /\ IsEdges(In(g, d, h), From(g, h))
<1>1. NumBlocks(g) \in Nat
  BY FS_CardinalityType DEF IsGraph, NumBlocks
<1>2. IsFiniteSet(Numbers(g))
  BY <1>1, FS_Interval DEF Numbers
<1>3. IsFiniteSet(From(g, h))
  BY <1>2, FS_Subset DEF From
<1>4. Out(g, d, h) \in [From(g, h) -> SUBSET From(g, h)]
  BY DEF Out
<1>5. In(g, d, h) \in [From(g, h) -> SUBSET From(g, h)]
  BY DEF In
<1> QED BY <1>3, <1>4, <1>5 DEF IsEdges

LEMMA Connected ==
  ASSUME NEW g, IsGraph(g), NEW d, NEW h \in Nat
  PROVE  /\ \A a \in From(g, h) : Conn(g, d, h, a, a)
         /\ \A a \in From(g, h) : \A b : Conn(g, d, h, a, b) => b \in From(g, h)
         /\ \A a, b, c \in From(g, h) :
              Conn(g, d, h, a, b) /\ Conn(g, d, h, b, c) => Conn(g, d, h, a, c)
         /\ \A a, b \in From(g, h) : IsEdge(g, d, a, b) => Conn(g, d, h, a, b)
         /\ \A a, b \in From(g, h) : Conn(g, d, h, a, b) <=> a \in Reach(In(g, d, h), {b})
<1> DEFINE V == From(g, h)
           succ == Out(g, d, h)
           pred == In(g, d, h)
<1>1. IsEdges(succ, V) /\ IsEdges(pred, V)
  BY OutIn
<1>2. /\ \A u, t \in V : t \in succ[u] <=> IsEdge(g, d, u, t)
      /\ \A u, t \in V : t \in pred[u] <=> IsEdge(g, d, t, u)
  BY DEF Out, In
<1> HIDE DEF V, succ, pred
<1>3. \A a \in V : a \in Reach(succ, {a}) /\ Reach(succ, {a}) \in SUBSET V
                   /\ Closed(succ, Reach(succ, {a}))
  BY <1>1, ReachUnfold
<1>4. \A a, b \in V : IsEdge(g, d, a, b) => b \in Reach(succ, {a})
  BY <1>2, <1>3 DEF Closed
<1>5. \A a, b, c \in V : b \in Reach(succ, {a}) /\ c \in Reach(succ, {b}) => c \in Reach(succ, {a})
  BY <1>1, ReachTransitive
<1>6. \A a, b \in V : b \in Reach(succ, {a}) => a \in Reach(pred, {b})
  <2>1. \A u, t \in V : t \in succ[u] => u \in pred[t]
    BY <1>2
  <2> QED BY <1>1, <2>1, ReachDual
<1>7. \A a, b \in V : a \in Reach(pred, {b}) => b \in Reach(succ, {a})
  <2>1. \A u, t \in V : t \in pred[u] => u \in succ[t]
    BY <1>2
  <2> QED BY <1>1, <2>1, ReachDual
<1> QED BY <1>3, <1>4, <1>5, <1>6, <1>7 DEF Conn, V, succ, pred

(* A path either avoids the least vertex h or leads to it and on from it.   *)
LEMMA ConnectedAbove ==
  ASSUME NEW g, IsGraph(g), NEW d, NEW h \in Numbers(g), NEW a \in From(g, h + 1)
  PROVE  /\ a \in From(g, h)
         /\ \A b : Conn(g, d, h + 1, a, b) => Conn(g, d, h, a, b)
         /\ \A b : Conn(g, d, h, a, b) =>
              Conn(g, d, h + 1, a, b) \/ (Conn(g, d, h, a, h) /\ Conn(g, d, h, h, b))
<1> DEFINE V == From(g, h)
           step == Out(g, d, h)
           less == Out(g, d, h + 1)
<1>1. h \in Nat /\ \A u \in Numbers(g) : u \in Nat
  BY DEF Numbers
<1>2. IsEdges(step, V)
  BY <1>1, OutIn
<1>3. From(g, h + 1) = V \ {h} /\ h \in V
  <2>1. \A u \in Numbers(g) : (u >= h + 1 <=> u >= h /\ u # h) /\ h >= h
    BY <1>1
  <2> QED BY <2>1 DEF From
<1>4. less = [u \in V \ {h} |-> step[u] \ {h}]
  <2>1. \A u \in V \ {h} : {t \in V \ {h} : IsEdge(g, d, u, t)} = step[u] \ {h}
    BY DEF Out
  <2>2. less = [u \in V \ {h} |-> {t \in V \ {h} : IsEdge(g, d, u, t)}]
    BY <1>3 DEF Out
  <2> HIDE DEF V, step, less
  <2> QED BY <2>1, <2>2
<1> HIDE DEF V, step, less
<1>5. Without(h, V, step, less)
  BY <1>3, <1>4 DEF Without
<1>6. a \in V \ {h}
  BY <1>3
<1>7. /\ Reach(less, {a}) \subseteq Reach(step, {a})
      /\ \A b \in Reach(step, {a}) :
           b \in Reach(less, {a}) \/ (h \in Reach(step, {a}) /\ b \in Reach(step, {h}))
  BY <1>2, <1>5, <1>6, ReachWithout
<1> QED BY <1>6, <1>7 DEF Conn, step, less, V

(* A path among fewer vertices is a path among more.                        *)
LEMMA ConnectedBelow ==
  ASSUME NEW g, IsGraph(g), NEW d, NEW low \in Nat, NEW high \in Nat, low <= high,
         NEW a \in From(g, high), NEW b, Conn(g, d, high, a, b)
  PROVE  Conn(g, d, low, a, b)
<1> DEFINE V == From(g, high)
           W == From(g, low)
           step == Out(g, d, high)
           more == Out(g, d, low)
           T == Reach(more, {a}) \cap V
<1>1. IsEdges(step, V) /\ IsEdges(more, W)
  BY OutIn
<1>2. V \subseteq W
  BY DEF From, Numbers
<1>3. \A u \in V : step[u] \subseteq V /\ step[u] \subseteq more[u]
  BY <1>2 DEF Out
<1> HIDE DEF V, W, step, more
<1>4. a \in V /\ a \in W
  BY <1>2 DEF V
<1>5. a \in Reach(more, {a}) /\ Closed(more, Reach(more, {a}))
  BY <1>1, <1>4, ReachUnfold
<1>6. T \in SUBSET V /\ {a} \in SUBSET V /\ {a} \subseteq T
  BY <1>4, <1>5
<1>7. Closed(step, T)
  BY <1>3, <1>5 DEF Closed
<1> HIDE DEF T
<1>8. Reach(step, {a}) \subseteq T
  BY <1>1, <1>6, <1>7, ReachLeast
<1> QED BY <1>8 DEF Conn, T, step, more

LEMMA Components ==
  ASSUME NEW g, IsGraph(g), NEW d, NEW h \in Nat, NEW v \in From(g, h)
  PROVE  /\ \A t : t \in Scc(g, d, h, v) <=>
              t \in From(g, h) /\ Conn(g, d, h, v, t) /\ Conn(g, d, h, t, v)
         /\ v \in Scc(g, d, h, v)
         /\ \A t \in Scc(g, d, h, v) : Scc(g, d, h, t) = Scc(g, d, h, v)
         /\ Min(Scc(g, d, h, v)) \in Scc(g, d, h, v)
         /\ \A t \in Scc(g, d, h, v) : Min(Scc(g, d, h, v)) <= t
<1>1. ASSUME NEW w \in From(g, h), NEW t
      PROVE  t \in Scc(g, d, h, w) <=>
               t \in From(g, h) /\ Conn(g, d, h, w, t) /\ Conn(g, d, h, t, w)
  <2>1. t \in Reach(Out(g, d, h), {w}) <=> Conn(g, d, h, w, t)
    BY DEF Conn
  <2>2. Conn(g, d, h, w, t) => t \in From(g, h)
    BY Connected
  <2>3. t \in From(g, h) => (t \in Reach(In(g, d, h), {w}) <=> Conn(g, d, h, t, w))
    BY Connected
  <2> QED BY <2>1, <2>2, <2>3 DEF Scc
<1>2. v \in Scc(g, d, h, v)
  BY <1>1, Connected
<1>3. ASSUME NEW t \in Scc(g, d, h, v) PROVE Scc(g, d, h, t) = Scc(g, d, h, v)
  <2>1. t \in From(g, h) /\ Conn(g, d, h, v, t) /\ Conn(g, d, h, t, v)
    BY <1>1
  <2>2. ASSUME NEW u PROVE u \in Scc(g, d, h, t) <=> u \in Scc(g, d, h, v)
    <3>1. u \in Scc(g, d, h, t) <=>
            u \in From(g, h) /\ Conn(g, d, h, t, u) /\ Conn(g, d, h, u, t)
      BY <1>1, <2>1
    <3>2. u \in Scc(g, d, h, v) <=>
            u \in From(g, h) /\ Conn(g, d, h, v, u) /\ Conn(g, d, h, u, v)
      BY <1>1
    <3>3. \A x, y, z \in From(g, h) :
            Conn(g, d, h, x, y) /\ Conn(g, d, h, y, z) => Conn(g, d, h, x, z)
      BY Connected
    <3> QED BY <2>1, <3>1, <3>2, <3>3
  <2> QED BY <2>2
<1>4. Min(Scc(g, d, h, v)) \in Scc(g, d, h, v)
      /\ \A t \in Scc(g, d, h, v) : Min(Scc(g, d, h, v)) <= t
  <2> DEFINE S == Scc(g, d, h, v)
  <2>1. S \in SUBSET Nat /\ S # {}
    BY <1>1, <1>2 DEF From, Numbers
  <2> HIDE DEF S
  <2>2. \E k \in S : \A j \in S : k <= j
    BY <2>1, LeastNatural
  <2>3. Min(S) \in S /\ \A t \in S : Min(S) <= t
    BY <2>2 DEF Min
  <2> QED BY <2>3 DEF S
<1> QED BY <1>1, <1>2, <1>3, <1>4

(* Vertices share a first vertex where they share a component.              *)
LEMMA SameFirst ==
  ASSUME NEW g, IsGraph(g), NEW d, NEW h \in Nat, NEW v \in From(g, h), NEW u \in From(g, h)
  PROVE  Min(Scc(g, d, h, u)) = Min(Scc(g, d, h, v)) <=> u \in Scc(g, d, h, v)
<1> DEFINE U == Scc(g, d, h, u)
           W == Scc(g, d, h, v)
<1>1. u \in W => U = W
  BY Components
<1>2. Min(U) \in U /\ Min(W) \in W /\ u \in U
  BY Components
<1>3. \A t \in U : Scc(g, d, h, t) = U
  BY Components
<1>4. \A t \in W : Scc(g, d, h, t) = W
  BY Components
<1> HIDE DEF U, W
<1> QED BY <1>1, <1>2, <1>3, <1>4 DEF U, W

------------------------------------------------------------------------------
(* A vertex reaches, without smaller vertices, its descendants and no other *)
(* vertices.                                                                *)
LEMMA ReachesDescendants ==
  ASSUME NEW g, NEW d, SearchDone(g, d), NEW h \in Numbers(g), NEW w \in Numbers(g), h \in Up(d, w)
  PROVE  w \in From(g, h) /\ Conn(g, d, h, h, w)
<1> DEFINE T == {u \in Numbers(g) : h \in Up(d, u) /\ ~ Conn(g, d, h, h, u)}
<1>1. IsGraph(g) /\ h \in Nat /\ h \in From(g, h)
  BY DEF SearchDone, Numbers, From
<1>2. ASSUME NEW u \in Numbers(g), h \in Up(d, u) PROVE u \in From(g, h)
  <2>1. h \in 1..u
    BY <1>2, Ancestors
  <2> QED BY <2>1 DEF From, Numbers
<1>3. SUFFICES ASSUME ~ Conn(g, d, h, h, w) PROVE FALSE
  BY <1>2
<1>4. T \in SUBSET Nat /\ T # {}
  BY <1>3 DEF Numbers
<1>5. PICK k \in T : \A j \in T : k <= j
  <2> HIDE DEF T
  <2> QED BY <1>4, LeastNatural
<1>6. k # h
  BY <1>1, <1>5, Connected
<1>7. PICK q \in d.nonback[k] : h \in Up(d, q)
  BY <1>5, <1>6, Ancestors
<1>8. q \in Numbers(g) /\ q < k /\ IsEdge(g, d, q, k)
  BY <1>5, <1>7, Ancestors
<1>9. Conn(g, d, h, h, q)
  <2>1. q \notin T
    BY <1>4, <1>5, <1>8 DEF Numbers
  <2> QED BY <1>7, <1>8, <2>1
<1>10. q \in From(g, h) /\ k \in From(g, h)
  BY <1>2, <1>5, <1>7, <1>8
<1>11. Conn(g, d, h, q, k)
  BY <1>1, <1>8, <1>10, Connected
<1>12. Conn(g, d, h, h, k)
  BY <1>1, <1>9, <1>10, <1>11, Connected
<1> QED BY <1>5, <1>12

LEMMA ReachesOnlyDescendants ==
  ASSUME NEW g, NEW d, SearchDone(g, d), NEW h \in Numbers(g), NEW w, Conn(g, d, h, h, w)
  PROVE  h \in Up(d, w) /\ w \in From(g, h)
<1> DEFINE V == From(g, h)
           step == Out(g, d, h)
           D == {u \in V : h \in Up(d, u)}
<1>1. IsGraph(g) /\ h \in Nat /\ h \in V /\ h \in Up(d, h)
  BY Ancestors DEF SearchDone, Numbers, From
<1>2. IsEdges(step, V)
  BY <1>1, OutIn
<1>3. D \in SUBSET V /\ {h} \in SUBSET V /\ {h} \subseteq D
  BY <1>1
<1>4. Closed(step, D)
  <2>1. ASSUME NEW a \in D, NEW b \in step[a] PROVE b \in D
    <3>1. /\ a \in Numbers(g) /\ b \in Numbers(g) /\ b \in V /\ h <= b /\ IsEdge(g, d, a, b)
          /\ a \in Nat /\ b \in Nat
      BY <2>1 DEF Out, From, Numbers
    <3>2. CASE a < b /\ a \in Up(d, b)
      <4>1. h \in Up(d, b)
        BY <2>1, <3>1, <3>2, Ancestors
      <4> QED BY <3>1, <4>1
    <3>3. CASE b <= a
      <4>1. h \in Up(d, b)
        BY <2>1, <3>1, <3>3, Ancestors
      <4> QED BY <3>1, <4>1
    <3>4. b \in Up(d, a) => b <= a
      <4>1. Up(d, a) \subseteq 1..a
        BY <3>1, Ancestors
      <4> QED BY <3>1, <4>1
    <3>5. b < a => b <= a
      BY <3>1
    <3>6. (a < b /\ a \in Up(d, b)) \/ b <= a
      BY <3>1, <3>4, <3>5, EdgeKinds
    <3> QED BY <3>2, <3>3, <3>6
  <2> QED BY <2>1 DEF Closed
<1> HIDE DEF D, V, step
<1>5. Reach(step, {h}) \subseteq D
  BY <1>2, <1>3, <1>4, ReachLeast
<1> QED BY <1>5 DEF Conn, step, D, V

------------------------------------------------------------------------------
(* The invariant of the search for components (construct_wpo) before it     *)
(* tries the head h.                                                        *)

(* The edges that the search follows: those of the tree, and the cross      *)
(* edges that are restored.                                                 *)
Entering(g, d, h, p, x) ==
  p \in d.nonback[x] \/ \E l \in Numbers(g) : l > h /\ <<p, x>> \in d.cross[l]

RepOK(g, d, h, rep) ==
  /\ rep \in [Numbers(g) -> Numbers(g)]
  /\ \A v \in Numbers(g) : rep[v] = IF v <= h THEN v ELSE Min(Scc(g, d, h + 1, v))

(* nonback holds, at the representative of a component, exactly the         *)
(* predecessors along these edges, up to those inside the component.        *)
PredsOK(g, d, h, rep, nonback) ==
  /\ nonback \in [Numbers(g) -> SUBSET Numbers(g)]
  /\ \A r \in Numbers(g) : \A p \in nonback[r] :
        \E x \in Numbers(g) : rep[x] = rep[r] /\ Entering(g, d, h, p, x)
  /\ \A p, x \in Numbers(g) :
        Entering(g, d, h, p, x) => p \in nonback[rep[x]] \/ rep[p] = rep[x]

RepFacts(g, d, h, rep) ==
  /\ \A u \in Numbers(g) : u \in Nat /\ rep[u] \in Numbers(g)
                          /\ (u <= h => rep[u] = u) /\ (u > h <=> u \in From(g, h + 1))
  /\ \A u \in From(g, h + 1) : u \in From(g, h) /\ u # h
        /\ rep[u] \in Scc(g, d, h + 1, u) /\ rep[u] \in From(g, h + 1)
        /\ rep[rep[u]] = rep[u]
  /\ \A u, w \in From(g, h + 1) : rep[u] = rep[w] <=> u \in Scc(g, d, h + 1, w)
  /\ \A u, w \in From(g, h + 1) : u \in Scc(g, d, h + 1, w) => u \in Scc(g, d, h, w)
  /\ h \in Nat /\ h + 1 \in Nat /\ rep[h] = h

LEMMA Representatives ==
  ASSUME NEW g, NEW d, IsGraph(g), NEW h \in Numbers(g), NEW rep, RepOK(g, d, h, rep)
  PROVE  RepFacts(g, d, h, rep)
<1>1. h \in Nat /\ h + 1 \in Nat /\ \A u \in Numbers(g) : u \in Nat
  BY DEF Numbers
<1>2. \A u \in Numbers(g) : rep[u] \in Numbers(g) /\ (u <= h => rep[u] = u)
                            /\ (u > h <=> u \in From(g, h + 1))
  <2>1. \A u \in Numbers(g) : u > h <=> u >= h + 1
    BY <1>1
  <2> QED BY <2>1 DEF RepOK, From
<1>3. \A u \in From(g, h + 1) : rep[u] = Min(Scc(g, d, h + 1, u)) /\ u \in Numbers(g) /\ u # h
                                /\ u \in From(g, h)
  <2>1. \A u \in Numbers(g) : u >= h + 1 => ~ (u <= h) /\ u >= h /\ u # h
    BY <1>1
  <2> QED BY <2>1 DEF RepOK, From
<1>4. \A u \in From(g, h + 1) : rep[u] \in Scc(g, d, h + 1, u)
  BY <1>1, <1>3, Components
<1>5. \A u \in From(g, h + 1) : rep[u] \in From(g, h + 1)
  BY <1>1, <1>4, Components
<1>6. \A u, w \in From(g, h + 1) : rep[u] = rep[w] <=> u \in Scc(g, d, h + 1, w)
  BY <1>1, <1>3, SameFirst
<1>7. \A u \in From(g, h + 1) : rep[rep[u]] = rep[u]
  BY <1>4, <1>5, <1>6
<1>8. ASSUME NEW u \in From(g, h + 1), NEW w \in From(g, h + 1), u \in Scc(g, d, h + 1, w)
      PROVE  u \in Scc(g, d, h, w)
  <2>1. Conn(g, d, h + 1, w, u) /\ Conn(g, d, h + 1, u, w)
    BY <1>1, <1>8, Components
  <2>2. Conn(g, d, h, w, u) /\ Conn(g, d, h, u, w)
    BY <2>1, ConnectedAbove
  <2> QED BY <1>1, <1>3, <2>2, Components
<1>9. rep[h] = h
  BY <1>1, <1>2
<1> QED BY <1>1, <1>2, <1>3, <1>4, <1>5, <1>6, <1>7, <1>8, <1>9 DEF RepFacts

------------------------------------------------------------------------------
(* The backward search from the back edges of h finds the components that   *)
(* lie with h in a larger one (NestedSccs).                                 *)
PredsOf(h, rep, nonback) ==
  [v \in DOMAIN rep |-> {rep[p] : p \in nonback[v]} \ {h}]
Targets(d, h, rep) == {rep[v] : v \in d.back[h] \ {h}}
Nested(d, h, rep, nonback) == Reach(PredsOf(h, rep, nonback), Targets(d, h, rep))

(* The state of the search when the cross edges of h are restored.          *)
Trying(g, d, h, rep, nonback) ==
  /\ SearchDone(g, d) /\ h \in Numbers(g)
  /\ RepOK(g, d, h, rep) /\ PredsOK(g, d, h - 1, rep, nonback)

LEMMA NestedTypes ==
  ASSUME NEW g, NEW d, NEW h, NEW rep, NEW nonback, Trying(g, d, h, rep, nonback)
  PROVE  /\ IsEdges(PredsOf(h, rep, nonback), Numbers(g))
         /\ Targets(d, h, rep) \in SUBSET Numbers(g)
         /\ \A r \in Numbers(g) :
              PredsOf(h, rep, nonback)[r] = {rep[p] : p \in nonback[r]} \ {h}
         /\ d.back[h] \subseteq Numbers(g)
<1>1. IsGraph(g) /\ d \in SearchStates(g) /\ h \in Numbers(g)
  BY DEF Trying, SearchDone, SearchInv
<1>2. IsFiniteSet(Numbers(g))
  BY <1>1, SearchTypes DEF IsEdges
<1>3. rep \in [Numbers(g) -> Numbers(g)] /\ nonback \in [Numbers(g) -> SUBSET Numbers(g)]
  BY DEF Trying, RepOK, PredsOK
<1>4. d.back \in [Numbers(g) -> SUBSET Numbers(g)]
  BY <1>1 DEF SearchStates
<1>5. \A r \in Numbers(g) : {rep[p] : p \in nonback[r]} \ {h} \in SUBSET Numbers(g)
  BY <1>3
<1>6. PredsOf(h, rep, nonback) = [r \in Numbers(g) |-> {rep[p] : p \in nonback[r]} \ {h}]
  BY <1>3 DEF PredsOf
<1>7. PredsOf(h, rep, nonback) \in [Numbers(g) -> SUBSET Numbers(g)]
  BY <1>5, <1>6
<1>8. Targets(d, h, rep) \in SUBSET Numbers(g)
  BY <1>1, <1>3, <1>4 DEF Targets
<1> QED BY <1>1, <1>2, <1>4, <1>6, <1>7, <1>8 DEF IsEdges

(* What an edge that the search follows joins to the component of h.        *)
LEMMA EnteringInside ==
  ASSUME NEW g, NEW d, SearchDone(g, d), NEW h \in Numbers(g), NEW x \in Scc(g, d, h, h), x # h,
         NEW p \in Numbers(g), Entering(g, d, h - 1, p, x)
  PROVE  p \in Scc(g, d, h, h)
<1>1. IsGraph(g) /\ h \in Nat /\ h \in From(g, h)
  BY DEF SearchDone, Numbers, From
<1>2. x \in From(g, h) /\ Conn(g, d, h, h, x) /\ Conn(g, d, h, x, h)
  BY <1>1, Components
<1>3. h \in Up(d, x) /\ x \in Numbers(g)
  BY <1>2, ReachesOnlyDescendants DEF From
<1>4. h \in Up(d, p) /\ IsEdge(g, d, p, x)
  <2>1. CASE p \in d.nonback[x]
    BY <1>3, <2>1, Ancestors
  <2>2. CASE \E l \in Numbers(g) : l > h - 1 /\ <<p, x>> \in d.cross[l]
    <3>1. PICK l \in Numbers(g) : l > h - 1 /\ <<p, x>> \in d.cross[l]
      BY <2>2
    <3>2. h <= l /\ l \in Nat /\ x \in Nat
      BY <1>1, <1>3, <3>1 DEF Numbers
    <3>3. IsEdge(g, d, p, x) /\ l < x /\ l \in Up(d, p) /\ l \in Up(d, x)
      BY <1>3, <3>1, EdgeKinds
    <3>4. h \in Up(d, l)
      BY <1>3, <3>2, <3>3, Ancestors
    <3> QED BY <3>3, <3>4, Ancestors
  <2> QED BY <2>1, <2>2 DEF Entering
<1>5. p \in From(g, h) /\ Conn(g, d, h, h, p)
  BY <1>4, ReachesDescendants
<1>6. Conn(g, d, h, p, x)
  BY <1>1, <1>2, <1>4, <1>5, Connected
<1>7. Conn(g, d, h, p, h)
  BY <1>1, <1>2, <1>5, <1>6, Connected
<1> QED BY <1>1, <1>5, <1>7, Components

LEMMA NestedInside ==
  ASSUME NEW g, NEW d, NEW h, NEW rep, NEW nonback, Trying(g, d, h, rep, nonback),
         NEW r \in Nested(d, h, rep, nonback)
  PROVE  r \in From(g, h + 1) /\ r \in Scc(g, d, h, h) /\ rep[r] = r
<1> DEFINE Q == {q \in From(g, h + 1) : q \in Scc(g, d, h, h) /\ rep[q] = q}
           V == Numbers(g)
           step == PredsOf(h, rep, nonback)
           S == Targets(d, h, rep)
<1>1. /\ SearchDone(g, d) /\ h \in Numbers(g) /\ RepOK(g, d, h, rep)
      /\ PredsOK(g, d, h - 1, rep, nonback) /\ IsGraph(g) /\ h \in Nat /\ h \in From(g, h)
  BY DEF Trying, SearchDone, Numbers, From
<1>0. RepFacts(g, d, h, rep)
  BY <1>1, Representatives
<1>2. /\ IsEdges(step, V) /\ S \in SUBSET V /\ d.back[h] \subseteq V
      /\ \A q \in V : step[q] = {rep[p] : p \in nonback[q]} \ {h}
  BY NestedTypes
<1>3. ASSUME NEW w \in Numbers(g), w \in Scc(g, d, h, h), w # h
      PROVE  rep[w] \in Q /\ w \in From(g, h + 1)
  <2>1. w \in From(g, h)
    BY <1>1, <1>3, Components
  <2>2. w > h
    BY <1>1, <1>3, <2>1 DEF From, Numbers
  <2>3. w \in From(g, h + 1)
    BY <1>0, <1>1, <2>2 DEF RepFacts
  <2>4. /\ rep[w] \in Scc(g, d, h + 1, w) /\ rep[w] \in From(g, h + 1) /\ rep[rep[w]] = rep[w]
    BY <1>0, <1>1, <2>3 DEF RepFacts
  <2>5. rep[w] \in Scc(g, d, h, w)
    BY <1>0, <1>1, <2>3, <2>4 DEF RepFacts
  <2>6. Scc(g, d, h, w) = Scc(g, d, h, h)
    BY <1>1, <1>3, Components
  <2> QED BY <2>3, <2>4, <2>5, <2>6
<1>4. S \subseteq Q
  <2>1. ASSUME NEW w \in d.back[h], w # h PROVE rep[w] \in Q
    <3>1. w \in Numbers(g)
      BY <1>2
    <3>2. IsEdge(g, d, w, h) /\ h \in Up(d, w)
      BY <1>1, <2>1, <3>1, EdgeKinds
    <3>3. w \in From(g, h) /\ Conn(g, d, h, h, w)
      BY <1>1, <3>1, <3>2, ReachesDescendants
    <3>4. Conn(g, d, h, w, h)
      BY <1>1, <3>2, <3>3, Connected
    <3>5. w \in Scc(g, d, h, h)
      BY <1>1, <3>3, <3>4, Components
    <3> QED BY <1>3, <2>1, <3>1, <3>5
  <2> QED BY <2>1 DEF Targets
<1>5. Closed(step, Q)
  <2>1. ASSUME NEW q \in Q, NEW y \in step[q] PROVE y \in Q
    <3>1. q \in V /\ rep[q] = q /\ q \in From(g, h + 1) /\ q \in Scc(g, d, h, h)
      BY <2>1 DEF From
    <3>2. PICK p \in nonback[q] : y = rep[p] /\ y # h
      BY <1>2, <2>1, <3>1
    <3>3. p \in Numbers(g)
      BY <1>1, <3>1 DEF PredsOK
    <3>4. PICK x \in Numbers(g) : rep[x] = q /\ Entering(g, d, h - 1, p, x)
      BY <1>1, <3>1 DEF PredsOK
    <3>5. x \in From(g, h + 1)
      <4>1. x <= h => rep[x] = x
        BY <1>0, <1>1 DEF RepFacts
      <4>2. x \in Nat /\ q > h /\ (x > h <=> x \in From(g, h + 1))
        BY <1>0, <1>1, <3>1 DEF RepFacts
      <4> QED BY <1>1, <3>4, <4>1, <4>2
    <3>6. x \in Scc(g, d, h + 1, q)
      BY <1>0, <1>1, <3>1, <3>4, <3>5 DEF RepFacts
    <3>7. x \in Scc(g, d, h, q) /\ x # h /\ q \in From(g, h)
      BY <1>0, <1>1, <3>1, <3>5, <3>6 DEF RepFacts
    <3>8. Scc(g, d, h, q) = Scc(g, d, h, h)
      BY <1>1, <3>1, Components
    <3>9. p \in Scc(g, d, h, h)
      BY <1>1, <3>3, <3>4, <3>7, <3>8, EnteringInside
    <3>10. p # h
      <4>1. rep[h] = h
        BY <1>0, <1>1 DEF RepFacts
      <4> QED BY <3>2, <4>1
    <3> QED BY <1>3, <3>2, <3>3, <3>9, <3>10
  <2> QED BY <2>1 DEF Closed
<1>6. Q \in SUBSET V
  BY DEF From
<1> HIDE DEF Q, V, step, S
<1>7. Reach(step, S) \subseteq Q
  BY <1>2, <1>4, <1>5, <1>6, ReachLeast
<1>8. r \in Q
  BY <1>7 DEF Nested, step, S
<1> QED BY <1>8 DEF Q

LEMMA NestedClosed ==
  ASSUME NEW g, NEW d, NEW h, NEW rep, NEW nonback, Trying(g, d, h, rep, nonback)
  PROVE  /\ Nested(d, h, rep, nonback) \in SUBSET Numbers(g)
         /\ \A w \in d.back[h] : w # h => rep[w] \in Nested(d, h, rep, nonback)
         /\ \A r \in Nested(d, h, rep, nonback) : \A p \in nonback[r] :
              rep[p] # h => rep[p] \in Nested(d, h, rep, nonback)
<1> DEFINE V == Numbers(g)
           step == PredsOf(h, rep, nonback)
           S == Targets(d, h, rep)
<1>1. /\ IsEdges(step, V) /\ S \in SUBSET V
      /\ \A q \in V : step[q] = {rep[p] : p \in nonback[q]} \ {h}
  BY NestedTypes
<1>2. \A w \in d.back[h] : w # h => rep[w] \in S
  BY DEF Targets
<1> HIDE DEF V, step, S
<1>3. Reach(step, S) \in SUBSET V /\ S \subseteq Reach(step, S) /\ Closed(step, Reach(step, S))
  BY <1>1, ReachClosed
<1>4. Nested(d, h, rep, nonback) = Reach(step, S)
  BY DEF Nested, step, S
<1>5. ASSUME NEW r \in Reach(step, S), NEW p \in nonback[r], rep[p] # h
      PROVE  rep[p] \in Reach(step, S)
  <2>1. rep[p] \in step[r]
    BY <1>1, <1>3, <1>5
  <2> QED BY <1>3, <2>1 DEF Closed
<1>6. Reach(step, S) \in SUBSET Numbers(g)
  BY <1>3 DEF V
<1> QED BY <1>2, <1>3, <1>4, <1>5, <1>6

LEMMA NestedAll ==
  ASSUME NEW g, NEW d, NEW h, NEW rep, NEW nonback, Trying(g, d, h, rep, nonback),
         NEW u \in Scc(g, d, h, h), u # h
  PROVE  rep[u] \in Nested(d, h, rep, nonback)
<1> DEFINE R == Nested(d, h, rep, nonback)
           V == From(g, h)
           pred == In(g, d, h)
           B == {v \in V : v = h \/ rep[v] \in R \/ h \notin Up(d, v)}
<1>1. /\ SearchDone(g, d) /\ h \in Numbers(g) /\ RepOK(g, d, h, rep)
      /\ PredsOK(g, d, h - 1, rep, nonback) /\ IsGraph(g) /\ h \in Nat /\ h \in V
  BY DEF Trying, SearchDone, Numbers, From
<1>0. RepFacts(g, d, h, rep)
  BY <1>1, Representatives
<1>2. /\ R \in SUBSET Numbers(g)
      /\ \A w \in d.back[h] : w # h => rep[w] \in R
      /\ \A r \in R : \A p \in nonback[r] : rep[p] # h => rep[p] \in R
  BY NestedClosed
<1>3. IsEdges(pred, V)
  BY <1>1, OutIn
<1>4. \A v \in Numbers(g) : v \in Nat /\ (v > h <=> v \in From(g, h + 1)) /\ (v >= h <=> v \in V)
                            /\ rep[v] \in Numbers(g) /\ (v <= h => rep[v] = v)
  BY <1>0, <1>1 DEF RepFacts, From
<1> HIDE DEF R, V, pred
<1>5. ASSUME NEW x \in Numbers(g), rep[x] \in R, NEW p \in Numbers(g), p > h,
             Entering(g, d, h - 1, p, x)
      PROVE  rep[p] \in R
  <2>1. p \in nonback[rep[x]] \/ rep[p] = rep[x]
    BY <1>1, <1>5 DEF PredsOK
  <2>2. rep[p] # h
    <3>1. p \in From(g, h + 1)
      BY <1>4, <1>5
    <3>2. rep[p] \in From(g, h + 1) /\ h \notin From(g, h + 1)
      BY <1>0, <1>1, <3>1 DEF RepFacts, From
    <3> QED BY <3>2
  <2> QED BY <1>2, <1>5, <2>1, <2>2
<1>6. ASSUME NEW v \in Numbers(g), v > h, rep[v] \in R, NEW t \in Up(d, v), t > h
      PROVE  rep[t] \in R
  <2> DEFINE T == {w \in Numbers(g) : w <= h \/ rep[w] \in R}
  <2>1. T \in SUBSET Numbers(g) /\ {v} \in SUBSET Numbers(g) /\ {v} \subseteq T
    BY <1>6
  <2>2. Closed(d.nonback, T)
    <3>1. ASSUME NEW w \in T, NEW q \in d.nonback[w] PROVE q \in T
      <4>1. q \in Numbers(g) /\ q < w /\ q \in Nat /\ w \in Nat /\ w \in Numbers(g)
        BY <1>1, <1>4, <3>1, Ancestors
      <4>2. Entering(g, d, h - 1, q, w)
        BY <3>1 DEF Entering
      <4>3. q > h => w > h
        BY <1>1, <4>1
      <4>4. q > h => rep[q] \in R
        BY <1>1, <1>5, <3>1, <4>1, <4>2, <4>3
      <4> QED BY <1>1, <4>1, <4>4
    <3> QED BY <3>1 DEF Closed
  <2>3. IsEdges(d.nonback, Numbers(g))
    BY <1>1, SearchTypes DEF SearchDone, SearchInv
  <2> HIDE DEF T
  <2>4. Up(d, v) \subseteq T
    BY <2>1, <2>2, <2>3, ReachLeast DEF Up
  <2>5. t \in T
    BY <1>6, <2>4
  <2>6. t \in Numbers(g) /\ (t <= h \/ rep[t] \in R)
    BY <2>5 DEF T
  <2> QED BY <1>1, <1>4, <1>6, <2>6
<1>7. ASSUME NEW v \in B, NEW t \in pred[v] PROVE t \in B
  <2>1. /\ v \in Numbers(g) /\ t \in Numbers(g) /\ v \in V /\ t \in V /\ IsEdge(g, d, t, v)
        /\ v \in Nat /\ t \in Nat /\ v >= h /\ t >= h
    BY <1>4, <1>7 DEF pred, In, V, From
  <2>2. SUFFICES ASSUME t # h, h \in Up(d, t) PROVE rep[t] \in R
    BY <2>1
  <2>3. t > h
    BY <1>1, <2>1, <2>2
  <2>4. \/ t < v /\ t \in Up(d, v)
        \/ t \in d.back[v]
        \/ \E l \in Numbers(g) : <<t, v>> \in d.cross[l]
    BY <1>1, <2>1, EdgeKinds
  <2>5. ASSUME v <= t PROVE h \in Up(d, v)
    BY <1>1, <2>1, <2>2, <2>5, Ancestors
  <2>6. CASE t < v /\ t \in Up(d, v)
    <3>1. v # h /\ v > h
      BY <1>1, <2>1, <2>6
    <3>2. h \in Up(d, v)
      BY <1>1, <2>1, <2>2, <2>6, Ancestors
    <3>3. rep[v] \in R
      BY <1>7, <3>1, <3>2
    <3> QED BY <1>6, <2>1, <2>3, <2>6, <3>1, <3>3
  <2>7. CASE t \in d.back[v]
    <3>1. v \in Up(d, t)
      BY <1>1, <2>1, <2>7, EdgeKinds
    <3>2. v <= t
      <4>1. Up(d, t) \subseteq 1..t
        BY <1>1, <2>1, Ancestors
      <4> QED BY <2>1, <3>1, <4>1
    <3>3. CASE v = h
      BY <1>2, <2>2, <2>7, <3>3
    <3>4. CASE v # h
      <4>1. v > h /\ rep[v] \in R
        BY <1>1, <1>7, <2>1, <2>5, <3>2, <3>4
      <4>2. v \in From(g, h + 1) /\ t \in From(g, h + 1)
        BY <1>4, <2>1, <2>3, <4>1
      <4>3. Conn(g, d, v, v, t)
        BY <1>1, <2>1, <3>1, ReachesDescendants
      <4>4. Conn(g, d, h + 1, v, t)
        <5>1. h + 1 \in Nat /\ h + 1 <= v /\ v \in From(g, v)
          BY <1>1, <2>1, <4>1 DEF From
        <5> QED BY <1>1, <2>1, <4>3, <5>1, ConnectedBelow
      <4>5. Conn(g, d, h + 1, t, v)
        BY <1>0, <1>1, <2>1, <4>2, Connected DEF RepFacts
      <4>6. t \in Scc(g, d, h + 1, v)
        BY <1>0, <1>1, <4>2, <4>4, <4>5, Components DEF RepFacts
      <4>7. rep[t] = rep[v]
        BY <1>0, <1>1, <4>2, <4>6 DEF RepFacts
      <4> QED BY <4>1, <4>7
    <3> QED BY <3>3, <3>4
  <2>8. CASE \E l \in Numbers(g) : <<t, v>> \in d.cross[l]
    <3>1. PICK l \in Numbers(g) : <<t, v>> \in d.cross[l]
      BY <2>8
    <3>2. /\ v < t /\ l < v /\ l \in Nat
          /\ \A c \in Up(d, t) : c \in Up(d, v) => c <= l
      BY <1>1, <1>4, <2>1, <3>1, EdgeKinds
    <3>3. h \in Up(d, v)
      BY <2>1, <2>5, <3>2
    <3>4. h <= l
      BY <2>2, <3>2, <3>3
    <3>5. v # h /\ l > h - 1
      BY <1>1, <2>1, <3>2, <3>4
    <3>6. rep[v] \in R
      BY <1>7, <3>3, <3>5
    <3>7. Entering(g, d, h - 1, t, v)
      BY <3>1, <3>5 DEF Entering
    <3> QED BY <1>5, <2>1, <2>3, <3>6, <3>7
  <2> QED BY <2>4, <2>6, <2>7, <2>8
<1>8. B \in SUBSET V /\ {h} \in SUBSET V /\ {h} \subseteq B /\ Closed(pred, B)
  BY <1>1, <1>7 DEF Closed
<1> HIDE DEF B
<1>9. Reach(pred, {h}) \subseteq B
  BY <1>3, <1>8, ReachLeast
<1>10. u \in Reach(pred, {h}) /\ Conn(g, d, h, h, u)
  BY DEF Scc, pred, Conn
<1>11. u \in B
  BY <1>9, <1>10
<1>12. h \in Up(d, u)
  BY <1>1, <1>10, ReachesOnlyDescendants
<1> QED BY <1>11, <1>12 DEF B, R

------------------------------------------------------------------------------
(* One head is tried: cross edges are restored, components are merged.      *)
Restored(d, h, rep, nonback) ==
  [v \in DOMAIN nonback |-> nonback[v] \cup {e[1] : e \in {f \in d.cross[h] : rep[f[2]] = v}}]
Merged(h, rep, R) == [v \in DOMAIN rep |-> IF rep[v] \in R THEN h ELSE rep[v]]

LEMMA RestoreKeeps ==
  ASSUME NEW g, NEW d, NEW h, NEW rep, NEW nonback, SearchDone(g, d), h \in Numbers(g),
         RepOK(g, d, h, rep), PredsOK(g, d, h, rep, nonback)
  PROVE  Trying(g, d, h, rep, Restored(d, h, rep, nonback))
<1> DEFINE V == Numbers(g)
           more == Restored(d, h, rep, nonback)
           Into(v) == {f \in d.cross[h] : rep[f[2]] = v}
<1>1. IsGraph(g) /\ d \in SearchStates(g) /\ RepFacts(g, d, h, rep)
  BY Representatives DEF SearchDone, SearchInv
<1>2. d.cross[h] \subseteq V \X V
  BY <1>1 DEF SearchStates
<1>3. nonback \in [V -> SUBSET V]
  BY DEF PredsOK
<1>4. \A v \in V : more[v] = nonback[v] \cup {e[1] : e \in Into(v)}
  BY <1>3 DEF Restored
<1>5. \A v \in V : Into(v) \subseteq V \X V
  BY <1>2
<1>6. more \in [V -> SUBSET V]
  <2>1. \A v \in V : nonback[v] \cup {e[1] : e \in Into(v)} \in SUBSET V
    <3> HIDE DEF V, Into
    <3> QED BY <1>3, <1>5
  <2>2. more = [v \in V |-> nonback[v] \cup {e[1] : e \in Into(v)}]
    BY <1>3 DEF Restored
  <2> HIDE DEF more, Into, V
  <2> QED BY <2>1, <2>2
<1> HIDE DEF more
<1>7. h \in Nat /\ \A l \in Numbers(g) : l \in Nat /\ (l > h - 1 <=> l > h \/ l = h)
  BY DEF Numbers
<1>8. ASSUME NEW r \in V, NEW p \in more[r]
      PROVE  \E x \in V : rep[x] = rep[r] /\ Entering(g, d, h - 1, p, x)
  <2>1. CASE p \in nonback[r]
    <3>1. PICK x \in V : rep[x] = rep[r] /\ Entering(g, d, h, p, x)
      BY <2>1 DEF PredsOK
    <3>2. Entering(g, d, h - 1, p, x)
      BY <1>7, <3>1 DEF Entering
    <3> QED BY <3>1, <3>2
  <2>2. CASE p \in {e[1] : e \in Into(r)}
    <3>1. PICK e \in Into(r) : p = e[1]
      BY <2>2
    <3>2. e \in d.cross[h] /\ rep[e[2]] = r /\ e \in V \X V
      BY <1>5, <3>1
    <3>3. e = <<p, e[2]>> /\ e[2] \in V
      BY <3>1, <3>2
    <3>4. rep[rep[e[2]]] = rep[e[2]]
      <4> DEFINE y == e[2]
      <4>1. y \in V /\ y \in Nat /\ h \in Nat
        BY <1>7, <3>3
      <4> HIDE DEF y
      <4>2. y > h \/ y <= h
        BY <4>1
      <4>3. rep[rep[y]] = rep[y]
        BY <1>1, <4>1, <4>2 DEF RepFacts
      <4> QED BY <4>3 DEF y
    <3>5. Entering(g, d, h - 1, p, e[2])
      BY <1>7, <3>2, <3>3 DEF Entering
    <3> QED BY <3>2, <3>3, <3>4, <3>5
  <2> QED BY <1>4, <1>8, <2>1, <2>2
<1>9. ASSUME NEW p \in V, NEW x \in V, Entering(g, d, h - 1, p, x)
      PROVE  p \in more[rep[x]] \/ rep[p] = rep[x]
  <2>1. rep[x] \in V
    BY <1>1 DEF RepFacts
  <2>2. CASE <<p, x>> \in d.cross[h]
    <3>1. <<p, x>> \in Into(rep[x])
      BY <2>2
    <3>2. p \in {e[1] : e \in Into(rep[x])}
      <4> HIDE DEF Into
      <4> QED BY <3>1
    <3> HIDE DEF Into
    <3> QED BY <1>4, <2>1, <3>2
  <2>3. CASE <<p, x>> \notin d.cross[h]
    <3>1. Entering(g, d, h, p, x)
      BY <1>7, <1>9, <2>3 DEF Entering
    <3> QED BY <1>4, <2>1, <3>1 DEF PredsOK
  <2> QED BY <2>2, <2>3
<1>10. PredsOK(g, d, h - 1, rep, more)
  BY <1>6, <1>8, <1>9 DEF PredsOK
<1> QED BY <1>10 DEF Trying, more

LEMMA MergeKeeps ==
  ASSUME NEW g, NEW d, NEW h, NEW rep, NEW nonback, Trying(g, d, h, rep, nonback)
  PROVE  LET new == Merged(h, rep, Nested(d, h, rep, nonback))
         IN  RepOK(g, d, h - 1, new) /\ PredsOK(g, d, h - 1, new, nonback)
<1> DEFINE R == Nested(d, h, rep, nonback)
           V == Numbers(g)
           new == Merged(h, rep, R)
<1>1. /\ SearchDone(g, d) /\ h \in Numbers(g) /\ RepOK(g, d, h, rep)
      /\ PredsOK(g, d, h - 1, rep, nonback) /\ IsGraph(g) /\ h \in Nat /\ h \in From(g, h)
  BY DEF Trying, SearchDone, Numbers, From
<1>2. RepFacts(g, d, h, rep)
  BY <1>1, Representatives
<1>3. \A r \in R : r \in From(g, h + 1) /\ r \in Scc(g, d, h, h) /\ rep[r] = r
  BY NestedInside
<1>4. \A u \in Scc(g, d, h, h) : u # h => rep[u] \in R
  BY NestedAll
<1>5. \A r \in R : \A p \in nonback[r] : rep[p] # h => rep[p] \in R
  BY NestedClosed
<1>6. rep \in [V -> V]
  BY <1>1 DEF RepOK
<1>7. \A v \in V : new[v] = IF rep[v] \in R THEN h ELSE rep[v]
  BY <1>6 DEF Merged
<1>8. new \in [V -> V]
  <2>1. new = [v \in V |-> IF rep[v] \in R THEN h ELSE rep[v]]
    BY <1>6 DEF Merged
  <2> HIDE DEF new, R
  <2> QED BY <1>1, <1>6, <2>1
<1> HIDE DEF new, R
<1>9. h \notin R /\ \A v \in V : v \in Nat /\ (v < h => v \notin R)
  BY <1>1, <1>3 DEF From, Numbers
<1>10. \A t \in Scc(g, d, h, h) : t \in From(g, h) /\ t >= h
  BY <1>1, Components DEF From
<1>11. Min(Scc(g, d, h, h)) = h
  <2>1. /\ Min(Scc(g, d, h, h)) \in Scc(g, d, h, h) /\ h \in Scc(g, d, h, h)
        /\ Min(Scc(g, d, h, h)) <= h
    BY <1>1, Components
  <2>2. Min(Scc(g, d, h, h)) >= h /\ Min(Scc(g, d, h, h)) \in Nat
    BY <1>10, <2>1 DEF From, Numbers
  <2> QED BY <1>1, <2>1, <2>2
<1>12. ASSUME NEW v \in From(g, h + 1), rep[v] \in R PROVE Scc(g, d, h, v) = Scc(g, d, h, h)
  <2>1. v \in From(g, h) /\ rep[v] \in Scc(g, d, h, v)
    BY <1>2, <1>12 DEF RepFacts
  <2>2. Scc(g, d, h, rep[v]) = Scc(g, d, h, v)
    BY <1>1, <2>1, Components
  <2>3. Scc(g, d, h, rep[v]) = Scc(g, d, h, h)
    BY <1>1, <1>3, <1>12, Components
  <2> QED BY <2>2, <2>3
<1>13. ASSUME NEW v \in From(g, h + 1), rep[v] \notin R
       PROVE  Scc(g, d, h, v) = Scc(g, d, h + 1, v)
  <2>1. v \in From(g, h) /\ v # h /\ h + 1 \in Nat /\ v \in Numbers(g)
    BY <1>2 DEF RepFacts, From
  <2>2. ~ (Conn(g, d, h, v, h) /\ Conn(g, d, h, h, v))
    <3>1. v \notin Scc(g, d, h, h)
      BY <1>4, <1>13, <2>1
    <3> QED BY <1>1, <2>1, <3>1, Components
  <2>3. ASSUME NEW t \in Scc(g, d, h, v) PROVE t \in Scc(g, d, h + 1, v)
    <3>1. t \in From(g, h) /\ Conn(g, d, h, v, t) /\ Conn(g, d, h, t, v)
      BY <1>1, <2>1, Components
    <3>2. t # h
      BY <2>2, <3>1
    <3>3. t \in From(g, h + 1)
      <4>1. t \in Numbers(g) /\ t >= h /\ t \in Nat
        BY <3>1 DEF From, Numbers
      <4>2. t > h
        BY <1>1, <3>2, <4>1
      <4> QED BY <1>2, <4>1, <4>2 DEF RepFacts
    <3>4. \A x, y, z \in From(g, h) :
            Conn(g, d, h, x, y) /\ Conn(g, d, h, y, z) => Conn(g, d, h, x, z)
      BY <1>1, Connected
    <3>5. Conn(g, d, h + 1, v, t)
      <4>1. Conn(g, d, h + 1, v, t) \/ (Conn(g, d, h, v, h) /\ Conn(g, d, h, h, t))
        BY <1>1, <3>1, ConnectedAbove
      <4> QED BY <1>1, <2>1, <2>2, <3>1, <3>4, <4>1
    <3>6. Conn(g, d, h + 1, t, v)
      <4>1. Conn(g, d, h + 1, t, v) \/ (Conn(g, d, h, t, h) /\ Conn(g, d, h, h, v))
        BY <1>1, <3>1, <3>3, ConnectedAbove
      <4> QED BY <1>1, <2>1, <2>2, <3>1, <3>4, <4>1
    <3> QED BY <1>1, <2>1, <3>3, <3>5, <3>6, Components
  <2>4. ASSUME NEW t \in Scc(g, d, h + 1, v) PROVE t \in Scc(g, d, h, v)
    <3>1. t \in From(g, h + 1)
      BY <1>1, <2>1, Components
    <3> QED BY <1>2, <2>4, <3>1 DEF RepFacts
  <2> QED BY <2>3, <2>4
<1>14. RepOK(g, d, h - 1, new)
  <2>1. ASSUME NEW v \in V
        PROVE  new[v] = IF v <= h - 1 THEN v ELSE Min(Scc(g, d, (h - 1) + 1, v))
    <3>0. (h - 1) + 1 = h /\ (v <= h - 1 <=> v < h) /\ v \in Nat /\ (v < h \/ v = h \/ v > h)
      BY <1>1, <1>9
    <3>1. CASE v < h
      <4>1. rep[v] = v
        BY <1>1, <1>2, <3>0, <3>1 DEF RepFacts
      <4> QED BY <1>7, <1>9, <3>0, <3>1, <4>1
    <3>2. CASE v = h
      <4>1. rep[h] = h
        BY <1>2 DEF RepFacts
      <4> QED BY <1>1, <1>7, <1>9, <1>11, <3>0, <3>2, <4>1
    <3>3. CASE v > h
      <4>1. v \in From(g, h + 1) /\ ~ (v <= h - 1) /\ ~ (v <= h)
        BY <1>1, <1>2, <3>0, <3>3 DEF RepFacts
      <4>2. CASE rep[v] \in R
        BY <1>7, <1>11, <1>12, <3>0, <4>1, <4>2
      <4>3. CASE rep[v] \notin R
        <5>1. rep[v] = Min(Scc(g, d, h + 1, v))
          BY <1>1, <4>1 DEF RepOK
        <5> QED BY <1>7, <1>13, <3>0, <4>1, <4>3, <5>1
      <4> QED BY <4>2, <4>3
    <3> QED BY <3>0, <3>1, <3>2, <3>3
  <2> QED BY <1>8, <2>1 DEF RepOK
<1>15. PredsOK(g, d, h - 1, new, nonback)
  <2>1. ASSUME NEW r \in V, NEW p \in nonback[r]
        PROVE  \E x \in V : new[x] = new[r] /\ Entering(g, d, h - 1, p, x)
    <3>1. PICK x \in V : rep[x] = rep[r] /\ Entering(g, d, h - 1, p, x)
      BY <1>1, <2>1 DEF PredsOK
    <3> QED BY <1>7, <3>1
  <2>2. ASSUME NEW p \in V, NEW x \in V, Entering(g, d, h - 1, p, x)
        PROVE  p \in nonback[new[x]] \/ new[p] = new[x]
    <3>1. p \in nonback[rep[x]] \/ rep[p] = rep[x]
      BY <1>1, <2>2 DEF PredsOK
    <3>2. CASE rep[x] \in R
      <4>1. rep[p] \in R \/ rep[p] = h
        BY <1>5, <3>1, <3>2
      <4> QED BY <1>7, <3>2, <4>1
    <3>3. CASE rep[x] \notin R
      BY <1>7, <3>1, <3>3
    <3> QED BY <3>2, <3>3
  <2> QED BY <1>1, <2>1, <2>2 DEF PredsOK
<1> QED BY <1>14, <1>15 DEF new, R

------------------------------------------------------------------------------
(* The state of the search for components, as far as the partition depends *)
(* on it: the numbering of cells and the constraints leave it alone.        *)
SccFields == {"h", "nonback", "rep", "exit", "origin", "size", "d2i", "next", "space",
              "parent", "links"}
IsScc(s) == SccFields \subseteq DOMAIN s
SameSearch(s, t) == IsScc(t) /\ t.h = s.h /\ t.nonback = s.nonback /\ t.rep = s.rep

LEMMA AddNodeSame ==
  ASSUME NEW s, IsScc(s), NEW v, NEW head, NEW type, NEW size
  PROVE  SameSearch(s, AddNode(s, v, head, type, size))
BY DEF IsScc, SccFields, SameSearch, AddNode

LEMMA AddSuccessorsSame ==
  ASSUME NEW s, IsScc(s), NEW ls PROVE SameSearch(s, AddSuccessors(s, ls))
BY DEF IsScc, SccFields, SameSearch, AddSuccessors
LEMMA TopSame ==
  ASSUME NEW s, IsScc(s) PROVE SameSearch(s, Toplevel(s))
<1> DEFINE tops == {v \in DOMAIN s.rep : s.rep[v] = v}
           t == AddSuccessors(s, UNION {EdgesInto(s, v) : v \in tops})
<1>1. SameSearch(s, t)
  BY AddSuccessorsSame
<1>2. Toplevel(s) = [t EXCEPT !.parent = [i \in DOMAIN @ |->
                              IF \E v \in tops : s.d2i[v] = i THEN i ELSE @[i]]]
  BY DEF Toplevel
<1> HIDE DEF t, tops
<1> QED BY <1>1, <1>2 DEF IsScc, SccFields, SameSearch

LEMMA InitSame == ASSUME NEW d PROVE
   /\ IsScc(InitScc(d)) /\ InitScc(d).h = Cardinality(DOMAIN d.back)
   /\ InitScc(d).nonback = d.nonback /\ InitScc(d).rep = [v \in DOMAIN d.back |-> v]
BY DEF InitScc, IsScc, SccFields

(* Cross edges enter the search at the components of their targets.         *)
LEMMA RestoreEffect ==
  ASSUME NEW d, NEW s, IsScc(s)
  PROVE  LET r == RestoreCross(d, s)
         IN  /\ IsScc(r) /\ r.h = s.h /\ r.rep = s.rep
             /\ r.nonback = [v \in DOMAIN s.nonback |-> s.nonback[v] \cup {e[1] : e \in {f \in d.cross[s.h] : s.rep[f[2]] = v}}]
<1> DEFINE Into(v) == {e \in d.cross[s.h] : s.rep[e[2]] = v}
           more == [v \in DOMAIN s.nonback |-> s.nonback[v] \cup {e[1] : e \in Into(v)}]
           orig == [v \in DOMAIN s.origin |-> s.origin[v] \cup Into(v)]
<1>1. RestoreCross(d, s) = [s EXCEPT !.nonback = more, !.origin = orig]
  BY DEF RestoreCross
<1> SUFFICES LET r == [s EXCEPT !.nonback = more, !.origin = orig]
         IN  /\ IsScc(r) /\ r.h = s.h /\ r.rep = s.rep
             /\ r.nonback = more
   BY <1>1
<1> HIDE DEF more, orig
<1> QED BY DEF IsScc, SccFields
(* A head without back edges changes nothing but h; one with back edges     *)
(* merges into it what the backward search finds.                           *)
LEMMA TrivialEffect ==
  ASSUME NEW s, IsScc(s)
  PROVE  /\ IsScc(TrivialScc(s)) /\ TrivialScc(s).h = s.h - 1
         /\ TrivialScc(s).rep = s.rep /\ TrivialScc(s).nonback = s.nonback
<1> DEFINE t == AddNode(s, s.h, s.h, "plain", 1)
           sizes == [t.size EXCEPT ![s.h] = 1]
<1>1. SameSearch(s, t)
  BY AddNodeSame
<1>2. TrivialScc(s) = [t EXCEPT !.size = sizes, !.h = @ - 1]
  BY DEF TrivialScc
<1> HIDE DEF t, sizes
<1> QED BY <1>1, <1>2 DEF IsScc, SccFields, SameSearch

LEMMA ComponentEffect ==
  ASSUME NEW d, NEW s, IsScc(s)
  PROVE  LET r == ComponentScc(d, s)
         IN  /\ IsScc(r) /\ r.h = s.h - 1 /\ r.nonback = s.nonback
             /\ r.rep = Merged(s.h, s.rep, Nested(d, s.h, s.rep, s.nonback))
<1> DEFINE h      == s.h
           x      == s.next
           nested == NestedSccs(d, s)
           size   == 2 + SumFunctionOnSet(s.size, nested)
           first  == AddNode(s, x, h, "exit", size)
           nodes  == AddNode(first, h, h, "head", size)
           toExit == {Link(nodes, p, x, x, FALSE) :
                        p \in IF BackPreds(d, s) = {} THEN {h}
                              ELSE {s.exit[v] : v \in BackPreds(d, s)}}
           some   == AddSuccessors(nodes, toExit)
           linked == AddSuccessors(some, UNION {EdgesInto(nodes, v) : v \in nested})
           parents == [i \in DOMAIN linked.parent |->
                       IF \E v \in nested : linked.d2i[v] = i
                       THEN linked.d2i[h] ELSE linked.parent[i]]
           reps == [v \in DOMAIN linked.rep |-> IF linked.rep[v] \in nested THEN h ELSE linked.rep[v]]
           exits == [linked.exit EXCEPT ![h] = x]
           sizes == [linked.size EXCEPT ![h] = size]
<1>1. SameSearch(s, first)
  BY AddNodeSame
<1>2. SameSearch(first, nodes)
  BY <1>1, AddNodeSame DEF SameSearch
<1>3. SameSearch(nodes, some)
  BY <1>2, AddSuccessorsSame DEF SameSearch
<1>4. SameSearch(some, linked)
  BY <1>3, AddSuccessorsSame DEF SameSearch
<1>5. nested = Nested(d, s.h, s.rep, s.nonback)
  BY DEF NestedSccs, Nested, PredsOf, BackPreds, Targets
<1>6. ComponentScc(d, s) = [linked EXCEPT !.rep = reps, !.parent = parents, !.exit = exits,
                                          !.size = sizes, !.next = @ + 1, !.h = @ - 1]
  BY DEF ComponentScc
<1> HIDE DEF linked, reps, parents, exits, sizes
<1>7. SameSearch(s, linked)
  BY <1>1, <1>2, <1>3, <1>4 DEF SameSearch
<1>8. reps = Merged(s.h, s.rep, nested)
  BY <1>7 DEF reps, Merged, SameSearch
<1> HIDE DEF nested
<1>9. LET r == ComponentScc(d, s)
         IN  /\ IsScc(r) /\ r.h = s.h - 1 /\ r.nonback = s.nonback
             /\ r.rep = reps
  BY <1>6, <1>7 DEF IsScc, SccFields, SameSearch
<1> QED BY <1>5, <1>8, <1>9

(* Without a back edge there is nothing to merge.                           *)
LEMMA NothingNested ==
  ASSUME NEW g, NEW d, NEW h, NEW rep, NEW nonback, Trying(g, d, h, rep, nonback), d.back[h] = {}
  PROVE  Merged(h, rep, Nested(d, h, rep, nonback)) = rep
<1>1. IsEdges(PredsOf(h, rep, nonback), Numbers(g)) /\ Targets(d, h, rep) = {}
  BY NestedTypes DEF Targets
<1>2. Nested(d, h, rep, nonback) \subseteq {}
  BY <1>1, ReachLeast DEF Nested, Closed
<1>3. rep \in [Numbers(g) -> Numbers(g)]
  BY DEF Trying, RepOK
<1> QED BY <1>2, <1>3 DEF Merged

------------------------------------------------------------------------------
(* The invariant of the search for components.                              *)
SccOK(g, d, s) ==
  /\ SearchDone(g, d) /\ IsScc(s) /\ s.h \in 0..NumBlocks(g)
  /\ RepOK(g, d, s.h, s.rep) /\ PredsOK(g, d, s.h, s.rep, s.nonback)

LEMMA SccInitOK == ASSUME NEW g, NEW d, SearchDone(g, d) PROVE SccOK(g, d, InitScc(d))
<1> DEFINE s == InitScc(d)  N == NumBlocks(g)
<1>1. IsGraph(g) /\ d \in SearchStates(g) /\ SearchInv(g, d)
  BY DEF SearchDone, SearchInv
<1>2. N \in Nat /\ N >= 1
  BY <1>1, SearchTypes
<1>3. DOMAIN d.back = 1..N /\ d.nonback \in [Numbers(g) -> SUBSET Numbers(g)]
  BY <1>1 DEF SearchStates, Numbers
<1>4. Cardinality(1..N) = N
  BY <1>2, FS_Interval
<1>5. IsScc(s) /\ s.h = N /\ s.nonback = d.nonback /\ s.rep = [v \in Numbers(g) |-> v]
  BY <1>3, <1>4, InitSame DEF Numbers
<1> HIDE DEF s
<1>6. \A v \in Numbers(g) : v <= N /\ s.rep[v] = v
  BY <1>2, <1>5 DEF Numbers
<1>7. RepOK(g, d, N, s.rep)
  BY <1>5, <1>6 DEF RepOK
<1>8. \A p, x \in Numbers(g) : Entering(g, d, N, p, x) <=> p \in s.nonback[x]
  BY <1>2, <1>5 DEF Entering, Numbers
<1>9. PredsOK(g, d, N, s.rep, s.nonback)
  <2>1. \A r \in Numbers(g) : \A p \in s.nonback[r] : Entering(g, d, N, p, r)
    BY <1>5 DEF Entering
  <2> QED BY <1>3, <1>5, <1>6, <1>8, <2>1 DEF PredsOK
<1> HIDE DEF N
<1>10. s.h \in 0..N
  BY <1>2, <1>5
<1> QED BY <1>5, <1>7, <1>9, <1>10 DEF SccOK, s, N

LEMMA SccStepOK ==
  ASSUME NEW g, NEW d, NEW s, SccOK(g, d, s), s.h # 0
  PROVE  SccOK(g, d, SccStep(d, s)) /\ SccStep(d, s).h = s.h - 1
<1> DEFINE r == RestoreCross(d, s)
<1>1. SearchDone(g, d) /\ IsScc(s) /\ s.h \in Numbers(g) /\ s.h - 1 \in 0..NumBlocks(g)
      /\ RepOK(g, d, s.h, s.rep) /\ PredsOK(g, d, s.h, s.rep, s.nonback)
  <2>1. NumBlocks(g) \in Nat
    BY SearchTypes DEF SccOK, SearchDone, SearchInv
  <2> QED BY <2>1 DEF SccOK, Numbers
<1>2. IsScc(r) /\ r.h = s.h /\ r.rep = s.rep /\ r.nonback = Restored(d, s.h, s.rep, s.nonback)
  BY <1>1, RestoreEffect DEF Restored
<1>3. Trying(g, d, s.h, r.rep, r.nonback)
  BY <1>1, <1>2, RestoreKeeps
<1> DEFINE new == Merged(s.h, r.rep, Nested(d, s.h, r.rep, r.nonback))
<1>4. RepOK(g, d, s.h - 1, new) /\ PredsOK(g, d, s.h - 1, new, r.nonback)
  BY <1>3, MergeKeeps
<1> HIDE DEF r
<1>5. LET t == SccStep(d, s) IN IsScc(t) /\ t.h = s.h - 1 /\ t.nonback = r.nonback /\ t.rep = new
  <2>1. CASE d.back[s.h] = {}
    <3>1. SccStep(d, s) = TrivialScc(r)
      BY <2>1 DEF SccStep, r
    <3>2. new = r.rep
      BY <1>3, <2>1, NothingNested
    <3> HIDE DEF new
    <3> QED BY <1>2, <3>1, <3>2, TrivialEffect
  <2>2. CASE d.back[s.h] # {}
    <3>1. SccStep(d, s) = ComponentScc(d, r)
      BY <2>2 DEF SccStep, r
    <3> QED BY <1>2, <3>1, ComponentEffect
  <2> QED BY <2>1, <2>2
<1> HIDE DEF new
<1> QED BY <1>1, <1>4, <1>5 DEF SccOK
------------------------------------------------------------------------------
(* The inductive invariant of the construction.                             *)
SearchPhases == {"dfs", "scc", "toplevel", "outer", "done"}

BuildInv ==
  /\ cfg \in InputGraphs
  /\ phase \in SearchPhases
  /\ phase = "dfs" => SearchInv(cfg, dfs)
  /\ phase \in {"scc", "toplevel", "outer"} => SccOK(cfg, dfs, scc)
  /\ phase = "scc" => scc.h # 0

LEMMA InputIsGraph == ASSUME NEW g \in InputGraphs PROVE IsGraph(g)
BY GraphsFinite DEF IsGraph

LEMMA SccTop == ASSUME NEW g, NEW d, NEW s, SccOK(g, d, s) PROVE SccOK(g, d, Toplevel(s))
<1>1. SameSearch(s, Toplevel(s))
  BY TopSame DEF SccOK
<1> QED BY <1>1 DEF SccOK, SameSearch

LEMMA BuildInit == Init => BuildInv
<1> SUFFICES ASSUME Init PROVE BuildInv
  OBVIOUS
<1>1. cfg \in InputGraphs /\ IsGraph(cfg)
  BY InputIsGraph DEF Init
<1>2. SearchInv(cfg, InitDfs(cfg))
  BY <1>1, SearchInit
<1> QED BY <1>1, <1>2 DEF Init, BuildInv, SearchPhases

LEMMA BuildStep == BuildInv /\ [Next]_vars => BuildInv'
<1> SUFFICES ASSUME BuildInv, [Next]_vars PROVE BuildInv'
  OBVIOUS
<1>1. cfg \in InputGraphs /\ IsGraph(cfg)
  BY InputIsGraph DEF BuildInv
<1>2. CASE SearchFinish
  <2>1. SearchInv(cfg, dfs) /\ dfs.stack # <<>> /\ Head(dfs.stack).finished
    BY <1>2 DEF SearchFinish, BuildInv, Top
  <2>2. SearchInv(cfg, dfs')
    BY <1>1, <1>2, <2>1, FinishKeeps DEF SearchFinish
  <2> QED BY <1>2, <2>2 DEF SearchFinish, BuildInv, SearchPhases
<1>3. CASE SearchSkip
  <2>1. SearchInv(cfg, dfs) /\ dfs.stack # <<>> /\ ~ Head(dfs.stack).finished
        /\ dfs.dfn[Head(dfs.stack).vertex] # 0
    BY <1>3 DEF SearchSkip, BuildInv, Top
  <2>2. SearchInv(cfg, dfs')
    BY <1>1, <1>3, <2>1, SkipKeeps DEF SearchSkip
  <2> QED BY <1>3, <2>2 DEF SearchSkip, BuildInv, SearchPhases
<1>4. CASE SearchDiscover
  <2>1. CanDiscover(cfg, dfs)
    BY <1>1, <1>4 DEF SearchDiscover, BuildInv, Top, CanDiscover
  <2>2. SearchInv(cfg, dfs')
    BY <1>4, <2>1, DiscoverKeeps DEF SearchDiscover
  <2> QED BY <1>4, <2>2 DEF SearchDiscover, BuildInv, SearchPhases
<1>5. CASE SearchEnd
  <2>1. SearchDone(cfg, dfs)
    BY <1>1, <1>5 DEF SearchEnd, BuildInv, SearchDone
  <2>2. SccOK(cfg, dfs, InitScc(dfs)) /\ InitScc(dfs).h # 0
    <3>1. SccOK(cfg, dfs, InitScc(dfs))
      BY <2>1, SccInitOK
    <3>2. DOMAIN dfs.back = 1..NumBlocks(cfg) /\ NumBlocks(cfg) \in Nat /\ NumBlocks(cfg) >= 1
      BY <1>1, <2>1, SearchTypes DEF SearchDone, SearchInv, SearchStates, Numbers
    <3>3. Cardinality(1..NumBlocks(cfg)) = NumBlocks(cfg)
      BY <3>2, FS_Interval
    <3>4. InitScc(dfs).h = NumBlocks(cfg)
      BY <3>2, <3>3, InitSame
    <3> QED BY <3>1, <3>2, <3>4
  <2> QED BY <1>1, <1>5, <2>2 DEF SearchEnd, BuildInv, SearchPhases
<1>6. CASE NextHead
  <2>1. SccOK(cfg, dfs, scc) /\ scc.h # 0
    BY <1>6 DEF NextHead, BuildInv
  <2>2. SccOK(cfg, dfs, scc')
    BY <1>6, <2>1, SccStepOK DEF NextHead
  <2> QED BY <1>1, <1>6, <2>2 DEF NextHead, BuildInv, SearchPhases
<1>7. CASE OrderToplevel
  <2>1. SccOK(cfg, dfs, scc)
    BY <1>7 DEF OrderToplevel, BuildInv
  <2>2. SccOK(cfg, dfs, scc')
    BY <1>7, <2>1, SccTop DEF OrderToplevel
  <2> QED BY <1>1, <1>7, <2>2 DEF OrderToplevel, BuildInv, SearchPhases
<1>8. CASE CountOuterPreds
  BY <1>1, <1>8 DEF CountOuterPreds, BuildInv, SearchPhases
<1>9. CASE UNCHANGED vars
  BY <1>9 DEF vars, BuildInv
<1> QED BY <1>2, <1>3, <1>4, <1>5, <1>6, <1>7, <1>8, <1>9 DEF Next

(* RepOK is PartitionExact, in the words of the proof.                      *)
LEMMA BuildPartition == BuildInv => PartitionExact
<1> SUFFICES ASSUME BuildInv, phase \in {"scc", "toplevel", "outer"}, NEW v \in Vertices
             PROVE  scc.rep[v] = IF v <= scc.h THEN v ELSE Min(SccFrom(scc.h + 1, v))
  BY DEF PartitionExact
<1> DEFINE h == scc.h + 1
           W == {u \in Vertices : u >= h}
<1>1. SccOK(cfg, dfs, scc) /\ Vertices = Numbers(cfg)
  BY DEF BuildInv, Vertices, Numbers
<1>2. \A u, t \in Vertices : <<u, t>> \in Edges <=> IsEdge(cfg, dfs, u, t)
  BY DEF Edges, IsEdge
<1>3. W = From(cfg, h)
  BY <1>1 DEF From
<1>4. [u \in W |-> {t \in W : <<u, t>> \in Edges}] = Out(cfg, dfs, h)
  <2>1. \A u \in W : {t \in W : <<u, t>> \in Edges} = {t \in W : IsEdge(cfg, dfs, u, t)}
    BY <1>2
  <2> HIDE DEF W, h
  <2>2. [u \in W |-> {t \in W : <<u, t>> \in Edges}] = [u \in W |-> {t \in W : IsEdge(cfg, dfs, u, t)}]
    BY <2>1
  <2> QED BY <1>3, <2>2 DEF Out
<1>5. [u \in W |-> {t \in W : <<t, u>> \in Edges}] = In(cfg, dfs, h)
  <2>1. \A u \in W : {t \in W : <<t, u>> \in Edges} = {t \in W : IsEdge(cfg, dfs, t, u)}
    BY <1>2
  <2> HIDE DEF W, h
  <2>2. [u \in W |-> {t \in W : <<t, u>> \in Edges}] = [u \in W |-> {t \in W : IsEdge(cfg, dfs, t, u)}]
    BY <2>1
  <2> QED BY <1>3, <2>2 DEF In
<1>6. SccFrom(h, v) = Scc(cfg, dfs, h, v)
  BY <1>4, <1>5 DEF SccFrom, Scc
<1> QED BY <1>1, <1>6 DEF SccOK, RepOK

(* In every state of the depth-first search: what it stores as back edges   *)
(* lead to an ancestor, what it stores as cross edges is stored at the      *)
(* lowest common ancestor of its ends, every other edge out of a discovered *)
(* block leads to a descendant or waits on the stack, and the descendants   *)
(* of a vertex are numbered consecutively (construct_auxilary).             *)
THEOREM SearchClassifies == Spec => [](phase = "dfs" => SearchInv(cfg, dfs))
<1>1. BuildInv => (phase = "dfs" => SearchInv(cfg, dfs))
  BY DEF BuildInv
<1> QED BY <1>1, BuildInit, BuildStep, PTL DEF Spec

(* The components that construct_wpo has found before it tries the head h   *)
(* are the strongly connected components of the vertices after h, for every *)
(* control flow graph, with irreducible loops and blocks that cannot be     *)
(* reached: restoring the cross edges at their lowest common ancestor gives *)
(* the backward search all the edges that it needs.                         *)
THEOREM PartitionIsExact == Spec => []PartitionExact
BY BuildInit, BuildStep, BuildPartition, PTL DEF Spec
==============================================================================
