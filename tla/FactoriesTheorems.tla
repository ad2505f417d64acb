--------------------------- MODULE FactoriesTheorems ---------------------------
(****************************************************************************)
(* What is proved of the shared factories, for any number of workers, all   *)
(* tables, statements and constructors: each key has one object.            *)
(****************************************************************************)
EXTENDS Factories, SequenceTheorems, TLAPS

(* An entry is the only one of its key.                                     *)
TableOK ==
  /\ \A e \in table : e = Entry(e.table, e.key, e.object)
  /\ \A e, f \in table : e.table = f.table /\ e.key = f.key => e = f
  /\ \A p \in Preexisting : Found(p[1], <<p[2], 0>>) # {}

ItemsOf(s) == {s[i] : i \in DOMAIN s}

(* What an activation is made of.                                           *)
IsActivation(a) ==
  /\ a = [what |-> a.what, key |-> a.key, sign |-> a.sign, todo |-> a.todo,
          results |-> a.results, state |-> a.state]
  /\ a.todo \in Seq(AskedBy(a.what))
  /\ a.state \in {"called", "making", "absent"}

(* A worker analyzes a statement; all calls but the innermost one make an   *)
(* object.                                                                  *)
StackOK(w) ==
  LET s == stack[w]
  IN  /\ s \in Seq(ItemsOf(s))
      /\ \A i \in 1..Len(s) :
           /\ IsActivation(s[i])
           /\ s[i].what \in IF i = 1 THEN Statements ELSE Tables
           /\ i # 1 /\ i # Len(s) => s[i].state = "making"

(* A worker that makes an object holds the mutex of its table, the object   *)
(* is not there, and no other one of the same table is made.                *)
MakingOK(w) ==
  LET s == stack[w]
  IN  \A i \in 1..Len(s) : s[i].state = "making" =>
        /\ s[i].what \in Locked
        /\ owner[s[i].what] = w
        /\ Found(s[i].what, s[i].key) = {}
        /\ \A j \in 1..Len(s) : s[j].state = "making" /\ s[j].what = s[i].what => j = i

(* A type is asked for by the statement or the constructor below.  A        *)
(* guarded one that was looked up in vain is still absent.                  *)
TypesOK(w) ==
  LET s == stack[w]
  IN  \A i \in 1..Len(s) :
        /\ s[i].what \in Interned => \E r \in AskedBy(s[i - 1].what) :
                                       s[i].what = r.table /\ s[i].key = <<r.arg, 0>>
        /\ s[i].state = "absent" =>
             /\ s[i].what \in Interned
             /\ Guarded(s[i].what, s[i].key) => Found(s[i].what, s[i].key) = {}

(* What is handed out was asked for, and is in the table if it is guarded.  *)
HandedOK ==
  \A h \in handed :
    /\ h.table \in Tables
    /\ h.table \in Interned =>
         \E what \in Statements \cup Tables : \E r \in AskedBy(what) :
           h.table = r.table /\ h.key = <<r.arg, 0>>
    /\ Guarded(h.table, h.key) => HasOneObject(h.table, h.key, h.object)

FactoriesInv ==
  /\ TableOK
  /\ owner \in [Locked -> Workers \cup {Nobody}]
  /\ DOMAIN stack = Workers
  /\ \A w \in Workers : StackOK(w) /\ MakingOK(w) /\ TypesOK(w)
  /\ HandedOK

------------------------------------------------------------------------------
(* Stacks.                                                                  *)

LEMMA OwnRange ==
  ASSUME NEW S, NEW s \in Seq(S)
  PROVE  s \in Seq(ItemsOf(s))
<1>1. DOMAIN s = 1..Len(s) /\ Len(s) \in Nat
  BY LenProperties
<1>2. s \in [1..Len(s) -> ItemsOf(s)]
  BY <1>1, IsASeq DEF ItemsOf
<1> QED  BY <1>1, <1>2, SeqDef

LEMMA FrontOf ==
  ASSUME NEW S, NEW s \in Seq(S), Len(s) > 0
  PROVE  LET front == SubSeq(s, 1, Len(s) - 1)
         IN  /\ front \in Seq(S) /\ Len(front) = Len(s) - 1
             /\ \A i \in 1..(Len(s) - 1) : front[i] = s[i]
<1>1. Len(s) \in Nat /\ \A i \in 1..(Len(s) - 1) : s[i] \in S
  BY LenProperties, ElementOfSeq
<1> DEFINE k == Len(s) - 1
           front == SubSeq(s, 1, k)
<1>2. k \in Nat /\ \A i \in 1..k : s[i] \in S
  BY <1>1
<1> HIDE DEF k
<1>3. /\ front \in Seq(S) /\ Len(front) = IF 1 <= k THEN k - 1 + 1 ELSE 0
      /\ \A i \in 1..(k - 1 + 1) : front[i] = s[1 + i - 1]
  BY <1>2, SubSeqProperties
<1> HIDE DEF front
<1>4. Len(front) = k /\ \A i \in 1..k : front[i] = s[i]
  BY <1>2, <1>3
<1> QED  BY <1>3, <1>4 DEF front, k

(* The innermost activation is replaced.                                    *)
LEMMA TopReplaced ==
  ASSUME NEW S, NEW s \in Seq(S), Len(s) > 0, NEW a
  PROVE  LET r == SubSeq(s, 1, Len(s) - 1) \o <<a>>
         IN  /\ r \in Seq(ItemsOf(r)) /\ Len(r) = Len(s) /\ r[Len(s)] = a
             /\ \A i \in 1..Len(s) : i # Len(s) => r[i] = s[i]
<1> DEFINE T == S \cup {a}
           front == SubSeq(s, 1, Len(s) - 1)
           r == front \o <<a>>
<1>1. s \in Seq(T) /\ <<a>> \in Seq(T) /\ Len(s) \in Nat
  BY SeqMonotonic, LenProperties
<1>2. front \in Seq(T) /\ Len(front) = Len(s) - 1 /\ \A i \in 1..(Len(s) - 1) : front[i] = s[i]
  BY <1>1, FrontOf
<1> HIDE DEF front, T
<1>3. /\ r \in Seq(T) /\ Len(r) = Len(s) /\ r[Len(s)] = a
      /\ \A i \in 1..(Len(s) - 1) : r[i] = front[i]
  BY <1>1, <1>2, ConcatProperties
<1>4. r \in Seq(ItemsOf(r))
  BY <1>3, OwnRange
<1> HIDE DEF r
<1>5. \A i \in 1..Len(s) : i # Len(s) => r[i] = s[i]
  BY <1>1, <1>2, <1>3
<1> QED  BY <1>3, <1>4, <1>5 DEF r, front

(* It is replaced and makes a call.                                         *)
TopAndCall(s, a, b) == SubSeq(s, 1, Len(s) - 1) \o <<a, b>>

LEMMA TopCalls ==
  ASSUME NEW S, NEW s \in Seq(S), Len(s) > 0, NEW a, NEW b
  PROVE  LET r == TopAndCall(s, a, b)
         IN  /\ r \in Seq(ItemsOf(r))
             /\ Len(r) = Len(s) + 1 /\ r[Len(s)] = a /\ r[Len(s) + 1] = b
             /\ \A i \in 1..Len(s) : i # Len(s) => r[i] = s[i]
<1> DEFINE T == S \cup {a, b}
           front == SubSeq(s, 1, Len(s) - 1)
           r == TopAndCall(s, a, b)
<1>1. s \in Seq(T) /\ <<a, b>> \in Seq(T) /\ Len(s) \in Nat
  BY SeqMonotonic, LenProperties
<1>2. front \in Seq(T) /\ Len(front) = Len(s) - 1 /\ \A i \in 1..(Len(s) - 1) : front[i] = s[i]
  BY <1>1, FrontOf
<1> HIDE DEF front, T
<1>3. /\ r \in Seq(T) /\ Len(r) = Len(s) + 1 /\ r[Len(s)] = a /\ r[Len(s) + 1] = b
      /\ \A i \in 1..(Len(s) - 1) : r[i] = front[i]
  <2>1. r = front \o <<a, b>>
    BY DEF TopAndCall, front
  <2> HIDE DEF r
  <2> QED  BY <1>1, <1>2, <2>1, ConcatProperties
<1>4. r \in Seq(ItemsOf(r))
  BY <1>3, OwnRange
<1> HIDE DEF r
<1>5. \A i \in 1..Len(s) : i # Len(s) => r[i] = s[i]
  BY <1>1, <1>2, <1>3
<1> QED  BY <1>3, <1>4, <1>5 DEF r

(* It returns to the one below.                                             *)
LEMMA TopReturns ==
  ASSUME NEW S, NEW s \in Seq(S), Len(s) > 1, NEW a
  PROVE  LET below == SubSeq(s, 1, Len(s) - 1)
             r == SubSeq(below, 1, Len(below) - 1) \o <<a>>
         IN  /\ r \in Seq(ItemsOf(r)) /\ Len(r) = Len(s) - 1 /\ r[Len(r)] = a
             /\ below[Len(below)] = s[Len(s) - 1]
             /\ \A i \in 1..Len(r) : i # Len(r) => r[i] = s[i]
<1> DEFINE below == SubSeq(s, 1, Len(s) - 1)
           r == SubSeq(below, 1, Len(below) - 1) \o <<a>>
<1>1. Len(s) \in Nat
  BY LenProperties
<1>2. below \in Seq(S) /\ Len(below) = Len(s) - 1 /\ \A i \in 1..(Len(s) - 1) : below[i] = s[i]
  BY <1>1, FrontOf
<1> HIDE DEF below
<1>a. Len(below) > 0
  BY <1>1, <1>2
<1>3. /\ r \in Seq(ItemsOf(r)) /\ Len(r) = Len(below) /\ r[Len(below)] = a
      /\ \A i \in 1..Len(below) : i # Len(below) => r[i] = below[i]
  BY <1>2, <1>a, TopReplaced
<1> HIDE DEF r
<1>4. below[Len(below)] = s[Len(s) - 1] /\ \A i \in 1..Len(r) : i # Len(r) => r[i] = s[i]
  BY <1>1, <1>2, <1>3
<1> QED  BY <1>2, <1>3, <1>4 DEF r, below
------------------------------------------------------------------------------
(* What a step leaves of the invariant.                                     *)

WorkerOK(w) == StackOK(w) /\ MakingOK(w) /\ TypesOK(w)

(* The keys that are not in their table: of the object that is made, or of  *)
(* a guarded type that was looked up in vain.                               *)
MustBeAbsent(a) ==
  a.state = "making" \/ (a.state = "absent" /\ Guarded(a.what, a.key))

FoundAfter(t, k) == {e \in table' : e.table = t /\ e.key = k}

(* A worker that does nothing, whose mutexes stay and whose absent objects  *)
(* stay absent.                                                             *)
LEMMA OtherWorker ==
  ASSUME NEW w \in Workers, WorkerOK(w), stack'[w] = stack[w],
         \A i \in 1..Len(stack[w]) :
           /\ stack[w][i].state = "making" => owner'[stack[w][i].what] = w
           /\ MustBeAbsent(stack[w][i]) =>
                FoundAfter(stack[w][i].what, stack[w][i].key) = {}
  PROVE  WorkerOK(w)'
<1>1. StackOK(w)'
  BY DEF WorkerOK, StackOK, IsActivation
<1>2. MakingOK(w)'
  BY DEF WorkerOK, MakingOK, Found, FoundAfter, MustBeAbsent
<1>3. TypesOK(w)'
  BY DEF WorkerOK, TypesOK, Found, FoundAfter, MustBeAbsent
<1> QED  BY <1>1, <1>2, <1>3 DEF WorkerOK

(* The places of a stack.                                                   *)
LEMMA Places ==
  ASSUME NEW w \in Workers, WorkerOK(w)
  PROVE  /\ Len(stack[w]) \in Nat /\ DOMAIN stack[w] = 1..Len(stack[w])
         /\ stack[w] # <<>> <=> Len(stack[w]) > 0
         /\ stack[w] # <<>> => Len(stack[w]) \in 1..Len(stack[w]) /\ IsActivation(Top(w))
         /\ Len(stack[w]) > 1 => Len(stack[w]) - 1 \in 1..Len(stack[w])
         /\ stack[w] # <<>> /\ Top(w).what \in Tables => Len(stack[w]) > 1
<1>1. stack[w] \in Seq(ItemsOf(stack[w]))
  BY DEF WorkerOK, StackOK
<1>2. /\ Len(stack[w]) \in Nat /\ DOMAIN stack[w] = 1..Len(stack[w])
      /\ stack[w] # <<>> <=> Len(stack[w]) > 0
  BY <1>1, LenProperties, EmptySeq
<1>3. stack[w] # <<>> => Len(stack[w]) \in 1..Len(stack[w]) /\ IsActivation(Top(w))
  BY <1>2 DEF WorkerOK, StackOK, Top
<1>4. stack[w] # <<>> /\ Top(w).what \in Tables => Len(stack[w]) > 1
  BY <1>2, RequestsWellFormed DEF WorkerOK, StackOK, Top
<1> QED  BY <1>2, <1>3, <1>4

(* What a return does to the stack.                                         *)
LEMMA ReturnEffect ==
  ASSUME FactoriesInv, NEW w \in Workers, stack[w] # <<>>, Top(w).what \in Tables,
         NEW object, Return(w, object)
  PROVE  LET s == stack[w]  r == stack'[w]  n == Len(s) - 1
         IN  /\ Len(s) > 1 /\ Len(r) = n /\ n \in 1..Len(s) /\ n # Len(s)
             /\ r \in Seq(ItemsOf(r))
             /\ \A i \in 1..n : i # n => r[i] = s[i]
             /\ r[n] = [s[n] EXCEPT !.results = Append(@, object.id)]
             /\ \A v \in Workers \ {w} : stack'[v] = stack[v]
             /\ DOMAIN stack' = Workers
             /\ handed' = handed \cup
                  {[table |-> Top(w).what, key |-> Top(w).key, object |-> object]}
<1> DEFINE s == stack[w]
           caller == Below(w)[Len(Below(w))]
           called == [caller EXCEPT !.results = Append(@, object.id)]
           r == SubSeq(Below(w), 1, Len(Below(w)) - 1) \o <<called>>
<1>1. DOMAIN stack = Workers /\ WorkerOK(w)
  BY DEF FactoriesInv, WorkerOK
<1>2. Len(s) \in Nat /\ Len(s) > 1 /\ s \in Seq(ItemsOf(s))
  BY <1>1, Places DEF WorkerOK, StackOK
<1>3. /\ r \in Seq(ItemsOf(r)) /\ Len(r) = Len(s) - 1 /\ r[Len(r)] = called
      /\ caller = s[Len(s) - 1]
      /\ \A i \in 1..Len(r) : i # Len(r) => r[i] = s[i]
  <2> DEFINE S == ItemsOf(s)
  <2>1. s \in Seq(S) /\ Len(s) > 1
    BY <1>2
  <2> HIDE DEF called, s, S
  <2>2. LET below == SubSeq(s, 1, Len(s) - 1)
            q == SubSeq(below, 1, Len(below) - 1) \o <<called>>
        IN  /\ q \in Seq(ItemsOf(q)) /\ Len(q) = Len(s) - 1 /\ q[Len(q)] = called
            /\ below[Len(below)] = s[Len(s) - 1]
            /\ \A i \in 1..Len(q) : i # Len(q) => q[i] = s[i]
    BY <2>1, TopReturns
  <2> QED  BY <2>2 DEF Below, s
<1>4. /\ stack' = [stack EXCEPT ![w] = r]
      /\ handed' = handed \cup
           {[table |-> Top(w).what, key |-> Top(w).key, object |-> object]}
  BY DEF Return, called
<1> HIDE DEF r
<1>5. /\ stack'[w] = r /\ DOMAIN stack' = Workers
      /\ \A v \in Workers \ {w} : stack'[v] = stack[v]
  BY <1>1, <1>4
<1>6. called = [s[Len(s) - 1] EXCEPT !.results = Append(@, object.id)]
  BY <1>3 DEF called
<1>7. Len(s) - 1 \in 1..Len(s) /\ Len(s) - 1 # Len(s)
  BY <1>2
<1> HIDE DEF caller
<1> QED  BY <1>2, <1>3, <1>4, <1>5, <1>6, <1>7

(* The worker that returns: the makings below keep their mutexes and their  *)
(* objects stay absent.                                                     *)
LEMMA ReturnWorker ==
  ASSUME FactoriesInv, NEW w \in Workers, stack[w] # <<>>, Top(w).what \in Tables,
         NEW object, Return(w, object),
         \A i \in 1..(Len(stack[w]) - 1) : stack[w][i].state = "making" =>
           /\ owner'[stack[w][i].what] = w
           /\ FoundAfter(stack[w][i].what, stack[w][i].key) = {}
  PROVE  WorkerOK(w)'
<1> DEFINE s == stack[w]
           r == stack'[w]
           n == Len(s) - 1
<1>1. WorkerOK(w) /\ Len(s) \in Nat
  BY Places DEF FactoriesInv, WorkerOK
<1>2. /\ Len(s) > 1 /\ Len(r) = n /\ n \in 1..Len(s) /\ n # Len(s)
      /\ r \in Seq(ItemsOf(r))
      /\ \A i \in 1..n : i # n => r[i] = s[i]
      /\ r[n] = [s[n] EXCEPT !.results = Append(@, object.id)]
  BY ReturnEffect
<1>3. IsActivation(s[n])
  BY <1>1, <1>2 DEF WorkerOK, StackOK
<1>4. /\ IsActivation(r[n]) /\ r[n].what = s[n].what /\ r[n].key = s[n].key
      /\ r[n].state = s[n].state
  BY <1>2, <1>3 DEF IsActivation
<1>5. \A i \in 1..n : /\ i \in 1..Len(s) /\ i # Len(s) /\ IsActivation(r[i])
                      /\ r[i].what = s[i].what /\ r[i].key = s[i].key
                      /\ r[i].state = s[i].state
  <2>1. \A i \in 1..n : i \in 1..Len(s) /\ i # Len(s)
    BY <1>1
  <2>2. \A i \in 1..n : i # n => IsActivation(r[i]) /\ r[i] = s[i]
    BY <1>1, <1>2, <2>1 DEF WorkerOK, StackOK
  <2> QED  BY <1>4, <2>1, <2>2
<1>6. \A i \in 1..n : i # 1 => i - 1 \in 1..n
  BY <1>1
<1>7. StackOK(w)'
  BY <1>1, <1>2, <1>5 DEF WorkerOK, StackOK, IsActivation
<1>8. MakingOK(w)'
  <2>1. ASSUME NEW i \in 1..n, r[i].state = "making"
        PROVE  /\ r[i].what \in Locked /\ owner'[r[i].what] = w
               /\ FoundAfter(r[i].what, r[i].key) = {}
               /\ \A j \in 1..n : r[j].state = "making" /\ r[j].what = r[i].what => j = i
    BY <1>1, <1>5, <2>1 DEF WorkerOK, MakingOK
  <2> QED  BY <1>2, <2>1 DEF MakingOK, Found, FoundAfter
<1>9. TypesOK(w)'
  <2>1. ASSUME NEW i \in 1..n, s[i].what \in Interned PROVE i # 1
    BY <1>1, <1>2, <1>5, <2>1, RequestsWellFormed DEF WorkerOK, StackOK, Tables
  <2>2. \A i \in 1..n : s[i].state # "absent"
    BY <1>1, <1>2, <1>5, RequestsWellFormed DEF WorkerOK, StackOK, TypesOK, Tables
  <2>3. ASSUME NEW i \in 1..n, r[i].what \in Interned
        PROVE  \E q \in AskedBy(r[i - 1].what) : r[i].what = q.table /\ r[i].key = <<q.arg, 0>>
    <3>1. i - 1 \in 1..n /\ s[i].what \in Interned /\ i \in 1..Len(s)
      BY <1>5, <1>6, <2>1, <2>3
    <3>2. r[i - 1].what = s[i - 1].what /\ r[i].what = s[i].what /\ r[i].key = s[i].key
      BY <1>5, <3>1
    <3> QED  BY <1>1, <3>1, <3>2 DEF WorkerOK, TypesOK
  <2>4. \A i \in 1..n : r[i].state # "absent"
    BY <1>5, <2>2
  <2> QED  BY <1>2, <2>3, <2>4 DEF TypesOK
<1> QED  BY <1>7, <1>8, <1>9 DEF WorkerOK

(* A step of worker w that returns nothing.                                 *)
LEMMA NothingReturned ==
  ASSUME FactoriesInv, NEW w \in Workers, WorkerOK(w)',
         UNCHANGED <<table, handed>>, owner' \in [Locked -> Workers \cup {Nobody}],
         DOMAIN stack' = Workers, \A v \in Workers \ {w} : stack'[v] = stack[v],
         \A t \in Locked : owner[t] \in Workers \ {w} => owner'[t] = owner[t]
  PROVE  FactoriesInv'
<1>1. ASSUME NEW v \in Workers, v # w PROVE WorkerOK(v)'
  <2>1. WorkerOK(v) /\ stack'[v] = stack[v]
    BY <1>1 DEF FactoriesInv, WorkerOK
  <2>2. \A i \in 1..Len(stack[v]) :
          /\ stack[v][i].state = "making" => owner'[stack[v][i].what] = v
          /\ MustBeAbsent(stack[v][i]) =>
               FoundAfter(stack[v][i].what, stack[v][i].key) = {}
    BY <1>1, <2>1 DEF WorkerOK, MakingOK, TypesOK, Found, FoundAfter, MustBeAbsent
  <2> QED  BY <2>1, <2>2, OtherWorker
<1>2. TableOK' /\ HandedOK'
  BY DEF FactoriesInv, TableOK, HandedOK, HasOneObject, Found, Entry
<1> QED  BY <1>1, <1>2 DEF FactoriesInv, WorkerOK

LEMMA AnalyzeStep ==
  ASSUME FactoriesInv, NEW w \in Workers, NEW s \in Statements, Analyze(w, s)
  PROVE  FactoriesInv'
<1> DEFINE a == Activation(s, <<None, 0>>, None, RequestsOf[s])
<1>1. DOMAIN stack = Workers /\ stack' = [stack EXCEPT ![w] = <<a>>]
  BY DEF FactoriesInv, Analyze
<1>2. IsActivation(a) /\ a.what = s /\ a.state = "called"
  BY RequestsWellFormed DEF Activation, IsActivation
<1> HIDE DEF a
<1>3. stack'[w] = <<a>> /\ <<a>> \in Seq(ItemsOf(<<a>>)) /\ Len(<<a>>) = 1 /\ <<a>>[1] = a
  <2>1. <<a>> \in Seq({a})
    OBVIOUS
  <2> QED  BY <1>1, <2>1, OwnRange
<1>4. WorkerOK(w)'
  <2>1. StackOK(w)'
    BY <1>2, <1>3 DEF StackOK, IsActivation
  <2>2. MakingOK(w)' /\ TypesOK(w)'
    BY <1>2, <1>3, RequestsWellFormed DEF MakingOK, TypesOK, Tables
  <2> QED  BY <2>1, <2>2 DEF WorkerOK
<1> QED  BY <1>1, <1>4, NothingReturned DEF Analyze, FactoriesInv

LEMMA LeaveStep ==
  ASSUME FactoriesInv, NEW w \in Workers, Leave(w)
  PROVE  FactoriesInv'
<1>1. DOMAIN stack = Workers /\ stack' = [stack EXCEPT ![w] = <<>>]
  BY DEF FactoriesInv, Leave
<1>2. stack'[w] = <<>> /\ <<>> \in Seq(ItemsOf(<<>>)) /\ Len(<<>>) = 0
  BY <1>1
<1>3. WorkerOK(w)'
  BY <1>2 DEF WorkerOK, StackOK, MakingOK, TypesOK
<1> QED  BY <1>1, <1>3, NothingReturned DEF Leave, FactoriesInv

(* The request is well-formed, and the call is one of the table's.          *)
LEMMA MakeRequestStep ==
  ASSUME FactoriesInv, NEW w \in Workers, MakeRequest(w)
  PROVE  FactoriesInv'
<1> DEFINE s == stack[w]
           n == Len(s)
           a == Top(w)
           q == Head(a.todo)
           asked == [a EXCEPT !.todo = Tail(a.todo)]
           called == Activation(q.table, KeyOf(a, q), q.sign, ConstructionOf[q.table][q.arg])
           r == stack'[w]
<1>1. /\ DOMAIN stack = Workers /\ WorkerOK(w) /\ s # <<>>
      /\ a.what \in Statements \/ a.state = "making"
      /\ a.todo # <<>>
      /\ stack' = [stack EXCEPT ![w] = SubSeq(s, 1, n - 1) \o <<asked, called>>]
  BY DEF FactoriesInv, WorkerOK, MakeRequest, Below
<1>2. n \in Nat /\ n > 0 /\ n \in 1..n /\ IsActivation(a) /\ a = s[n]
  BY <1>1, Places DEF Top
<1>3. a.what \in Statements \cup Tables
  BY <1>1, <1>2 DEF WorkerOK, StackOK
<1>4. q \in AskedBy(a.what) /\ Tail(a.todo) \in Seq(AskedBy(a.what))
  BY <1>1, <1>2, HeadTailProperties DEF IsActivation
<1>5. /\ q.table \in Tables /\ q.arg \in DOMAIN ConstructionOf[q.table]
      /\ ConstructionOf[q.table][q.arg] \in Seq(AskedBy(q.table))
  BY <1>3, <1>4, RequestsWellFormed
<1>6. /\ IsActivation(asked) /\ asked.what = a.what /\ asked.key = a.key
      /\ asked.state = a.state
  <2> DEFINE rest == Tail(a.todo)
  <2>1. IsActivation(a) /\ rest \in Seq(AskedBy(a.what))
    BY <1>2, <1>4
  <2> HIDE DEF rest, a
  <2>2. asked = [a EXCEPT !.todo = rest]
    BY DEF rest
  <2> HIDE DEF asked
  <2> QED  BY <2>1, <2>2 DEF IsActivation
<1>7. IsActivation(called) /\ called.what = q.table /\ called.state = "called"
  BY <1>5 DEF Activation, IsActivation
<1>8. q.table \in Interned => called.key = <<q.arg, 0>>
  BY <1>3, <1>4, RequestsWellFormed DEF Activation, KeyOf
<1>9. /\ r \in Seq(ItemsOf(r)) /\ Len(r) = n + 1 /\ r[n] = asked /\ r[n + 1] = called
      /\ \A i \in 1..n : i # n => r[i] = s[i]
  <2> HIDE DEF asked, called
  <2>1. s \in Seq(ItemsOf(s)) /\ r = SubSeq(s, 1, n - 1) \o <<asked, called>>
    BY <1>1 DEF WorkerOK, StackOK
  <2>2. n > 0
    BY <1>2
  <2>3. r = TopAndCall(s, asked, called)
    BY <2>1 DEF TopAndCall
  <2> DEFINE S == ItemsOf(s)
  <2>4. s \in Seq(S) /\ Len(s) > 0
    BY <2>1, <2>2
  <2> HIDE DEF r, s, S
  <2>5. LET p == TopAndCall(s, asked, called)
        IN  /\ p \in Seq(ItemsOf(p))
            /\ Len(p) = Len(s) + 1 /\ p[Len(s)] = asked /\ p[Len(s) + 1] = called
            /\ \A i \in 1..Len(s) : i # Len(s) => p[i] = s[i]
    BY <2>4, TopCalls
  <2> QED  BY <2>3, <2>5
<1>10. \A i \in 1..n : /\ IsActivation(r[i]) /\ r[i].what = s[i].what
                       /\ r[i].key = s[i].key /\ r[i].state = s[i].state
  <2>1. \A i \in 1..n : IsActivation(s[i])
    BY <1>1 DEF WorkerOK, StackOK
  <2> HIDE DEF asked, called, a, r
  <2> QED  BY <1>2, <1>6, <1>9, <2>1
<1> HIDE DEF asked, called, q, r
<1>11. \A i \in 1..(n + 1) : i = n + 1 \/ i \in 1..n
  BY <1>2
<1>12. ASSUME NEW i \in 1..n, i # 1 PROVE r[i].state = "making"
  <2>1. CASE i # n
    BY <1>1, <1>10, <1>12, <2>1 DEF WorkerOK, StackOK
  <2>2. CASE i = n
    <3>1. a.what \notin Statements
      BY <1>1, <1>2, <1>12, <2>2, RequestsWellFormed DEF WorkerOK, StackOK
    <3> QED  BY <1>1, <1>2, <1>10, <2>2, <3>1
  <2> QED  BY <2>1, <2>2
<1>13. StackOK(w)'
  <2>1. ASSUME NEW i \in 1..(n + 1)
        PROVE  /\ IsActivation(r[i])
               /\ r[i].what \in IF i = 1 THEN Statements ELSE Tables
               /\ i # 1 /\ i # n + 1 => r[i].state = "making"
    <3>1. CASE i = n + 1
      BY <1>2, <1>5, <1>7, <1>9, <3>1
    <3>2. CASE i \in 1..n
      BY <1>1, <1>10, <1>12, <3>2 DEF WorkerOK, StackOK
    <3> QED  BY <1>11, <3>1, <3>2
  <2> QED  BY <1>9, <2>1 DEF StackOK, IsActivation, r
<1>14. MakingOK(w)'
  <2>1. ASSUME NEW i \in 1..(n + 1), r[i].state = "making"
        PROVE  /\ r[i].what \in Locked /\ owner'[r[i].what] = w
               /\ FoundAfter(r[i].what, r[i].key) = {}
               /\ \A j \in 1..(n + 1) :
                    r[j].state = "making" /\ r[j].what = r[i].what => j = i
    <3>1. i \in 1..n /\ \A j \in 1..(n + 1) : r[j].state = "making" => j \in 1..n
      BY <1>7, <1>9, <1>11, <2>1
    <3>2. UNCHANGED <<table, owner>>
      BY DEF MakeRequest
    <3>3. s[i].state = "making" /\ r[i].what = s[i].what /\ r[i].key = s[i].key
      BY <1>10, <2>1, <3>1
    <3>4. /\ s[i].what \in Locked /\ owner[s[i].what] = w
          /\ Found(s[i].what, s[i].key) = {}
          /\ \A j \in 1..n : s[j].state = "making" /\ s[j].what = s[i].what => j = i
      BY <1>1, <3>1, <3>3 DEF WorkerOK, MakingOK
    <3>5. \A j \in 1..(n + 1) : r[j].state = "making" /\ r[j].what = r[i].what => j = i
      BY <1>10, <3>1, <3>3, <3>4
    <3>6. FoundAfter(r[i].what, r[i].key) = {}
      BY <3>2, <3>3, <3>4 DEF Found, FoundAfter
    <3> QED  BY <3>2, <3>3, <3>4, <3>5, <3>6
  <2> QED  BY <1>9, <2>1 DEF MakingOK, r, Found, FoundAfter
<1>15. TypesOK(w)'
  <2>1. ASSUME NEW i \in 1..(n + 1), r[i].what \in Interned
        PROVE  \E p \in AskedBy(r[i - 1].what) : r[i].what = p.table /\ r[i].key = <<p.arg, 0>>
    <3>1. CASE i = n + 1
      <4>1. i - 1 = n /\ r[i] = called /\ r[i - 1].what = a.what
        BY <1>2, <1>6, <1>9, <3>1
      <4> QED  BY <1>4, <1>7, <1>8, <2>1, <4>1
    <3>2. CASE i \in 1..n
      <4>1. i # 1
        BY <1>1, <1>10, <2>1, <3>2, RequestsWellFormed DEF WorkerOK, StackOK, Tables
      <4>2. i - 1 \in 1..n
        BY <1>2, <3>2, <4>1
      <4>3. r[i - 1].what = s[i - 1].what /\ r[i].what = s[i].what /\ r[i].key = s[i].key
        BY <1>10, <3>2, <4>2
      <4> QED  BY <1>1, <2>1, <3>2, <4>3 DEF WorkerOK, TypesOK
    <3> QED  BY <1>11, <3>1, <3>2
  <2>2. \A i \in 1..(n + 1) : r[i].state # "absent"
    <3>1. r[n + 1].state # "absent"
      BY <1>7, <1>9
    <3>2. r[1].state # "absent"
      BY <1>1, <1>2, <1>10, RequestsWellFormed DEF WorkerOK, StackOK, TypesOK, Tables
    <3> QED  BY <1>11, <1>12, <3>1, <3>2
  <2> QED  BY <1>9, <2>1, <2>2 DEF TypesOK, r
<1>16. WorkerOK(w)'
  BY <1>13, <1>14, <1>15 DEF WorkerOK
<1> QED  BY <1>1, <1>16, NothingReturned DEF MakeRequest, FactoriesInv

(* The innermost call goes on to another state.                             *)
LEMMA BecomesEffect ==
  ASSUME FactoriesInv, NEW w \in Workers, stack[w] # <<>>, Top(w).what \in Tables,
         NEW x \in {"making", "absent"}, Becomes(w, [Top(w) EXCEPT !.state = x])
  PROVE  LET s == stack[w]  r == stack'[w]  n == Len(s)
         IN  /\ n \in Nat /\ n > 1 /\ Len(r) = n
             /\ \A i \in 1..n : r[i].what = s[i].what /\ r[i].key = s[i].key
             /\ \A i \in 1..n : i # n => r[i].state = s[i].state
             /\ r[n].state = x /\ s[n] = Top(w)
             /\ \A v \in Workers \ {w} : stack'[v] = stack[v]
             /\ DOMAIN stack' = Workers
             /\ StackOK(w)'
<1> DEFINE s == stack[w]
           r == stack'[w]
           n == Len(s)
           a == [Top(w) EXCEPT !.state = x]
<1>1. DOMAIN stack = Workers /\ WorkerOK(w)
  BY DEF FactoriesInv, WorkerOK
<1>2. /\ n \in Nat /\ n > 1 /\ n \in 1..n /\ IsActivation(Top(w)) /\ s[n] = Top(w)
      /\ s \in Seq(ItemsOf(s))
  BY <1>1, Places DEF Top, WorkerOK, StackOK
<1>3. IsActivation(a) /\ a.what = Top(w).what /\ a.key = Top(w).key /\ a.state = x
  BY <1>2 DEF IsActivation
<1>4. stack' = [stack EXCEPT ![w] = SubSeq(s, 1, n - 1) \o <<a>>]
  BY DEF Becomes, Below
<1> HIDE DEF a
<1>5. /\ r = SubSeq(s, 1, n - 1) \o <<a>> /\ DOMAIN stack' = Workers
      /\ \A v \in Workers \ {w} : stack'[v] = stack[v]
  BY <1>1, <1>4
<1>6. /\ r \in Seq(ItemsOf(r)) /\ Len(r) = n /\ r[n] = a
      /\ \A i \in 1..n : i # n => r[i] = s[i]
  <2> DEFINE S == ItemsOf(s)
  <2>1. s \in Seq(S) /\ Len(s) > 0
    BY <1>2
  <2> HIDE DEF r, s, S
  <2>2. LET p == SubSeq(s, 1, Len(s) - 1) \o <<a>>
        IN  /\ p \in Seq(ItemsOf(p)) /\ Len(p) = Len(s) /\ p[Len(s)] = a
            /\ \A i \in 1..Len(s) : i # Len(s) => p[i] = s[i]
    BY <2>1, TopReplaced
  <2> QED  BY <1>5, <2>2
<1>7. \A i \in 1..n : IsActivation(s[i])
  BY <1>1 DEF WorkerOK, StackOK
<1>8. /\ \A i \in 1..n : IsActivation(r[i]) /\ r[i].what = s[i].what /\ r[i].key = s[i].key
      /\ \A i \in 1..n : i # n => r[i].state = s[i].state
  <2> HIDE DEF r, s
  <2> QED  BY <1>2, <1>3, <1>6, <1>7
<1>9. StackOK(w)'
  BY <1>1, <1>6, <1>8 DEF WorkerOK, StackOK, IsActivation
<1> QED  BY <1>2, <1>3, <1>5, <1>6, <1>8, <1>9

LEMMA StartMakingStep ==
  ASSUME FactoriesInv, NEW w \in Workers, NEW t \in Locked, StartMaking(w, t)
  PROVE  FactoriesInv'
<1> DEFINE s == stack[w]
           r == stack'[w]
           n == Len(s)
<1>1. /\ stack[w] # <<>> /\ Top(w).what = t /\ owner[t] = Nobody
      /\ Found(t, Top(w).key) = {} /\ owner' = [owner EXCEPT ![t] = w]
      /\ Becomes(w, [Top(w) EXCEPT !.state = "making"])
      /\ UNCHANGED <<table, handed>>
  BY DEF StartMaking, Waits, MayAcquire
<1>2. /\ n \in Nat /\ n > 1 /\ Len(r) = n
      /\ \A i \in 1..n : r[i].what = s[i].what /\ r[i].key = s[i].key
      /\ \A i \in 1..n : i # n => r[i].state = s[i].state
      /\ r[n].state = "making" /\ s[n] = Top(w)
      /\ \A v \in Workers \ {w} : stack'[v] = stack[v]
      /\ DOMAIN stack' = Workers
      /\ StackOK(w)'
  BY <1>1, BecomesEffect DEF Tables
<1>3. /\ WorkerOK(w) /\ owner \in [Locked -> Workers \cup {Nobody}]
      /\ owner'[t] = w /\ \A u \in Locked \ {t} : owner'[u] = owner[u]
  BY <1>1 DEF FactoriesInv, WorkerOK
<1>4. \A i \in 1..n : i # n /\ s[i].state = "making" => s[i].what # t
  BY <1>1, <1>3, NobodyIsNoWorker DEF WorkerOK, MakingOK
<1>5. MakingOK(w)'
  <2>1. ASSUME NEW i \in 1..n, r[i].state = "making"
        PROVE  /\ r[i].what \in Locked /\ owner'[r[i].what] = w
               /\ FoundAfter(r[i].what, r[i].key) = {}
               /\ \A j \in 1..n : r[j].state = "making" /\ r[j].what = r[i].what => j = i
    <3>1. FoundAfter(r[i].what, r[i].key) = Found(r[i].what, r[i].key)
      BY <1>1 DEF Found, FoundAfter
    <3>2. CASE i = n
      BY <1>1, <1>2, <1>3, <1>4, <3>1, <3>2
    <3>3. CASE i # n
      <4>1. s[i].state = "making" /\ r[i].what = s[i].what /\ r[i].key = s[i].key
        BY <1>2, <2>1, <3>3
      <4>2. /\ s[i].what \in Locked /\ owner[s[i].what] = w
            /\ Found(s[i].what, s[i].key) = {}
            /\ \A j \in 1..n : s[j].state = "making" /\ s[j].what = s[i].what => j = i
        BY <1>3, <4>1 DEF WorkerOK, MakingOK
      <4>3. s[i].what # t
        BY <1>4, <3>3, <4>1
      <4> QED  BY <1>1, <1>2, <1>3, <3>1, <4>1, <4>2, <4>3
    <3> QED  BY <3>2, <3>3
  <2> QED  BY <1>2, <2>1 DEF MakingOK, Found, FoundAfter
<1>6. TypesOK(w)'
  <2>1. ASSUME NEW i \in 1..n, r[i].what \in Interned
        PROVE  \E p \in AskedBy(r[i - 1].what) : r[i].what = p.table /\ r[i].key = <<p.arg, 0>>
    <3>1. i # 1
      BY <1>2, <1>3, <2>1, RequestsWellFormed DEF WorkerOK, StackOK, Tables
    <3>2. i - 1 \in 1..n
      BY <1>2, <3>1
    <3> QED  BY <1>2, <1>3, <2>1, <3>2 DEF WorkerOK, TypesOK
  <2>2. \A i \in 1..n : r[i].state = "absent" =>
          /\ r[i].what \in Interned
          /\ Guarded(r[i].what, r[i].key) => FoundAfter(r[i].what, r[i].key) = {}
    BY <1>1, <1>2, <1>3 DEF WorkerOK, TypesOK, Found, FoundAfter
  <2> QED  BY <1>2, <2>1, <2>2 DEF TypesOK, Found, FoundAfter
<1>7. WorkerOK(w)'
  BY <1>2, <1>5, <1>6 DEF WorkerOK
<1>8. owner' \in [Locked -> Workers \cup {Nobody}]
  BY <1>1, <1>3
<1>9. \A u \in Locked : owner[u] \in Workers \ {w} => owner'[u] = owner[u]
  BY <1>1, <1>3, NobodyIsNoWorker
<1> QED  BY <1>1, <1>2, <1>7, <1>8, <1>9, NothingReturned

(* The type is looked up in vain.                                           *)
LEMMA LookupFails ==
  ASSUME FactoriesInv, NEW w \in Workers, NEW t \in Interned, Lookup(w, t),
         Found(t, Top(w).key) = {}
  PROVE  FactoriesInv'
<1> DEFINE s == stack[w]
           r == stack'[w]
           n == Len(s)
<1>1. /\ stack[w] # <<>> /\ Top(w).what = t
      /\ Becomes(w, [Top(w) EXCEPT !.state = "absent"])
      /\ UNCHANGED <<table, owner, handed>>
  BY DEF Lookup, Waits
<1>2. /\ n \in Nat /\ n > 1 /\ Len(r) = n
      /\ \A i \in 1..n : r[i].what = s[i].what /\ r[i].key = s[i].key
      /\ \A i \in 1..n : i # n => r[i].state = s[i].state
      /\ r[n].state = "absent" /\ s[n] = Top(w)
      /\ \A v \in Workers \ {w} : stack'[v] = stack[v]
      /\ DOMAIN stack' = Workers
      /\ StackOK(w)'
  BY <1>1, BecomesEffect DEF Tables
<1>3. WorkerOK(w) /\ owner \in [Locked -> Workers \cup {Nobody}]
  BY DEF FactoriesInv, WorkerOK
<1>4. MakingOK(w)'
  <2>1. \A i \in 1..n : r[i].state = "making" =>
          s[i].state = "making" /\ r[i].what = s[i].what /\ r[i].key = s[i].key
    BY <1>2
  <2> QED  BY <1>1, <1>2, <1>3, <2>1 DEF WorkerOK, MakingOK, Found
<1>5. TypesOK(w)'
  <2>1. ASSUME NEW i \in 1..n, r[i].what \in Interned
        PROVE  \E p \in AskedBy(r[i - 1].what) : r[i].what = p.table /\ r[i].key = <<p.arg, 0>>
    <3>1. i # 1
      BY <1>2, <1>3, <2>1, RequestsWellFormed DEF WorkerOK, StackOK, Tables
    <3>2. i - 1 \in 1..n
      BY <1>2, <3>1
    <3> QED  BY <1>2, <1>3, <2>1, <3>2 DEF WorkerOK, TypesOK
  <2>2. \A i \in 1..n : r[i].state = "absent" =>
          /\ r[i].what \in Interned
          /\ Guarded(r[i].what, r[i].key) => FoundAfter(r[i].what, r[i].key) = {}
    BY <1>1, <1>2, <1>3 DEF WorkerOK, TypesOK, Found, FoundAfter
  <2> QED  BY <1>2, <2>1, <2>2 DEF TypesOK, Found, FoundAfter
<1>6. WorkerOK(w)'
  BY <1>2, <1>4, <1>5 DEF WorkerOK
<1> QED  BY <1>1, <1>2, <1>3, <1>6, NothingReturned

(* A worker asks for a type.                                                *)
LEMMA TopAsked ==
  ASSUME NEW w \in Workers, WorkerOK(w), stack[w] # <<>>, Top(w).what \in Tables
  PROVE  Top(w).what \in Interned =>
           \E what \in Statements \cup Tables : \E r \in AskedBy(what) :
             Top(w).what = r.table /\ Top(w).key = <<r.arg, 0>>
<1> DEFINE n == Len(stack[w])
<1>1. n \in Nat /\ n > 1 /\ n \in 1..n /\ n - 1 \in 1..n /\ stack[w][n] = Top(w)
  BY Places DEF Top
<1>2. stack[w][n - 1].what \in Statements \cup Tables
  BY <1>1 DEF WorkerOK, StackOK
<1> QED  BY <1>1, <1>2 DEF WorkerOK, TypesOK

(* An object is returned that is in the table, or whose key is not guarded. *)
LEMMA ObjectReturned ==
  ASSUME FactoriesInv, NEW w \in Workers, NEW t \in Tables, stack[w] # <<>>, Top(w).what = t,
         NEW object, Return(w, object), UNCHANGED <<table, owner>>,
         Guarded(t, Top(w).key) => HasOneObject(t, Top(w).key, object)
  PROVE  FactoriesInv'
<1>1. /\ \A v \in Workers \ {w} : stack'[v] = stack[v]
      /\ DOMAIN stack' = Workers /\ Len(stack[w]) \in Nat
      /\ handed' = handed \cup {[table |-> t, key |-> Top(w).key, object |-> object]}
  BY ReturnEffect, Places DEF FactoriesInv, WorkerOK
<1>2. \A v \in Workers : \A i \in 1..Len(stack[v]) :
        /\ stack[v][i].state = "making" => owner'[stack[v][i].what] = v
        /\ MustBeAbsent(stack[v][i]) =>
             FoundAfter(stack[v][i].what, stack[v][i].key) = {}
  BY DEF FactoriesInv, MakingOK, TypesOK, Found, FoundAfter, MustBeAbsent
<1>3. WorkerOK(w)'
  <2>1. \A i \in 1..(Len(stack[w]) - 1) : i \in 1..Len(stack[w])
    BY <1>1
  <2> QED  BY <1>2, <2>1, ReturnWorker DEF MustBeAbsent
<1>4. \A v \in Workers \ {w} : WorkerOK(v)'
  BY <1>1, <1>2, OtherWorker DEF FactoriesInv, WorkerOK
<1>5. TableOK'
  BY DEF FactoriesInv, TableOK, Found, Entry
<1>6. HandedOK'
  <2>1. t \in Interned =>
          \E what \in Statements \cup Tables : \E r \in AskedBy(what) :
            t = r.table /\ Top(w).key = <<r.arg, 0>>
    BY TopAsked DEF FactoriesInv, WorkerOK
  <2> QED  BY <1>1, <2>1 DEF FactoriesInv, HandedOK, HasOneObject, Found, Entry
<1> QED  BY <1>1, <1>3, <1>4, <1>5, <1>6 DEF FactoriesInv, WorkerOK

LEMMA FoundReturned ==
  ASSUME FactoriesInv, NEW w \in Workers, NEW t \in Tables, stack[w] # <<>>, Top(w).what = t,
         NEW e \in Found(t, Top(w).key), Return(w, e.object), UNCHANGED <<table, owner>>
  PROVE  FactoriesInv'
<1>1. HasOneObject(t, Top(w).key, e.object)
  BY DEF FactoriesInv, TableOK, Found, HasOneObject
<1> QED  BY <1>1, ObjectReturned

(* A new object is inserted and returned.                                   *)
LEMMA MadeReturned ==
  ASSUME FactoriesInv, NEW w \in Workers, NEW t \in Tables, stack[w] # <<>>, Top(w).what = t,
         Found(t, Top(w).key) = {}, NEW object, Return(w, object),
         table' = table \cup {Entry(t, Top(w).key, object)},
         owner' \in [Locked -> Workers \cup {Nobody}],
         \A i \in 1..(Len(stack[w]) - 1) : stack[w][i].state = "making" =>
           owner'[stack[w][i].what] = w /\ stack[w][i].what # t,
         \A v \in Workers \ {w} : \A i \in 1..Len(stack[v]) :
           /\ stack[v][i].state = "making" => owner'[stack[v][i].what] = v
           /\ MustBeAbsent(stack[v][i]) =>
                ~ (stack[v][i].what = t /\ stack[v][i].key = Top(w).key)
  PROVE  FactoriesInv'
<1> DEFINE k == Top(w).key
           new == Entry(t, k, object)
<1>1. /\ \A v \in Workers \ {w} : stack'[v] = stack[v]
      /\ DOMAIN stack' = Workers /\ Len(stack[w]) \in Nat
      /\ handed' = handed \cup {[table |-> t, key |-> k, object |-> object]}
  BY ReturnEffect, Places DEF FactoriesInv, WorkerOK
<1>2. new.table = t /\ new.key = k /\ new.object = object
      /\ new = Entry(new.table, new.key, new.object)
  BY DEF Entry
<1> HIDE DEF k, new
<1>3. table' = table \cup {new} /\ Found(t, k) = {}
  BY DEF new, k
<1>4. /\ \A u, j : ~ (u = t /\ j = k) => FoundAfter(u, j) = Found(u, j)
      /\ FoundAfter(t, k) = {new}
  BY <1>2, <1>3 DEF Found, FoundAfter
<1>5. WorkerOK(w)'
  <2>1. \A i \in 1..(Len(stack[w]) - 1) : i \in 1..Len(stack[w])
    BY <1>1
  <2>2. \A i \in 1..(Len(stack[w]) - 1) : stack[w][i].state = "making" =>
          Found(stack[w][i].what, stack[w][i].key) = {}
    BY <2>1 DEF FactoriesInv, MakingOK
  <2>3. \A i \in 1..(Len(stack[w]) - 1) : stack[w][i].state = "making" =>
          /\ owner'[stack[w][i].what] = w
          /\ FoundAfter(stack[w][i].what, stack[w][i].key) = {}
    BY <1>4, <2>2
  <2> QED  BY <2>3, ReturnWorker
<1>6. ASSUME NEW v \in Workers \ {w} PROVE WorkerOK(v)'
  <2>1. \A i \in 1..Len(stack[v]) : MustBeAbsent(stack[v][i]) =>
          FoundAfter(stack[v][i].what, stack[v][i].key) = {}
    <3>1. \A i \in 1..Len(stack[v]) : MustBeAbsent(stack[v][i]) =>
            Found(stack[v][i].what, stack[v][i].key) = {}
      BY DEF FactoriesInv, MakingOK, TypesOK, MustBeAbsent
    <3>2. \A i \in 1..Len(stack[v]) : MustBeAbsent(stack[v][i]) =>
            ~ (stack[v][i].what = t /\ stack[v][i].key = k)
      BY DEF k
    <3> QED  BY <1>4, <3>1, <3>2
  <2> QED  BY <1>1, <2>1, OtherWorker DEF FactoriesInv, WorkerOK
<1>7. TableOK'
  <2>1. \A e \in table' : e = Entry(e.table, e.key, e.object)
    BY <1>2, <1>3 DEF FactoriesInv, TableOK
  <2>2. \A e, f \in table' : e.table = f.table /\ e.key = f.key => e = f
    BY <1>2, <1>3 DEF FactoriesInv, TableOK, Found
  <2>3. \A p \in Preexisting : FoundAfter(p[1], <<p[2], 0>>) # {}
    BY <1>4 DEF FactoriesInv, TableOK
  <2> QED  BY <2>1, <2>2, <2>3 DEF TableOK, Found, FoundAfter
<1>8. ASSUME NEW h \in handed, Guarded(h.table, h.key)
      PROVE  FoundAfter(h.table, h.key) = {Entry(h.table, h.key, h.object)}
  <2>1. Found(h.table, h.key) = {Entry(h.table, h.key, h.object)}
    BY <1>8 DEF FactoriesInv, HandedOK, HasOneObject
  <2> QED  BY <1>3, <1>4, <2>1
<1>9. HandedOK'
  <2>1. t \in Interned =>
          \E what \in Statements \cup Tables : \E r \in AskedBy(what) :
            t = r.table /\ k = <<r.arg, 0>>
    BY TopAsked DEF FactoriesInv, WorkerOK, k
  <2>2. FoundAfter(t, k) = {Entry(t, k, object)}
    BY <1>4 DEF new
  <2>3. ASSUME NEW h \in handed'
        PROVE  /\ h.table \in Tables
               /\ h.table \in Interned =>
                    \E what \in Statements \cup Tables : \E r \in AskedBy(what) :
                      h.table = r.table /\ h.key = <<r.arg, 0>>
               /\ Guarded(h.table, h.key) =>
                    FoundAfter(h.table, h.key) = {Entry(h.table, h.key, h.object)}
    <3>1. CASE h \in handed
      BY <1>8, <3>1 DEF FactoriesInv, HandedOK
    <3>2. CASE h = [table |-> t, key |-> k, object |-> object]
      BY <2>1, <2>2, <3>2
    <3> QED  BY <1>1, <3>1, <3>2
  <2> QED  BY <2>3 DEF HandedOK, HasOneObject, Found, FoundAfter, Entry
<1> QED  BY <1>1, <1>5, <1>6, <1>7, <1>9 DEF FactoriesInv, WorkerOK

LEMMA MakeStep ==
  ASSUME FactoriesInv, NEW w \in Workers, NEW t \in Locked, Make(w, t)
  PROVE  FactoriesInv'
<1> DEFINE n == Len(stack[w])
           object == [id |-> objects + 1, sign |-> SignOf(Top(w))]
<1>1. /\ stack[w] # <<>> /\ Top(w).what = t /\ Top(w).state = "making"
      /\ Return(w, object) /\ owner' = [owner EXCEPT ![t] = Nobody]
      /\ table' = IF Found(t, Top(w).key) = {}
                  THEN table \cup {Entry(t, Top(w).key, object)} ELSE table
  BY DEF Make, Release
<1>2. WorkerOK(w) /\ n \in Nat /\ n \in 1..n /\ stack[w][n] = Top(w)
  BY <1>1, Places DEF FactoriesInv, WorkerOK, Top
<1>3. /\ Found(t, Top(w).key) = {} /\ owner[t] = w
      /\ \A j \in 1..n : stack[w][j].state = "making" /\ stack[w][j].what = t => j = n
  BY <1>1, <1>2 DEF WorkerOK, MakingOK
<1>4. /\ owner' \in [Locked -> Workers \cup {Nobody}]
      /\ \A u \in Locked : u # t => owner'[u] = owner[u]
  BY <1>1 DEF FactoriesInv
<1>5. \A i \in 1..(n - 1) : stack[w][i].state = "making" =>
        owner'[stack[w][i].what] = w /\ stack[w][i].what # t
  <2>1. \A i \in 1..(n - 1) : i \in 1..n /\ i # n
    BY <1>2
  <2> QED  BY <1>2, <1>3, <1>4, <2>1 DEF WorkerOK, MakingOK
<1>6. ASSUME NEW v \in Workers \ {w}, NEW i \in 1..Len(stack[v])
      PROVE  /\ stack[v][i].state = "making" =>
                  owner'[stack[v][i].what] = v /\ stack[v][i].what # t
             /\ stack[v][i].state = "absent" => stack[v][i].what # t
  <2>1. MakingOK(v) /\ TypesOK(v)
    BY DEF FactoriesInv
  <2>2. stack[v][i].state = "making" =>
          /\ stack[v][i].what \in Locked /\ owner[stack[v][i].what] = v
          /\ stack[v][i].what # t
    BY <1>3, <2>1 DEF MakingOK
  <2>3. stack[v][i].state = "absent" => stack[v][i].what # t
    BY <2>1, RequestsWellFormed DEF TypesOK
  <2> QED  BY <1>4, <2>2, <2>3
<1> HIDE DEF object
<1> QED  BY <1>1, <1>3, <1>4, <1>5, <1>6, MadeReturned DEF Tables, MustBeAbsent

(* Two workers that have looked up the same new type in vain would both     *)
(* hold the mutex under which it is asked for.                              *)
LEMMA EmplaceStep ==
  ASSUME FactoriesInv, NEW w \in Workers, NEW t \in Interned, Emplace(w, t)
  PROVE  FactoriesInv'
<1> DEFINE n == Len(stack[w])
           object == [id |-> objects + 1, sign |-> None]
<1>1. /\ stack[w] # <<>> /\ Top(w).what = t /\ Top(w).state = "absent"
      /\ Return(w, object) /\ UNCHANGED owner
      /\ table' = IF Found(t, Top(w).key) = {}
                  THEN table \cup {Entry(t, Top(w).key, object)} ELSE table
  BY DEF Emplace
<1> HIDE DEF object
<1>2. WorkerOK(w) /\ n \in Nat /\ n \in 1..n /\ stack[w][n] = Top(w)
  BY <1>1, Places DEF FactoriesInv, WorkerOK, Top
<1>3. Guarded(t, Top(w).key) => Found(t, Top(w).key) = {}
  BY <1>1, <1>2 DEF WorkerOK, TypesOK
<1>4. ASSUME Guarded(t, Top(w).key),
             NEW v \in Workers, NEW i \in 1..Len(stack[v]), stack[v][i].state = "absent",
             stack[v][i].what = t, stack[v][i].key = Top(w).key
      PROVE  \E q \in AskedBy(stack[v][i - 1].what) :
               /\ q.table = t /\ Top(w).key = <<q.arg, 0>>
               /\ stack[v][i - 1].what \in Locked /\ owner[stack[v][i - 1].what] = v
               /\ \A other \in Statements \cup Tables : \A p \in AskedBy(other) :
                    p.table = t /\ p.arg = q.arg => other = stack[v][i - 1].what
  <2>1. WorkerOK(v) /\ Len(stack[v]) \in Nat
    BY Places DEF FactoriesInv, WorkerOK
  <2>2. i # 1
    BY <1>4, <2>1, RequestsWellFormed DEF WorkerOK, StackOK, Tables
  <2>3. i - 1 \in 1..Len(stack[v]) /\ i - 1 # Len(stack[v])
    BY <2>1, <2>2
  <2>4. PICK q \in AskedBy(stack[v][i - 1].what) : t = q.table /\ Top(w).key = <<q.arg, 0>>
    BY <1>4, <2>1 DEF WorkerOK, TypesOK
  <2>5. stack[v][i - 1].what \in Statements \cup Tables
    BY <2>1, <2>3 DEF WorkerOK, StackOK
  <2>6. <<q.table, q.arg>> \notin Preexisting
    BY <1>3, <1>4, <2>4 DEF FactoriesInv, TableOK
  <2>7. /\ stack[v][i - 1].what \in Locked
        /\ \A other \in Statements \cup Tables : \A p \in AskedBy(other) :
             p.table = t /\ p.arg = q.arg => other = stack[v][i - 1].what
    <3>1. t \notin Locked /\ Top(w).key[1] = q.arg
      BY <2>4, RequestsWellFormed
    <3>2. PICK mutex \in Locked :
            \A what \in Statements \cup Tables : \A r \in AskedBy(what) :
              r.table = t /\ r.arg = q.arg => what = mutex
      BY <1>4, <2>4, <2>6, <3>1 DEF Guarded
    <3> QED  BY <2>4, <2>5, <3>2
  <2>8. i - 1 # 1
    BY <2>1, <2>3, <2>7, RequestsWellFormed DEF WorkerOK, StackOK, Tables
  <2>9. stack[v][i - 1].state = "making"
    BY <2>1, <2>3, <2>8 DEF WorkerOK, StackOK
  <2>10. owner[stack[v][i - 1].what] = v
    BY <2>1, <2>3, <2>9 DEF WorkerOK, MakingOK
  <2> QED  BY <2>4, <2>7, <2>10
<1>5. ASSUME Guarded(t, Top(w).key),
             NEW v \in Workers \ {w}, NEW i \in 1..Len(stack[v]), stack[v][i].state = "absent",
             stack[v][i].what = t, stack[v][i].key = Top(w).key
      PROVE  FALSE
  <2>1. PICK q \in AskedBy(stack[v][i - 1].what) :
          /\ q.table = t /\ Top(w).key = <<q.arg, 0>>
          /\ stack[v][i - 1].what \in Locked /\ owner[stack[v][i - 1].what] = v
          /\ \A other \in Statements \cup Tables : \A p \in AskedBy(other) :
               p.table = t /\ p.arg = q.arg => other = stack[v][i - 1].what
    BY <1>4, <1>5
  <2>2. PICK p \in AskedBy(stack[w][n - 1].what) :
          /\ p.table = t /\ Top(w).key = <<p.arg, 0>>
          /\ stack[w][n - 1].what \in Locked /\ owner[stack[w][n - 1].what] = w
    BY <1>1, <1>2, <1>4, <1>5
  <2>3. p.arg = q.arg
    BY <2>1, <2>2
  <2>4. stack[w][n - 1].what = stack[v][i - 1].what
    BY <2>1, <2>2, <2>3 DEF Tables
  <2> QED  BY <2>1, <2>2, <2>4
<1>6. \A i \in 1..(n - 1) : stack[w][i].state = "making" =>
        owner'[stack[w][i].what] = w /\ stack[w][i].what # t
  <2>1. \A i \in 1..(n - 1) : i \in 1..n
    BY <1>2
  <2> QED  BY <1>1, <1>2, <2>1, RequestsWellFormed DEF WorkerOK, MakingOK
<1>7. ASSUME NEW v \in Workers \ {w}, NEW i \in 1..Len(stack[v])
      PROVE  /\ stack[v][i].state = "making" =>
                  owner'[stack[v][i].what] = v /\ stack[v][i].what # t
             /\ stack[v][i].state = "absent" /\ Guarded(stack[v][i].what, stack[v][i].key) =>
                  ~ (stack[v][i].what = t /\ stack[v][i].key = Top(w).key)
  <2>1. MakingOK(v)
    BY DEF FactoriesInv
  <2> QED  BY <1>1, <1>5, <2>1, RequestsWellFormed DEF MakingOK
<1>8. owner' \in [Locked -> Workers \cup {Nobody}]
  BY <1>1 DEF FactoriesInv
<1>9. CASE Found(t, Top(w).key) = {}
  BY <1>1, <1>6, <1>7, <1>8, <1>9, MadeReturned DEF Tables, MustBeAbsent
<1>10. CASE Found(t, Top(w).key) # {}
  BY <1>1, <1>3, <1>10, ObjectReturned DEF Tables
<1> QED  BY <1>9, <1>10

------------------------------------------------------------------------------
LEMMA FactoriesInitially == Init => FactoriesInv
<1> SUFFICES ASSUME Init PROVE FactoriesInv
  OBVIOUS
<1>1. TableOK
  <2> DEFINE None0 == [id |-> 0, sign |-> None]
  <2>1. table = {Entry(p[1], <<p[2], 0>>, None0) : p \in Preexisting}
    BY DEF Init
  <2> HIDE DEF None0
  <2>2. \A e \in table : e = Entry(e.table, e.key, e.object) /\ e.object = None0
    BY <2>1 DEF Entry
  <2>3. \A p \in Preexisting : Entry(p[1], <<p[2], 0>>, None0) \in Found(p[1], <<p[2], 0>>)
    BY <2>1 DEF Found, Entry
  <2> QED  BY <2>2, <2>3 DEF TableOK
<1>2. \A w \in Workers : stack[w] = <<>> /\ Len(stack[w]) = 0 /\ stack[w] \in Seq(ItemsOf(stack[w]))
  BY DEF Init
<1>3. \A w \in Workers : StackOK(w) /\ MakingOK(w) /\ TypesOK(w)
  BY <1>2 DEF StackOK, MakingOK, TypesOK
<1>4. owner \in [Locked -> Workers \cup {Nobody}] /\ DOMAIN stack = Workers /\ HandedOK
  BY DEF Init, HandedOK
<1> QED  BY <1>1, <1>3, <1>4 DEF FactoriesInv

LEMMA FactoriesStep == FactoriesInv /\ [Next]_vars => FactoriesInv'
<1> SUFFICES ASSUME FactoriesInv, [Next]_vars PROVE FactoriesInv'
  OBVIOUS
<1>1. CASE UNCHANGED vars
  <2>1. \A v \in Workers : \A i \in 1..Len(stack[v]) :
          /\ stack[v][i].state = "making" => owner'[stack[v][i].what] = v
          /\ MustBeAbsent(stack[v][i]) =>
               FoundAfter(stack[v][i].what, stack[v][i].key) = {}
    BY <1>1 DEF vars, FactoriesInv, MakingOK, TypesOK, Found, FoundAfter, MustBeAbsent
  <2>2. \A v \in Workers : WorkerOK(v)'
    BY <1>1, <2>1, OtherWorker DEF vars, FactoriesInv, WorkerOK
  <2>3. TableOK' /\ HandedOK'
    BY <1>1 DEF vars, FactoriesInv, TableOK, HandedOK, HasOneObject, Found, Entry
  <2> QED  BY <1>1, <2>2, <2>3 DEF vars, FactoriesInv, WorkerOK
<1>2. ASSUME NEW w \in Workers, Step(w) PROVE FactoriesInv'
  <2>1. ASSUME NEW s \in Statements, Analyze(w, s) PROVE FactoriesInv'
    BY <2>1, AnalyzeStep
  <2>2. CASE MakeRequest(w)
    BY <2>2, MakeRequestStep
  <2>3. CASE Leave(w)
    BY <2>3, LeaveStep
  <2>4. ASSUME NEW t \in Locked, Get(w, t) PROVE FactoriesInv'
    BY <2>4, FoundReturned DEF Get, Waits, Tables
  <2>5. ASSUME NEW t \in Locked, StartMaking(w, t) PROVE FactoriesInv'
    BY <2>5, StartMakingStep
  <2>6. ASSUME NEW t \in Locked, Make(w, t) PROVE FactoriesInv'
    BY <2>6, MakeStep
  <2>7. ASSUME NEW t \in Interned, Lookup(w, t) PROVE FactoriesInv'
    <3>1. CASE Found(t, Top(w).key) = {}
      BY <2>7, <3>1, LookupFails
    <3>2. CASE \E e \in Found(t, Top(w).key) : Return(w, e.object)
      BY <2>7, <3>2, FoundReturned DEF Lookup, Waits, Tables
    <3> QED  BY <2>7, <3>1, <3>2 DEF Lookup
  <2>8. ASSUME NEW t \in Interned, Emplace(w, t) PROVE FactoriesInv'
    BY <2>8, EmplaceStep
  <2> QED  BY <1>2, <2>1, <2>2, <2>3, <2>4, <2>5, <2>6, <2>7, <2>8 DEF Step
<1> QED  BY <1>1, <1>2 DEF Next

(* Whatever the workers have been given for a guarded key is the one object *)
(* that the table holds for it: for all keys of the analyzer's tables, and  *)
(* for all types but those that a worker may name first (LiteralFactory::   *)
(* get, VariableFactory, MemoryFactory, CallContextFactory::get_context).   *)
THEOREM GuardedKeysHaveOneObject ==
  Spec => [](\A h \in handed : Guarded(h.table, h.key) =>
                                 HasOneObject(h.table, h.key, h.object))
<1>1. FactoriesInv => \A h \in handed : Guarded(h.table, h.key) =>
                        HasOneObject(h.table, h.key, h.object)
  BY DEF FactoriesInv, HandedOK
<1> QED  BY <1>1, FactoriesInitially, FactoriesStep, PTL DEF Spec

(* All keys have one object when no worker is the first to name a type, as  *)
(* in a program that names void* (ContextImpl).                             *)
THEOREM KeysHaveOneObject == TypesGuarded /\ Spec => []OneObjectPerKey
<1>1. SUFFICES ASSUME TypesGuarded PROVE Spec => []OneObjectPerKey
  OBVIOUS
<1>2. ASSUME FactoriesInv PROVE OneObjectPerKey
  <2>1. ASSUME NEW h \in handed PROVE Guarded(h.table, h.key)
    BY <1>1, <1>2 DEF FactoriesInv, HandedOK, TypesGuarded, Guarded, Tables
  <2> QED  BY <1>2, <2>1 DEF FactoriesInv, HandedOK, OneObjectPerKey
<1>3. FactoriesInv => OneObjectPerKey
  BY <1>2
<1> QED  BY <1>3, FactoriesInitially, FactoriesStep, PTL DEF Spec
================================================================================
