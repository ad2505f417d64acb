-------------------------------- MODULE Factories --------------------------------
(****************************************************************************)
(* The factories that the workers of a concurrent analysis share: literals  *)
(* (analyzer/src/analysis/literal.cpp), variables (variable.cpp), memory    *)
(* locations (memory_location.cpp), call contexts (call_context.cpp) and    *)
(* the types of the abstract representation (ar/src/semantic/               *)
(* context_impl.cpp).  Each hands out one object per key and makes it when  *)
(* it is asked for the first time; variables, locations and types are       *)
(* compared by address everywhere else.                                     *)
(*                                                                          *)
(* The analyzer's factories have a mutex for each of their tables and hold  *)
(* it while they make an object, which may ask other factories: a literal   *)
(* asks for variables, a cell or a function pointer variable for its type.  *)
(* The tables of types have no mutex.  A type is looked up, made and        *)
(* inserted in three steps; an insertion under a key that is taken by then  *)
(* fails silently, and the new type is destroyed although it is returned.   *)
(*                                                                          *)
(* What a worker asks for is the analysis of statements.  A statement is a  *)
(* sequence of requests, and a request may name the objects that the        *)
(* earlier ones returned: a cell is that of a memory location.              *)
(*                                                                          *)
(* Every getter is one of the two kinds, so a table is a parameter here:    *)
(*   Locked      tables with a mutex, of the analyzer                       *)
(*   Interned    tables of types, of the AR context                         *)
(****************************************************************************)
EXTENDS Naturals, Sequences, FiniteSets

CONSTANTS
  Workers,
  Locked,
  Interned,
  Statements,     \* statements that a worker may analyze
  RequestsOf,     \* [Statements -> sequence of requests], see RequestFor
  ConstructionOf, \* ConstructionOf[table][arg]: requests of the constructor
  Preexisting,    \* types that the front end has made, <<table, arg>>
  MaxStatements   \* bound on the statements of a worker

Nobody == "nobody"
None == "none"

Tables == Locked \cup Interned

(* What a statement, or the constructor of an object of a table, asks for.  *)
AskedBy(what) ==
  IF what \in Statements THEN {RequestsOf[what][i] : i \in 1..Len(RequestsOf[what])}
  ELSE UNION {{ConstructionOf[what][arg][i] : i \in 1..Len(ConstructionOf[what][arg])} :
                arg \in DOMAIN ConstructionOf[what]}

ASSUME NobodyIsNoWorker == Nobody \notin Workers

ASSUME RequestsWellFormed ==
  /\ Locked \cap Interned = {} /\ Statements \cap Tables = {}
  /\ \A s \in Statements : RequestsOf[s] \in Seq(AskedBy(s))
  /\ \A t \in Tables : \A arg \in DOMAIN ConstructionOf[t] :
       ConstructionOf[t][arg] \in Seq(AskedBy(t))
  /\ \A what \in Statements \cup Tables : \A r \in AskedBy(what) :
       /\ r.table \in Tables /\ r.arg \in DOMAIN ConstructionOf[r.table]
       /\ r.table \in Interned => r.of = 0

VARIABLES
  table,          \* entries [table, key, object]
  owner,          \* owner of the mutex of each table
  stack,          \* calls of each worker, the innermost last
  objects,        \* number of objects made
  handed,         \* history: what every call has returned
  analyzed        \* number of statements analyzed, by worker

vars == <<table, owner, stack, objects, handed, analyzed>>

(* A request names what it asks for by an argument and, unless `of` is 0, by *)
(* the result of an earlier request; a request for a cell has a sign.       *)
RequestFor(t, arg, of, sign) == [table |-> t, arg |-> arg, of |-> of, sign |-> sign]

Entry(t, k, o) == [table |-> t, key |-> k, object |-> o]

Found(t, k) == {e \in table : e.table = t /\ e.key = k}

------------------------------------------------------------------------------
(* A call is an activation: the statement, or the table that is asked, with *)
(* the requests it still has to make and the results of those it made.      *)

Activation(what, key, sign, requests) ==
  [what |-> what, key |-> key, sign |-> sign, todo |-> requests,
   results |-> <<>>, state |-> "called"]

Top(w) == stack[w][Len(stack[w])]
Below(w) == SubSeq(stack[w], 1, Len(stack[w]) - 1)
Becomes(w, a) == stack' = [stack EXCEPT ![w] = Below(w) \o <<a>>]

KeyOf(a, r) == <<r.arg, IF r.of = 0 THEN 0 ELSE a.results[r.of]>>

Init ==
  /\ table = {Entry(p[1], <<p[2], 0>>, [id |-> 0, sign |-> None]) : p \in Preexisting}
  /\ owner = [t \in Locked |-> Nobody]
  /\ stack = [w \in Workers |-> <<>>]
  /\ objects = 0
  /\ handed = {}
  /\ analyzed = [w \in Workers |-> 0]

Analyze(w, s) ==
  /\ stack[w] = <<>>
  /\ analyzed[w] < MaxStatements
  /\ stack' = [stack EXCEPT ![w] = <<Activation(s, <<None, 0>>, None, RequestsOf[s])>>]
  /\ UNCHANGED <<table, owner, objects, handed, analyzed>>

(* The innermost call that is ready to, makes its next request. *)
MakeRequest(w) ==
  /\ stack[w] # <<>>
  /\ Top(w).what \in Statements \/ Top(w).state = "making"
  /\ Top(w).todo # <<>>
  /\ LET a == Top(w)
         r == Head(a.todo)
     IN stack' = [stack EXCEPT ![w] =
          Below(w) \o <<[a EXCEPT !.todo = Tail(a.todo)],
                        Activation(r.table, KeyOf(a, r), r.sign, ConstructionOf[r.table][r.arg])>>]
  /\ UNCHANGED <<table, owner, objects, handed, analyzed>>

(* The innermost call returns an object to the one that made the request.   *)
Return(w, object) ==
  /\ LET a == Top(w)
         caller == Below(w)[Len(Below(w))]
     IN /\ stack' = [stack EXCEPT ![w] =
             SubSeq(Below(w), 1, Len(Below(w)) - 1)
               \o <<[caller EXCEPT !.results = Append(@, object.id)]>>]
        /\ handed' = handed \cup
             {[table |-> a.what, key |-> a.key, object |-> object]}

Leave(w) ==
  /\ stack[w] # <<>>
  /\ Top(w).what \in Statements
  /\ Top(w).todo = <<>>
  /\ analyzed' = [analyzed EXCEPT ![w] = @ + 1]
  /\ stack' = [stack EXCEPT ![w] = <<>>]
  /\ UNCHANGED <<table, owner, objects, handed>>

------------------------------------------------------------------------------
(* A factory of the analyzer: the lock_guard, try_emplace and, through      *)
(* lazy_convert_construct, the constructor between them.                    *)

Waits(w, t) ==
  /\ stack[w] # <<>>
  /\ Top(w).what = t
  /\ Top(w).state = "called"

(* One mutex for all of the tables. *)
MayAcquireGlobal(w, t) == \A u \in Locked : owner[u] = Nobody

MayAcquire(w, t) == owner[t] = Nobody

Get(w, t) ==
  /\ Waits(w, t)
  /\ MayAcquire(w, t)
  /\ \E e \in Found(t, Top(w).key) : Return(w, e.object)
  /\ UNCHANGED <<table, owner, objects, analyzed>>

(* The key was looked up before the mutex was taken. *)
StartMakingFaulty(w, t) ==
  /\ Waits(w, t)
  /\ MayAcquire(w, t)
  /\ owner' = [owner EXCEPT ![t] = w]
  /\ Becomes(w, [Top(w) EXCEPT !.state = "making"])
  /\ UNCHANGED <<table, objects, handed, analyzed>>

(* The key is not in the table: the mutex is kept while the object is made. *)
StartMaking(w, t) ==
  /\ Waits(w, t)
  /\ MayAcquire(w, t)
  /\ Found(t, Top(w).key) = {}
  /\ owner' = [owner EXCEPT ![t] = w]
  /\ Becomes(w, [Top(w) EXCEPT !.state = "making"])
  /\ UNCHANGED <<table, objects, handed, analyzed>>

SignOf(a) == IF a.what = "cell" THEN "signed" ELSE None

Release(t) == owner' = [owner EXCEPT ![t] = Nobody]

Make(w, t) ==
  /\ stack[w] # <<>>
  /\ Top(w).what = t
  /\ Top(w).state = "making"
  /\ Top(w).todo = <<>>
  /\ LET object == [id |-> objects + 1, sign |-> SignOf(Top(w))]
     IN /\ table' = IF Found(t, Top(w).key) = {}
                    THEN table \cup {Entry(t, Top(w).key, object)}
                    ELSE table
        /\ Return(w, object)
  /\ objects' = objects + 1
  /\ Release(t)
  /\ UNCHANGED analyzed

------------------------------------------------------------------------------
(* A type: find, then new and emplace, without a mutex.                     *)

Lookup(w, t) ==
  /\ Waits(w, t)
  /\ \/ \E e \in Found(t, Top(w).key) : Return(w, e.object)
     \/ /\ Found(t, Top(w).key) = {}
        /\ Becomes(w, [Top(w) EXCEPT !.state = "absent"])
        /\ UNCHANGED handed
  /\ UNCHANGED <<table, owner, objects, analyzed>>

Emplace(w, t) ==
  /\ stack[w] # <<>>
  /\ Top(w).what = t
  /\ Top(w).state = "absent"
  /\ LET object == [id |-> objects + 1, sign |-> None]
     IN /\ table' = IF Found(t, Top(w).key) = {}
                    THEN table \cup {Entry(t, Top(w).key, object)}
                    ELSE table
        /\ Return(w, object)
  /\ objects' = objects + 1
  /\ UNCHANGED <<owner, analyzed>>

------------------------------------------------------------------------------
Step(w) ==
  \/ \E s \in Statements : Analyze(w, s)
  \/ MakeRequest(w)
  \/ Leave(w)
  \/ \E t \in Locked : Get(w, t) \/ StartMaking(w, t) \/ Make(w, t)
  \/ \E t \in Interned : Lookup(w, t) \/ Emplace(w, t)

Next == \E w \in Workers : Step(w)

(* A worker is an operating system thread and always goes on. *)
Spec == Init /\ [][Next]_vars /\ \A w \in Workers : WF_vars(Step(w))

------------------------------------------------------------------------------
HasOneObject(t, k, object) == Found(t, k) = {Entry(t, k, object)}

(* Whatever the workers have been given for a key, at any time, is the      *)
(* object that is in the table now: the same for all of them and alive      *)
(* (LiteralFactory::get, VariableFactory, MemoryFactory, get_context).  Two *)
(* analyses of a statement, by two callers or in the check pass, so name    *)
(* the same variables, because the keys are made of such objects.           *)
OneObjectPerKey == \A h \in handed : HasOneObject(h.table, h.key, h.object)

(* The keys that no two workers insert at once: those of a table with a     *)
(* mutex, the types that are there before the analysis, and the types that  *)
(* are asked for under one mutex only (VariableFactory::get_cell makes the  *)
(* integer types of cells).                                                 *)
Guarded(t, k) ==
  \/ t \in Locked
  \/ <<t, k[1]>> \in Preexisting
  \/ \E mutex \in Locked : \A what \in Statements \cup Tables : \A r \in AskedBy(what) :
       r.table = t /\ r.arg = k[1] => what = mutex

(* True of a program that names void*, or is checked by a checker that      *)
(* does, before the analysis starts; nothing in the analyzer sees to it.    *)
TypesGuarded ==
  \A what \in Statements \cup Tables : \A r \in AskedBy(what) :
    r.table \in Interned => Guarded(r.table, <<r.arg, 0>>)

(* The requests nested in a constructor are made while mutexes are held     *)
(* (create_literal, get_cell): all of them return nevertheless.             *)
AllAnalyzed == <>[](\A w \in Workers : analyzed[w] = MaxStatements)
==============================================================================
