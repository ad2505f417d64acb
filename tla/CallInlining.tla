------------------------------ MODULE CallInlining ------------------------------
(****************************************************************************)
(* The concurrent interprocedural analysis: FunctionFixpoint                *)
(* (analyzer/src/analysis/value/interprocedural/concurrent/                 *)
(* function_fixpoint.cpp) and the inliner of calls, InlineCallExecution-    *)
(* Engine (analyzer/include/ikos/analyzer/analysis/execution_engine/        *)
(* cc_inliner.hpp).                                                         *)
(*                                                                          *)
(* A function is analyzed once per call path (context).  Its fixpoint pass  *)
(* runs the cells of its weak partial order; a block that calls makes a     *)
(* fixpoint object for every callee, runs them side by side, and stores     *)
(* them in the cache of the caller.  The check pass then visits the blocks  *)
(* in turn, with the stored objects or, without a cache, with new ones.     *)
(*                                                                          *)
(* The iterator runs here at the grain at which module ConcurrentFixpoint   *)
(* shows it to implement WpoSchedule: a cell is one step, any of the cells  *)
(* whose predecessors have run may be the next one, and only blocks that    *)
(* call stay open, while other blocks run.  There are always enough         *)
(* workers.  An abstract value is the set of the states it stands for, a    *)
(* state is what a function pointer and a widened counter depend on.        *)
(* Exceptions, edges and parameters transform nothing.  _context_stable is  *)
(* left out: it holds in every check pass, because that of the entry point  *)
(* is set by its constructor and is handed down.                            *)
(*                                                                          *)
(* A program p is a record:                                                 *)
(*   main      the entry point                                              *)
(*   cfg, wpo  graphs and weak partial orders of the functions with a body  *)
(*   exit      their exit blocks, 0 when there is none                      *)
(*   effect    effect[f][n][s]: states after a block that does not call     *)
(*   target    target[f][n][s]: the function that block n calls in state s, *)
(*             0 when its pointer is invalid there; a pointer of which        *)
(*             nothing is known is one to a declaration                       *)
(*   limit     opts.context_sensitivity, 0 for no limit                     *)
(*   cached    opts.use_fixpoint_cache                                      *)
(*   narrows   does the domain iterate its narrowing?                       *)
(****************************************************************************)
EXTENDS Wpo, SequencesExt

CONSTANTS
  State,      \* concrete states
  Programs    \* programs under analysis

ASSUME OrdersWellFormed ==
  \A p \in Programs : \A f \in DOMAIN p.cfg : WellFormed(p.wpo[f], p.cfg[f])

(* Functions and blocks are numbers, the check pass visits blocks from 1.   *)
ASSUME Numbered ==
  \A p \in Programs :
    /\ p.main \in DOMAIN p.cfg /\ DOMAIN p.cfg \subseteq Nat
    /\ \A f \in DOMAIN p.cfg : p.cfg[f].node \subseteq Nat

VARIABLES
  prog,       \* the program under analysis
  live,       \* the fixpoint objects that are not in a cache, by their context
  checked,    \* history: how often and at which value a block was checked
  missing     \* callees whose stored fixpoint the check pass did not find

vars == <<prog, live, checked, missing>>

Value == SUBSET State
Bottom == {}
Top == State

------------------------------------------------------------------------------
(* Contexts: the calls that lead to a function, <<block, callee>> each.     *)

FunctionAt(ctx) == IF ctx = <<>> THEN prog.main ELSE Last(ctx)[2]
Caller(ctx) == Front(ctx)
CallOf(ctx) == Last(ctx)[1]
Callee(ctx, n, f) == Append(ctx, <<n, f>>)

(* _analyzed_functions                                                      *)
Analyzed(ctx) == {prog.main} \cup {ctx[i][2] : i \in 1..Len(ctx)}

IsCurrentlyAnalyzed(ctx, f) == f \in Analyzed(ctx)
AtContextLimit(ctx) == prog.limit # 0 /\ Len(ctx) + 1 >= prog.limit

Graph(f) == prog.cfg[f]
Order(f) == prog.wpo[f]
HasCall(f, n) == n \in DOMAIN prog.target[f]

------------------------------------------------------------------------------
(* Tables with entries put in, and without some of their entries.           *)
With(f, g) == [x \in DOMAIN f \cup DOMAIN g |-> IF x \in DOMAIN g THEN g[x] ELSE f[x]]
Without(f, S) == Restrict(f, DOMAIN f \ S)

(* A fixpoint object.  The cells that have run are done; opened are the     *)
(* blocks whose call waits for its callees, with what is joined so far and  *)
(* the vector of the callees; cache is _calls_cache; next is the block that *)
(* the check pass comes to.                                                 *)

NewFixpoint(f, inv) ==
  [fun    |-> f,
   inv    |-> inv,
   phase  |-> "run",
   pre    |-> [n \in Graph(f).node |-> Bottom],
   post   |-> [n \in Graph(f).node |-> Bottom],
   kind   |-> [h \in Heads(Order(f)) |-> "increasing"],
   count  |-> [h \in Heads(Order(f)) |-> 0],
   done   |-> {},
   opened |-> <<>>,
   exit   |-> Bottom,
   cache  |-> <<>>,
   next   |-> 1]

Init ==
  /\ prog \in Programs
  /\ live = [ctx \in {<<>>} |-> NewFixpoint(prog.main, State)]
  /\ checked = <<>>
  /\ missing = {}


Busy(o) == {CellOf(Order(o.fun), n) : n \in DOMAIN o.opened}
Ready(o) ==
  {c \in Cells(Order(o.fun)) \ (o.done \cup Busy(o)) :
     Order(o.fun).pred[c] \subseteq o.done}

------------------------------------------------------------------------------
(* exec(CallBase): the callees of block n in the states v.                  *)

NoFunction == 0
Callees(f, n, v) == {prog.target[f][n][s] : s \in v} \ {NoFunction}
IsDeclaration(f) == f \notin DOMAIN prog.cfg

(* The callees that the loop over the points-to set adds to its vector,     *)
(* before it ends or meets a recursive callee; their order is that of the   *)
(* numbers.                                                                 *)
Collected(ctx, n, v) ==
  LET called == Callees(FunctionAt(ctx), n, v)
      stop   == {f \in called : IsCurrentlyAnalyzed(ctx, f)}
  IN  {f \in called : ~ IsDeclaration(f) /\ \A r \in stop : f < r}

(* The call is not inlined: too deep, or one of its callees is recursive.   *)
IsUnknownCall(ctx, n, v) ==
  \/ AtContextLimit(ctx)
  \/ \E f \in Callees(FunctionAt(ctx), n, v) : IsCurrentlyAnalyzed(ctx, f)

(* What is joined before callees run: calls of declarations change nothing. *)
ExternPost(f, n, v) == IF \E g \in Callees(f, n, v) : IsDeclaration(g) THEN v ELSE Bottom

(* The value after a block when no callee has to be analyzed.               *)
Effect(f, n, v) == UNION {prog.effect[f][n][s] : s \in v}
PostWithoutCallees(ctx, n, v) ==
  LET f == FunctionAt(ctx)
  IN  IF v = Bottom THEN Bottom
      ELSE IF ~ HasCall(f, n) THEN Effect(f, n, v)
      ELSE IF IsUnknownCall(ctx, n, v) THEN Top
      ELSE ExternPost(f, n, v)

NeedsCallees(ctx, n, v) ==
  /\ v # Bottom /\ HasCall(FunctionAt(ctx), n)
  /\ ~ IsUnknownCall(ctx, n, v)
  /\ Collected(ctx, n, v) # {}

Open(o, ctx, n, v) ==
  [o EXCEPT !.opened = With(@, [m \in {n} |-> [callees |-> Collected(ctx, n, v),
                                               post |-> ExternPost(o.fun, n, v)]])]

(* New objects for all callees of a call.                                   *)
NewCallees(ctx, n, v) ==
  [c \in {Callee(ctx, n, f) : f \in Collected(ctx, n, v)} |-> NewFixpoint(Last(c)[2], v)]

------------------------------------------------------------------------------
(* The fixpoint pass.                                                       *)

Inputs(o, c) ==
  LET n == Order(o.fun).node[c]
  IN  IF Order(o.fun).type[c] = "head"
      THEN {p \in CfgPred(Graph(o.fun), n) : IsFromOutside(Order(o.fun), n, p)}
      ELSE CfgPred(Graph(o.fun), n)

JoinPosts(o, blocks) == UNION {o.post[p] : p \in blocks}

(* The invariant that the rule of a plain or head cell starts from.         *)
PreOf(o, c) ==
  LET n == Order(o.fun).node[c]
  IN  IF c \in Heads(Order(o.fun)) /\ o.count[c] > 0 THEN o.pre[n]
      ELSE (IF n = Graph(o.fun).entry THEN o.inv ELSE Bottom) \cup JoinPosts(o, Inputs(o, c))

Entered(o, c) ==
  [o EXCEPT !.pre = [@ EXCEPT ![Order(o.fun).node[c]] = PreOf(o, c)],
            !.count = IF c \in DOMAIN @ /\ @[c] = 0 THEN [@ EXCEPT ![c] = 1] ELSE @]

(* analyze_node on a block whose statements need no callee.                 *)
RunBlock(ctx) ==
  LET o == live[ctx]
  IN  /\ o.phase = "run"
      /\ \E c \in Ready(o) \ Exits(Order(o.fun)) :
           LET n == Order(o.fun).node[c]  v == PreOf(o, c)
           IN  /\ ~ NeedsCallees(ctx, n, v)
               /\ live' = [live EXCEPT ![ctx] =
                     [Entered(o, c) EXCEPT
                        !.post = [@ EXCEPT ![n] = PostWithoutCallees(ctx, n, v)],
                        !.done = @ \cup {c}]]
      /\ UNCHANGED <<prog, checked, missing>>

(* analyze_node reaches a call: its callees are created, all of them before *)
(* the first one runs.                                                      *)
BeginCall(ctx) ==
  LET o == live[ctx]
  IN  /\ o.phase = "run"
      /\ \E c \in Ready(o) \ Exits(Order(o.fun)) :
           LET n == Order(o.fun).node[c]  v == PreOf(o, c)
           IN  /\ NeedsCallees(ctx, n, v)
               /\ live' = With([live EXCEPT ![ctx] = Open(Entered(o, c), ctx, n, v)],
                               NewCallees(ctx, n, v))
      /\ UNCHANGED <<prog, checked, missing>>

(* Faulty: a callee that is stored already is kept (insert, not assign).    *)
StoreFaulty(cache, ctx, callees) ==
  With([s \in {Last(c) : c \in DOMAIN callees} |-> callees[Append(ctx, s)]], cache)

(* _calls_cache[call][callee] = std::move(callee_analyzer)                  *)
Store(cache, ctx, callees) ==
  With(cache, [s \in {Last(c) : c \in DOMAIN callees} |-> callees[Append(ctx, s)]])

CalleesAt(ctx, n) ==
  {Callee(ctx, n, f) : f \in live[ctx].opened[n].callees}

(* The reduction over the callees of block n is finished: their exits are   *)
(* joined, and they are stored in the cache of the caller.                  *)
EndCall(ctx) ==
  LET o == live[ctx]
  IN  /\ o.phase = "run"
      /\ \E n \in DOMAIN o.opened :
           LET callees == Restrict(live, CalleesAt(ctx, n))
               exits   == UNION {callees[c].exit : c \in DOMAIN callees}
           IN  /\ \A c \in DOMAIN callees : callees[c].phase = "converged"
               /\ live' = [Without(live, DOMAIN callees) EXCEPT ![ctx] =
                     [o EXCEPT !.post = [@ EXCEPT ![n] = o.opened[n].post \cup exits],
                               !.opened = Without(@, {n}),
                               !.cache = IF prog.cached THEN Store(@, ctx, callees) ELSE @,
                               !.done = @ \cup {CellOf(Order(o.fun), n)}]]
      /\ UNCHANGED <<prog, checked, missing>>

(* The strategy of FunctionFixpoint: join in the first iteration, widen     *)
(* afterwards (the profile gives no hints here).                            *)
Widen(a, b) == IF b \subseteq a THEN a ELSE Top
Extrapolate(iteration, a, b) == IF iteration <= 1 THEN a \cup b ELSE Widen(a, b)
Narrow(a, b) == a \cap b
LaterIteration == 2      \* bound: extrapolate tells no later iterations apart
NextIteration(i) == IF i < LaterIteration THEN i + 1 ELSE i

(* The exit of a loop: widen, refine, or leave.                             *)
CheckStabilization(ctx) ==
  LET o == live[ctx]
  IN  /\ o.phase = "run"
      /\ \E x \in Ready(o) \cap Exits(Order(o.fun)) :
           LET h        == HeadOfExit(x)
               n        == Order(o.fun).node[h]
               new      == JoinPosts(o, Inputs(o, x))
               widening == o.kind[h] = "increasing" /\ ~ new \subseteq o.pre[n]
               turn     == IF o.kind[h] = "increasing" THEN 1 ELSE o.count[h]
               refined  == Narrow(o.pre[n], new)
               stable   == ~ widening /\ (prog.narrows => o.pre[n] \subseteq refined)
               value    == IF widening THEN Extrapolate(o.count[h], o.pre[n], new)
                           ELSE refined
               comp     == Order(o.fun).comp[x]
           IN  live' = [live EXCEPT ![ctx] =
                 [o EXCEPT
                    !.pre   = [@ EXCEPT ![n] = value],
                    !.kind  = [@ EXCEPT ![h] = IF widening \/ stable THEN "increasing"
                                               ELSE "decreasing"],
                    !.count = [@ EXCEPT ![h] = IF stable THEN 0
                                               ELSE IF widening THEN NextIteration(o.count[h])
                                               ELSE NextIteration(turn)],
                    !.done  = IF stable THEN @ \cup {x} ELSE @ \ comp]]
      /\ UNCHANGED <<prog, checked, missing>>

(* Faulty: the exit invariant is not taken over from the exit block.        *)
ConvergedFaulty(o) == [o EXCEPT !.phase = "converged"]

(* process_post keeps the exit invariant, mark_convergence_achieved, and    *)
(* clear_post.                                                              *)
Converged(o) ==
  [o EXCEPT !.phase = "converged",
            !.exit  = IF prog.exit[o.fun] = 0 THEN Bottom ELSE o.post[prog.exit[o.fun]],
            !.post  = [n \in DOMAIN @ |-> Bottom]]

(* run returns: all cells have run.                                         *)
Converge(ctx) ==
  LET o == live[ctx]
  IN  /\ o.phase = "run" /\ o.done = Cells(Order(o.fun))
      /\ live' = [live EXCEPT ![ctx] = Converged(o)]
      /\ UNCHANGED <<prog, checked, missing>>

------------------------------------------------------------------------------
(* The check pass: run_checks.                                              *)

(* Faulty: a callee waits for the checks of all others.                     *)
MayCheckLate(ctx) ==
  \/ ctx = <<>>
  \/ LET o == live[Caller(ctx)]
     IN  /\ o.phase = "check"
         /\ \A c \in CalleesAt(Caller(ctx), CallOf(ctx)) \ {ctx} : live[c].phase = "checked"

(* The entry point runs its checks itself, a callee is told by its caller   *)
(* when the callees before it in the vector are checked.                    *)
MayCheck(ctx) ==
  \/ ctx = <<>>
  \/ LET o == live[Caller(ctx)]
     IN  /\ o.phase = "check"
         /\ \A c \in CalleesAt(Caller(ctx), CallOf(ctx)) : live[c].phase # "run"
         /\ \A f \in o.opened[CallOf(ctx)].callees : FunctionAt(ctx) <= f

StartChecks(ctx) ==
  /\ live[ctx].phase = "converged"
  /\ MayCheck(ctx)
  /\ live' = [live EXCEPT ![ctx].phase = "check"]
  /\ UNCHANGED <<prog, checked, missing>>

Checking(ctx) == live[ctx].phase = "check" /\ live[ctx].next \in Graph(live[ctx].fun).node
                   /\ live[ctx].opened = <<>>

(* The checkers see block n of ctx at v.                                    *)
RecordCheck(ctx, n, v) ==
  LET old == IF <<ctx, n>> \in DOMAIN checked THEN checked[<<ctx, n>>].times ELSE 0
  IN  checked' = With(checked, [b \in {<<ctx, n>>} |-> [times |-> old + 1, value |-> v]])

(* A block whose statements need no callee.  Stored fixpoints that the loop *)
(* over the callees has taken before it meets a recursive one are lost.     *)
CheckBlock(ctx) ==
  LET o == live[ctx]
      n == o.next
      v == o.pre[n]
      taken == IF ~ HasCall(o.fun, n) \/ v = Bottom \/ AtContextLimit(ctx) THEN {}
               ELSE Collected(ctx, n, v)
  IN  /\ Checking(ctx)
      /\ ~ NeedsCallees(ctx, n, v)
      /\ RecordCheck(ctx, n, v)
      /\ live' = [live EXCEPT ![ctx] =
                    [o EXCEPT !.next = @ + 1, !.cache = Without(@, {n} \X taken)]]
      /\ missing' = IF ~ prog.cached THEN missing
                    ELSE missing \cup {Callee(ctx, n, f) :
                                         f \in {g \in taken : <<n, g>> \notin DOMAIN o.cache}}
      /\ UNCHANGED prog

(* A call without a cache: the callees are analyzed again.                  *)
CheckCallAgain(ctx) ==
  LET o == live[ctx]
      n == o.next
      v == o.pre[n]
  IN  /\ Checking(ctx)
      /\ NeedsCallees(ctx, n, v) /\ ~ prog.cached
      /\ RecordCheck(ctx, n, v)
      /\ live' = With([live EXCEPT ![ctx] = Open(o, ctx, n, v)], NewCallees(ctx, n, v))
      /\ UNCHANGED <<prog, missing>>

(* A call with a cache: the stored fixpoints are moved out of it.  One that *)
(* is not there is a null pointer, and is dereferenced at once.             *)
CheckCachedCall(ctx) ==
  LET o == live[ctx]
      n == o.next
      v == o.pre[n]
      slots == {n} \X Collected(ctx, n, v)
      found == slots \cap DOMAIN o.cache
  IN  /\ Checking(ctx)
      /\ NeedsCallees(ctx, n, v) /\ prog.cached
      /\ RecordCheck(ctx, n, v)
      /\ live' = With([live EXCEPT ![ctx] = [Open(o, ctx, n, v) EXCEPT
                                                !.cache = Without(@, found)]],
                      [c \in {Append(ctx, s) : s \in found} |-> o.cache[Last(c)]])
      /\ missing' = missing \cup {Append(ctx, s) : s \in slots \ found}
      /\ UNCHANGED prog

(* Faulty: the caller checks the block of the call once more.               *)
AfterCalleeFaulty(m, n, f) ==
  LET rest == m.opened[n].callees \ {f}
  IN  IF rest = {} THEN [m EXCEPT !.opened = Without(@, {n})]
      ELSE [m EXCEPT !.opened = [@ EXCEPT ![n].callees = rest]]

(* The caller goes on to the next callee, or to its next block.             *)
AfterCallee(m, n, f) ==
  LET rest == m.opened[n].callees \ {f}
  IN  IF rest = {} THEN [m EXCEPT !.opened = Without(@, {n}), !.next = @ + 1]
      ELSE [m EXCEPT !.opened = [@ EXCEPT ![n].callees = rest]]

(* run_checks returns.  The caller saves the object, or deletes it.         *)
EndChecks(ctx) ==
  LET o == live[ctx]
      m == live[Caller(ctx)]
      n == CallOf(ctx)
  IN  /\ o.phase = "check" /\ o.next \notin Graph(o.fun).node
      /\ \/ /\ ctx = <<>>
            /\ live' = [live EXCEPT ![ctx].phase = "checked"]
         \/ /\ ctx # <<>>
            /\ live' = [Without(live, {ctx}) EXCEPT ![Caller(ctx)] =
                 [AfterCallee(m, n, FunctionAt(ctx)) EXCEPT
                    !.cache = IF prog.cached THEN Store(@, Caller(ctx), Restrict(live, {ctx}))
                              ELSE @]]
      /\ UNCHANGED <<prog, checked, missing>>

Next ==
  /\ missing = {}
  /\ \E ctx \in DOMAIN live :
       \/ RunBlock(ctx) \/ BeginCall(ctx) \/ EndCall(ctx)
       \/ CheckStabilization(ctx) \/ Converge(ctx)
       \/ StartChecks(ctx) \/ CheckBlock(ctx) \/ CheckCallAgain(ctx)
       \/ CheckCachedCall(ctx) \/ EndChecks(ctx)

Spec == Init /\ [][Next]_vars

(* A worker that runs a task goes on, and tasks are taken.                  *)
FairSpec == Spec /\ WF_vars(Next)
------------------------------------------------------------------------------
(* What the analyzed program can do: the states that reach a block of a     *)
(* context ("in") and that leave it ("out").  After a call that is not      *)
(* inlined nothing is known of the state.                                   *)

StepsFrom(p, seen) ==
  LET Fun(ctx)   == IF ctx = <<>> THEN p.main ELSE Last(ctx)[2]
      Known(ctx) == {p.main} \cup {ctx[i][2] : i \in 1..Len(ctx)}
      Calls(e)   == e.n \in DOMAIN p.target[Fun(e.ctx)]
      Target(e)  == p.target[Fun(e.ctx)][e.n][e.s]
      Opaque(e)  == Target(e) \in Known(e.ctx) \/ (p.limit # 0 /\ Len(e.ctx) + 1 >= p.limit)
      Into(e)    == [e EXCEPT !.ctx = Append(@, <<e.n, Target(e)>>),
                              !.n = p.cfg[Target(e)].entry]
      After(e)   ==
        IF ~ Calls(e) THEN p.effect[Fun(e.ctx)][e.n][e.s]
        ELSE IF Target(e) = NoFunction THEN {}
        ELSE IF Opaque(e) THEN State
        ELSE IF Target(e) \notin DOMAIN p.cfg THEN {e.s}
        ELSE {r.s : r \in {r \in seen : /\ r.at = "out"
                                        /\ r.ctx = Append(e.ctx, <<e.n, Target(e)>>)
                                        /\ r.n = p.exit[Target(e)]}}
      in  == {e \in seen : e.at = "in"}
      out == seen \ in
  IN  UNION {{[e EXCEPT !.at = "out", !.s = t] : t \in After(e)} : e \in in}
      \cup {Into(e) : e \in {e \in in : Calls(e) /\ ~ Opaque(e) /\ Target(e) \in DOMAIN p.cfg}}
      \cup UNION {{[e EXCEPT !.at = "in", !.n = m] : m \in CfgSucc(p.cfg[Fun(e.ctx)], e.n)} :
                     e \in out}

Executions(p) ==
  LET start == {[ctx |-> <<>>, n |-> p.cfg[p.main].entry, s |-> s, at |-> "in"] : s \in State}
      bound == 40      \* bound: no program here has a chain of more facts
      seen[k \in 0..bound] == IF k = 0 THEN start
                              ELSE LET old == seen[k - 1] IN old \cup StepsFrom(p, old)
  IN  seen[bound]

ExecutionsOf == [p \in Programs |-> Executions(p)]

------------------------------------------------------------------------------
(* Properties.                                                              *)

Checked == live[<<>>].phase = "checked"

(* The checks miss no behaviour: every state in which the program can enter *)
(* a block, on whatever path of calls, is one of those that the block was   *)
(* checked for on that path, whichever iterations and workers made the      *)
(* fixpoints and wherever they were stored meanwhile (run_checks).          *)
ChecksCover ==
  Checked =>
    \A e \in ExecutionsOf[prog] :
      e.at = "in" => /\ <<e.ctx, e.n>> \in DOMAIN checked
                     /\ e.s \in checked[<<e.ctx, e.n>>].value

(* No block is checked twice on one path of calls, so that no result is     *)
(* reported twice: analyses that are thrown away, and the fixpoint pass as  *)
(* a whole, check nothing (_check_callees).                                 *)
CheckedOnce == \A b \in DOMAIN checked : checked[b].times = 1

(* The fixpoint that the check pass takes from the cache was computed for   *)
(* at least the value with which the callee is called now: it is the one of *)
(* the last iteration of the block, not one that an earlier iteration or    *)
(* another worker left there (_calls_cache).  A head that calls breaks it   *)
(* where narrowing is not iterated.                                         *)
CacheFresh ==
  \A ctx \in DOMAIN live :
    ctx # <<>> /\ live[Caller(ctx)].phase = "check" =>
      live[Caller(ctx)].pre[CallOf(ctx)] \subseteq live[ctx].inv

(* The comment of the check pass promises "the previously computed          *)
(* fix-point" of every callee that it comes to (cc_inliner.hpp).            *)
CachedFixpointFound == missing = {}

(* The analysis of the program ends, with all functions checked: the        *)
(* caller's fixpoint waits for those of its callees, down every path.       *)
Terminates == <>Checked
==============================================================================
