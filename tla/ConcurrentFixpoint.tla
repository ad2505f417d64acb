-------------------------- MODULE ConcurrentFixpoint --------------------------
(****************************************************************************)
(* The concurrent forward fixpoint iterator: class                          *)
(* InterleavedCFwdFixpointIterator                                          *)
(* (core/include/ikos/core/fixpoint/concurrent_fwd_fixpoint_iterator.hpp).  *)
(*                                                                          *)
(* Each cell of the weak partial order counts the control predecessors that *)
(* have run.  The worker that runs the last predecessor of a cell schedules *)
(* the cell, on its own worklist or as a task that any worker may take.     *)
(* Every access to shared memory of the body of tbb::parallel_do is a step  *)
(* of a worker here: the read of one predecessor's invariant, the write of  *)
(* an invariant, the reset of a counter, the increment of one successor's   *)
(* counter.  The abstract domain is a parameter.                            *)
(****************************************************************************)
EXTENDS Wpo

CONSTANTS
  Workers,                    \* threads of the TBB scheduler
  Programs,                   \* names of the functions under analysis
  CfgOf, WpoOf,               \* their control flow graphs and weak partial orders
  Partition(_, _),            \* partition of a block (0: none)
  Value, Bottom, InitValue,   \* abstract values
  Leq(_, _), Join(_, _), JoinIter(_, _), JoinLoop(_, _),
  Widen(_, _), Narrow(_, _),
  HasHint(_, _),              \* does the profile give a widening hint for a head?
  WidenThreshold(_, _, _, _), \* widening with that hint
  HasNarrowing(_),            \* does the domain iterate its narrowing?
  AnalyzeEdge(_, _, _, _),    \* transfer functions of edges and of blocks
  AnalyzeNode(_, _, _)

(* What the construction of the weak partial order guarantees.              *)
ASSUME OrdersWellFormed ==
  \A p \in Programs : WellFormed(WpoOf[p], CfgOf[p])

(* The operators of the abstract domain and the transfer functions yield    *)
(* abstract values.                                                         *)
ASSUME ValuesClosed ==
  /\ {Bottom, InitValue} \subseteq Value
  /\ \A a, b \in Value :
       {Join(a, b), JoinIter(a, b), JoinLoop(a, b), Widen(a, b), Narrow(a, b)}
         \subseteq Value
  /\ \A p \in Programs : \A n \in CfgOf[p].node :
       /\ \A a \in Value :
            /\ AnalyzeNode(p, n, a) \in Value
            /\ \A m \in CfgOf[p].node : AnalyzeEdge(p, m, n, a) \in Value
       /\ \A a, b \in Value : WidenThreshold(p, n, a, b) \in Value

VARIABLES
  prog,      \* the function under analysis
  cfg, wpo,  \* its control flow graph and weak partial order (_cfg, _wpo)
  pre, post, \* invariants before and after each block (_pre, _post)
  kind,      \* _iteration_kind of each cell
  count,     \* _iteration_count of each cell
  executed,  \* _executed_control_preds of each cell
  pool,      \* tasks given to the TBB scheduler: number of tasks of each cell
  pc,        \* where each worker is
  wl,        \* its worklist (wl of Body::operator())
  cell,      \* the cell it popped from the worklist
  cur,       \* the cell whose rule it applies
  unread,    \* predecessor blocks whose invariant it has still to read
  acc,       \* what it has joined so far: inputs, and back edges of a loop
  todo,      \* cells whose counter it has still to restore or to increment
  finished,  \* has tbb::parallel_do returned?
  done       \* history: cells that have run in the current iteration of the
             \* components around them; no guard reads it

input == <<prog, cfg, wpo>>
data == <<pre, post, kind, count>>
task == <<wl, cell, cur>>
vars == <<input, data, executed, pool, pc, task, unread, acc, todo, finished, done>>

Cell == Cells(wpo)
Type(c) == wpo.type[c]
Pred(c) == wpo.pred[c]
Succ(c) == wpo.succ[c]
(* The block of a plain or head cell; an exit works on its header cell.     *)
Block(c) == wpo.node[c]
Outside(n, p) == IsFromOutside(wpo, n, p)

Comp(x) == wpo.comp[x]

PartitionOf(c) == IF Type(c) = "exit" THEN 0 ELSE Partition(prog, Block(c))

------------------------------------------------------------------------------
(* The strategy of the analysis of a function: extrapolate and              *)
(* is_decreasing_iterations_fixpoint of FunctionFixpoint.                   *)

Extrapolate(head, iteration, before, after) ==
  IF iteration <= 1 THEN JoinIter(before, after)
  ELSE IF iteration = 2 /\ HasHint(prog, head)
       THEN WidenThreshold(prog, head, before, after)
  ELSE Widen(before, after)

DecreasingFixpoint(before, after) == HasNarrowing(prog) => Leq(before, after)

(* _iteration_count++.  Bound: iterations from the third on are not told    *)
(* apart, as extrapolate does not.                                          *)
LaterIteration == 3
NextIteration(i) == IF i < LaterIteration THEN i + 1 ELSE i

------------------------------------------------------------------------------
(* run: the cells are made from the weak partial order, and the entry cell  *)
(* is the only task.                                                        *)

(* Between two rules the locals of a worker have no meaning.                *)
NoValue == [in |-> Bottom, back |-> Bottom]
NoCell == GetEntry(wpo)

Init ==
  /\ prog \in Programs
  /\ cfg = CfgOf[prog]
  /\ wpo = WpoOf[prog]
  /\ pre = [n \in cfg.node |-> IF n = cfg.entry THEN InitValue ELSE Bottom]
  /\ post = [n \in cfg.node |-> Bottom]
  /\ kind = [c \in Cell |-> "increasing"]
  /\ count = [c \in Cell |-> 0]
  /\ executed = [c \in Cell |-> 0]
  /\ pool = [c \in Cell |-> IF c = GetEntry(wpo) THEN 1 ELSE 0]
  /\ pc = [w \in Workers |-> "idle"]
  /\ wl = [w \in Workers |-> <<>>]
  /\ cell = [w \in Workers |-> NoCell]
  /\ cur = [w \in Workers |-> NoCell]
  /\ unread = [w \in Workers |-> {}]
  /\ acc = [w \in Workers |-> NoValue]
  /\ todo = [w \in Workers |-> {}]
  /\ finished = FALSE
  /\ done = {}

------------------------------------------------------------------------------
(* Body::operator(): tasks, the worklist, and the successors of a cell.     *)

(* Faulty: an exit joins the inputs of its loop only.                       *)
InputsFaulty(c) ==
  IF Type(c) # "plain"
  THEN {p \in CfgPred(cfg, Block(c)) : Outside(Block(c), p)}
  ELSE CfgPred(cfg, Block(c))

(* The predecessors whose invariants the rule of c joins.                   *)
Inputs(c) ==
  IF Type(c) = "head"
  THEN {p \in CfgPred(cfg, Block(c)) : Outside(Block(c), p)}
  ELSE CfgPred(cfg, Block(c))

(* Faulty: a head joins its inputs in every iteration.                      *)
JoinsInputsFaulty(c) == TRUE

(* apply_header_rule joins its inputs in the first iteration only.          *)
JoinsInputs(c) == Type(c) # "head" \/ count[c] = 0

(* A rule begins; apply_plain_rule starts from the initial invariant in the *)
(* entry block.                                                             *)
BeginRule(w, c) ==
  LET joins == JoinsInputs(c)
      start == IF Type(c) = "plain" /\ Block(c) = cfg.entry
               THEN pre[Block(c)] ELSE Bottom
  IN  /\ pc' = [pc EXCEPT ![w] = IF joins THEN "read" ELSE "analyze"]
      /\ unread' = [unread EXCEPT ![w] = IF joins THEN Inputs(c) ELSE {}]
      /\ acc' = [acc EXCEPT ![w] = [in |-> start, back |-> Bottom]]
      /\ cur' = [cur EXCEPT ![w] = c]

Take(w) ==
  /\ pc[w] = "idle"
  /\ \E c \in Cell :
       /\ pool[c] > 0
       /\ pool' = [pool EXCEPT ![c] = @ - 1]
       /\ wl' = [wl EXCEPT ![w] = <<c>>]
  /\ pc' = [pc EXCEPT ![w] = "loop"]
  /\ UNCHANGED <<input, data, executed, cell, cur, unread, acc, todo, finished, done>>

Pop(w) ==
  /\ pc[w] = "loop" /\ todo[w] = {} /\ wl[w] # <<>>
  /\ cell' = [cell EXCEPT ![w] = Head(wl[w])]
  /\ wl' = [wl EXCEPT ![w] = Tail(@)]
  /\ BeginRule(w, Head(wl[w]))
  /\ UNCHANGED <<input, data, executed, pool, todo, finished, done>>

EndTask(w) ==
  /\ pc[w] = "loop" /\ todo[w] = {} /\ wl[w] = <<>>
  /\ pc' = [pc EXCEPT ![w] = "idle"]
  /\ cell' = [cell EXCEPT ![w] = NoCell]
  /\ cur' = [cur EXCEPT ![w] = NoCell]
  /\ UNCHANGED <<input, data, executed, pool, wl, unread, acc, todo, finished, done>>

(* Keep the successor on this worker, or spawn a task for it?               *)
Reuse(w, s) ==
  \/ wl[w] = <<>>
  \/ Type(s) = "exit"
  \/ PartitionOf(s) <= 0
  \/ PartitionOf(cell[w]) = PartitionOf(s)

(* Faulty: off by one, the last predecessor but one schedules the cell too. *)
IsLastToTellEarly(s) == executed[s] + 2 >= NumPreds(wpo, s)

(* Faulty: off by one, no predecessor schedules the cell.                   *)
IsLastToTellLate(s) == executed[s] + 1 > NumPreds(wpo, s)

(* The value of the counter before it is incremented tells whether this is  *)
(* the last predecessor.                                                    *)
IsLastToTell(s) == executed[s] + 1 >= NumPreds(wpo, s)

(* Increment the counter of the next successor, in the order of the cells,  *)
(* and schedule it when this was its last predecessor.                      *)
Notify(w) ==
  /\ pc[w] = "loop"
  /\ \E s \in todo[w] :
       /\ \A t \in todo[w] : s <= t
       /\ todo' = [todo EXCEPT ![w] = @ \ {s}]
       /\ executed' = [executed EXCEPT ![s] = @ + 1]
       /\ \/ ~ IsLastToTell(s) /\ UNCHANGED <<wl, pool>>
          \/ /\ IsLastToTell(s) /\ Reuse(w, s)
             /\ wl' = [wl EXCEPT ![w] = Append(@, s)] /\ UNCHANGED pool
          \/ /\ IsLastToTell(s) /\ ~ Reuse(w, s)
             /\ pool' = [pool EXCEPT ![s] = @ + 1] /\ UNCHANGED wl
  /\ UNCHANGED <<input, data, pc, cell, cur, unread, acc, finished, done>>

------------------------------------------------------------------------------
(* The rules: apply_plain_rule, apply_header_rule, apply_exit_rule.         *)

(* What worker w has joined when it has read predecessor p too: an exit     *)
(* keeps the inputs of its loop and the back edges apart.                   *)
Joined(w, p) ==
  LET n     == Block(cur[w])
      value == AnalyzeEdge(prog, p, n, post[p])
  IN  IF Type(cur[w]) = "exit" /\ ~ Outside(n, p)
      THEN [acc[w] EXCEPT !.back = Join(@, value)]
      ELSE [acc[w] EXCEPT !.in = Join(@, value)]

(* Join the invariant of one predecessor, in the order of the blocks.       *)
Read(w) ==
  /\ pc[w] = "read"
  /\ \E p \in unread[w] :
       /\ \A q \in unread[w] : p <= q
       /\ unread' = [unread EXCEPT ![w] = @ \ {p}]
       /\ acc' = [acc EXCEPT ![w] = Joined(w, p)]
  /\ UNCHANGED <<input, data, executed, pool, pc, task, todo, finished, done>>

(* All inputs of a plain cell, or of a head in its first iteration, are in. *)
SetPre(w) ==
  /\ pc[w] = "read" /\ unread[w] = {} /\ Type(cur[w]) # "exit"
  /\ pre' = [pre EXCEPT ![Block(cur[w])] = acc[w].in]
  /\ count' = [count EXCEPT ![cur[w]] = IF Type(cur[w]) = "head" THEN 1 ELSE @]
  /\ pc' = [pc EXCEPT ![w] = "analyze"]
  /\ acc' = [acc EXCEPT ![w] = NoValue]
  /\ UNCHANGED <<input, post, kind, executed, pool, task, unread, todo, finished, done>>

Analyze(w) ==
  /\ pc[w] = "analyze"
  /\ LET n == Block(cur[w])
     IN  post' = [post EXCEPT ![n] = AnalyzeNode(prog, n, pre[n])]
  /\ pc' = [pc EXCEPT ![w] = "reset"]
  /\ UNCHANGED <<input, pre, kind, count, executed, pool, task, unread, acc, todo,
                 finished, done>>

(* Faulty: the counter of a cell that runs does not restart.                *)
RestartFaulty(c) == UNCHANGED executed

(* _executed_control_preds = 0                                              *)
Restart(c) == executed' = [executed EXCEPT ![c] = 0]

(* The rule is applied: its counter restarts and its successors are due.    *)
Reset(w) ==
  /\ pc[w] = "reset"
  /\ Restart(cur[w])
  /\ todo' = [todo EXCEPT ![w] = Succ(cur[w])]
  /\ done' = done \cup {cur[w]}
  /\ pc' = [pc EXCEPT ![w] = "loop"]
  /\ UNCHANGED <<input, data, pool, task, unread, acc, finished>>

(* Faulty: the next time the loop is entered, it only decreases.            *)
LeaveLoopFaulty(h) ==
  /\ kind' = [kind EXCEPT ![h] = "decreasing"]
  /\ count' = [count EXCEPT ![h] = 0]

(* The loop is stable, and will be entered afresh.                          *)
LeaveLoop(h) ==
  /\ kind' = [kind EXCEPT ![h] = "increasing"]
  /\ count' = [count EXCEPT ![h] = 0]

(* check_stabilization_and_widen_in_join_node, when all predecessors of the *)
(* head are read: widen, or refine once the increasing iterations have      *)
(* reached a post-fixpoint, until no refinement is left.                    *)
Check(w) ==
  LET x        == cur[w]
      h        == HeadOfExit(x)
      n        == Block(x)
      new      == JoinLoop(acc[w].in, acc[w].back)
      widening == kind[h] = "increasing" /\ ~ Leq(new, pre[n])
      turn     == IF kind[h] = "increasing" THEN 1 ELSE count[h]
      refined  == Narrow(pre[n], new)
      stable   == ~ widening /\ DecreasingFixpoint(pre[n], refined)
  IN  /\ pc[w] = "read" /\ unread[w] = {} /\ Type(x) = "exit"
      /\ \/ /\ widening
            /\ pre' = [pre EXCEPT ![n] = Extrapolate(n, count[h], @, new)]
            /\ count' = [count EXCEPT ![h] = NextIteration(@)]
            /\ UNCHANGED kind
         \/ /\ ~ widening /\ ~ stable
            /\ pre' = [pre EXCEPT ![n] = refined]
            /\ kind' = [kind EXCEPT ![h] = "decreasing"]
            /\ count' = [count EXCEPT ![h] = NextIteration(turn)]
         \/ /\ stable
            /\ pre' = [pre EXCEPT ![n] = refined]
            /\ LeaveLoop(h)
      /\ pc' = [pc EXCEPT ![w] = IF stable THEN "reset" ELSE "unstable"]
      /\ acc' = [acc EXCEPT ![w] = NoValue]
      /\ UNCHANGED <<input, post, executed, pool, task, unread, todo, finished, done>>

(* Faulty: all but one predecessor are taken for outer ones.                *)
RestoredFaulty(x, c) == NumPreds(wpo, c) - 1

(* get_num_outer_preds                                                      *)
Restored(x, c) == wpo.outer[x][c]

(* Not stabilized: the counter of the exit restarts, and the cells of the   *)
(* component are to be told of the outer predecessors that do not run again.*)
ResetComponent(w) ==
  LET x == cur[w]
  IN  /\ pc[w] = "unstable"
      /\ Restart(x)
      /\ todo' = [todo EXCEPT ![w] = DOMAIN wpo.outer[x]]
      /\ cur' = [cur EXCEPT ![w] = HeadOfExit(x)]
      /\ done' = done \ Comp(x)
      /\ pc' = [pc EXCEPT ![w] = "restore"]
      /\ UNCHANGED <<input, data, pool, wl, cell, unread, acc, finished>>

(* Faulty: the counters of the component are not restored.                  *)
RestoreFaulty(w) ==
  /\ pc[w] = "restore"
  /\ \E c \in todo[w] : todo' = [todo EXCEPT ![w] = @ \ {c}]
  /\ UNCHANGED <<input, data, executed, pool, pc, task, unread, acc, finished, done>>

(* set_executed_control_preds_for_component                                 *)
Restore(w) ==
  /\ pc[w] = "restore"
  /\ \E c \in todo[w] :
       /\ executed' = [executed EXCEPT ![c] = Restored(cell[w], c)]
       /\ todo' = [todo EXCEPT ![w] = @ \ {c}]
  /\ UNCHANGED <<input, data, pool, pc, task, unread, acc, finished, done>>

RunHead(w) ==
  /\ pc[w] = "restore" /\ todo[w] = {}
  /\ BeginRule(w, cur[w])
  /\ UNCHANGED <<input, data, executed, pool, wl, cell, todo, finished, done>>

(* No task is left: parallel_do returns.                                    *)
Finish ==
  /\ ~ finished
  /\ \A c \in Cell : pool[c] = 0
  /\ \A w \in Workers : pc[w] = "idle"
  /\ finished' = TRUE
  /\ UNCHANGED <<input, data, executed, pool, pc, task, unread, acc, todo, done>>

(* The steps inside of a task.                                              *)
Work(w) ==
  \/ Pop(w) \/ EndTask(w) \/ Notify(w)
  \/ Read(w) \/ SetPre(w) \/ Analyze(w) \/ Reset(w)
  \/ Check(w) \/ ResetComponent(w) \/ Restore(w) \/ RunHead(w)

Next ==
  \/ \E w \in Workers : Take(w) \/ Work(w)
  \/ Finish

Spec == Init /\ [][Next]_vars
------------------------------------------------------------------------------
(* Properties.                                                              *)

RulePcs == {"read", "analyze", "reset", "unstable", "restore"}

TypeOK ==
  /\ prog \in Programs
  /\ pre \in [cfg.node -> Value] /\ post \in [cfg.node -> Value]
  /\ kind \in [Cell -> {"increasing", "decreasing"}]
  /\ count \in [Cell -> 0..LaterIteration]
  /\ executed \in [Cell -> Nat]
  /\ pool \in [Cell -> Nat]
  /\ pc \in [Workers -> RulePcs \cup {"idle", "loop"}]
  /\ wl \in [Workers -> Seq(Cell)]
  /\ cell \in [Workers -> Cell] /\ cur \in [Workers -> Cell]
  /\ unread \in [Workers -> SUBSET cfg.node]
  /\ acc \in [Workers -> [in : Value, back : Value]]
  /\ todo \in [Workers -> SUBSET Cell]
  /\ finished \in BOOLEAN
  /\ done \in SUBSET Cell

(* Worker w applies a rule for c (a repeated component is in the hands of   *)
(* the worker that runs its head next); c waits on the worklist of w; the   *)
(* cell is scheduled or runs somewhere.                                     *)
Runs(w, c)  == pc[w] \in RulePcs /\ cur[w] = c
Waits(w, c) == \E i \in 1..Len(wl[w]) : wl[w][i] = c
Holds(w, c) == Runs(w, c) \/ Waits(w, c)
Active(c)   == pool[c] > 0 \/ \E w \in Workers : Holds(w, c)

(* No cell is scheduled twice: it is one task, or at one place of one       *)
(* worklist, or run by one worker, however the increments, the resets and   *)
(* the restored counters interleave (Body::operator()).                     *)
Exclusive ==
  /\ \A w \in Workers : \A i, j \in 1..Len(wl[w]) : wl[w][i] = wl[w][j] => i = j
  /\ \A c \in Cell :
       /\ pool[c] <= 1
       /\ \A w \in Workers :
            /\ Holds(w, c) => pool[c] = 0
            /\ \A v \in Workers : Holds(w, c) /\ Holds(v, c) => v = w
            /\ Runs(w, c) => ~ Waits(w, c)

(* Worker w has run u and has still to tell v.                              *)
Pending(w, u, v) == pc[w] = "loop" /\ cur[w] = u /\ v \in todo[w]
Notified(v) == {u \in Pred(v) \cap done : \A w \in Workers : ~ Pending(w, u, v)}
Restoring(v) == \E w \in Workers : pc[w] = "restore" /\ v \in todo[w]

(* The counter of a cell that waits is the number of its predecessors that  *)
(* have run and told so, in the current iteration of the components around  *)
(* the cell, and the last one to tell schedules the cell: neither a reset   *)
(* nor a restored counter of an irreducible loop loses or invents a         *)
(* notification (_executed_control_preds).                                  *)
CountersExact ==
  \A c \in Cell :
    /\ c \in done => executed[c] = 0
    /\ c \notin done /\ ~ Active(c) =>
         /\ Notified(c) # Pred(c)
         /\ ~ Restoring(c) => executed[c] = Cardinality(Notified(c))

(* The blocks whose posts the rule of w joins.                              *)
Joins(w) == IF pc[w] = "read" THEN Inputs(cur[w]) ELSE {}

(* The invariant tables are not locked: while a worker joins the posts of   *)
(* its predecessors no other worker writes one of them, no two workers      *)
(* touch the pre, the kind and the count of one block, and the counters     *)
(* that one worker restores no other worker increments.                     *)
RaceFree ==
  \A v, w \in Workers : v # w =>
    /\ pc[v] = "analyze" => Block(cur[v]) \notin Joins(w)
    /\ {pc[v], pc[w]} \subseteq RulePcs => Block(cur[v]) # Block(cur[w])
    /\ pc[v] = "restore" /\ pc[w] = "loop" => todo[v] \cap todo[w] = {}
    /\ pc[v] = "restore" /\ pc[w] = "restore" => todo[v] \cap todo[w] = {}

(* When parallel_do returns every cell has run, and the cells are as run()  *)
(* found them: no counter and no iteration is left half-way.                *)
CompleteWhenFinished ==
  finished =>
    /\ done = Cell
    /\ \A c \in Cell : executed[c] = 0
    /\ \A h \in Heads(wpo) : kind[h] = "increasing" /\ count[h] = 0

(* The result is a post-fixpoint of the equations of the program: it covers *)
(* the initial state, every edge and every block (run, process_pre and      *)
(* process_post).                                                           *)
PostFixpoint ==
  finished =>
    /\ Leq(InitValue, pre[cfg.entry])
    /\ \A n \in cfg.node :
         /\ Leq(AnalyzeNode(prog, n, pre[n]), post[n])
         /\ \A p \in CfgPred(cfg, n) : Leq(AnalyzeEdge(prog, p, n, post[p]), pre[n])

(* The iterations of a loop move the invariant of its head strictly up as   *)
(* long as they increase, only down when they decrease, and never turn      *)
(* upwards again before the loop is left (_iteration_kind).                 *)
IterationPhases ==
  [][\A x \in Exits(wpo) :
       LET h == HeadOfExit(x)
           n == Block(h)
           repeats == \E w \in Workers : Runs(w, x) /\ pc[w] # pc'[w] /\ pc'[w] = "unstable"
       IN  /\ repeats /\ kind'[h] = "increasing" => Leq(pre[n], pre'[n]) /\ pre[n] # pre'[n]
           /\ kind[h] = "decreasing" =>
                /\ Leq(pre'[n], pre[n])
                /\ kind'[h] = "increasing" => count'[h] = 0]_vars

(* The scheduler that this implements.                                      *)
Schedule == INSTANCE WpoSchedule WITH running <- {c \in Cell : Active(c)}
ScheduleSpec == Schedule!SSpec
==============================================================================
