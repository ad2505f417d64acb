---------------------------- MODULE FixpointProfile ----------------------------
(****************************************************************************)
(* The scheduling heuristic of the concurrent iterator: before the value    *)
(* analysis, FixpointProfileAnalysis partitions the cells of the weak       *)
(* partial order of each function into heavy paths                          *)
(* (analyzer/src/analysis/fixpoint_profile.cpp), and the iterator keeps a   *)
(* path in one task (concurrent_fwd_fixpoint_iterator.hpp:486) and asks for *)
(* as many workers as there are paths (function_fixpoint.cpp:109).          *)
(*                                                                          *)
(* compute_partition sorts the cells, once or once for each context         *)
(* sensitivity up to the limit, always into the same vector.  Then for each *)
(* context sensitivity, compute_longest_path measures the cells that have   *)
(* no class yet, in the order of that vector, and walks back from the end   *)
(* of the heaviest path, until that path is not longer than MinPath.        *)
(*                                                                          *)
(* Afterwards the function is analyzed at some depth of the call stack,     *)
(* which selects one of the partitions.                                     *)
(*                                                                          *)
(* An input is [wpo, block, body, mutual, limit, threads]: the order, what  *)
(* each block holds, the bodies of the other functions and whether two of   *)
(* them call each other, and the options.  A block, or the body of a        *)
(* function, is [size, calls]: its number of statements and the callees in  *)
(* the order of the calls, where "indirect" stands for a call through a     *)
(* pointer and a name without a body for an external function.  The size of *)
(* a callee is computed once for each context sensitivity k: memo[k][f] is  *)
(* Absent, InProgress while f is being computed, or the size.               *)
(****************************************************************************)
EXTENDS Wpo, FiniteSetsExt, SequencesExt

CONSTANTS
  MinPath,        \* paths that are not longer stay in class 0 (500)
  ExitSize,       \* what an exit counts for (10)
  IndirectSize    \* what an indirect call counts for

------------------------------------------------------------------------------
(* Sizes of blocks and functions.                                           *)

Absent     == -1
InProgress == 0

EmptyMemo(bodies, limit) == [cs \in 0..limit |-> [f \in DOMAIN bodies |-> Absent]]

BelowFaulty(cs) == cs

(* The context sensitivity below a call. *)
Below(cs) == IF cs < 1 THEN cs ELSE cs - 1

RECURSIVE WithCalls(_, _, _, _), FunctionSize(_, _, _, _)

(* The result of a computation is [size, memo]. *)
WithCalls(bodies, calls, r, cs) ==
  IF calls = <<>> THEN r
  ELSE LET callee == Head(calls)
           s == IF callee = "indirect" THEN [r EXCEPT !.size = @ + IndirectSize]
                ELSE IF callee \notin DOMAIN bodies THEN r
                ELSE IF cs = 1 THEN [r EXCEPT !.size = @ + 1]
                ELSE LET c == FunctionSize(bodies, callee, r.memo, Below(cs))
                     IN  [size |-> r.size + c.size, memo |-> c.memo]
       IN WithCalls(bodies, Tail(calls), s, cs)

Store(memo, cs, f, size) == [memo EXCEPT ![cs] = [@ EXCEPT ![f] = size]]

FunctionSize(bodies, f, memo, cs) ==
  IF memo[cs][f] # Absent
  THEN [size |-> IF memo[cs][f] = InProgress THEN 1 ELSE memo[cs][f], memo |-> memo]
  ELSE LET marked == [memo EXCEPT ![cs] = [@ EXCEPT ![f] = InProgress]]
           r == WithCalls(bodies, bodies[f].calls,
                          [size |-> 1 + bodies[f].size, memo |-> marked], cs)
       IN [size |-> r.size, memo |-> Store(r.memo, cs, f, r.size)]

BlockSize(bodies, block, memo, cs) ==
  WithCalls(bodies, block.calls, [size |-> block.size, memo |-> memo], cs)

(* Reference: the size of a call tree that is cut at depth cs, or at the    *)
(* first function that occurs twice on a path when cs is 0.                 *)

RECURSIVE TreeSize(_, _, _, _)
TreeSize(bodies, block, cs, path) ==
  block.size + MapThenSumSet(
    LAMBDA i : LET f == block.calls[i] IN
      IF f = "indirect" THEN IndirectSize
      ELSE IF f \notin DOMAIN bodies THEN 0
      ELSE IF cs = 1 \/ (cs = 0 /\ f \in path) THEN 1
      ELSE 1 + TreeSize(bodies, bodies[f], IF cs = 0 THEN 0 ELSE cs - 1, path \cup {f}),
    DOMAIN block.calls)

------------------------------------------------------------------------------
VARIABLES
  input,
  pc,             \* "idle", "sort", "measure", "walk" or "done"
  passes,         \* sorts that are still to do
  worklist, counts, sorted,
  memo,           \* function_size_map
  cs,
  at,             \* position in the sort
  length,         \* node_to_path_length
  class,          \* partition, 0 for a cell that is not in it
  walk,           \* cell that the backward walk is at
  classes,        \* number_of_partitions
  partition,      \* _partition
  depth           \* number of functions under analysis, 0 before it starts

sortVars == <<passes, worklist, counts, sorted>>
pathVars == <<at, length, class, walk>>
result   == <<classes, partition>>
vars == <<input, pc, sortVars, memo, cs, pathVars, result, depth>>

------------------------------------------------------------------------------
Order == input.wpo
Limit == input.limit
AllCells == Cells(Order)
Entries == {c \in AllCells : NumPreds(Order, c) = 0}

(* [size, memo] of a cell, at context sensitivity k. *)
NodeSize(c, k) ==
  IF Order.type[c] = "exit" THEN [size |-> ExitSize, memo |-> memo]
  ELSE LET b == BlockSize(input.body, input.block[Order.node[c]], memo, k)
       IN  [b EXCEPT !.size = @ + 1]

Zero == [c \in AllCells |-> 0]

(* No function has an order yet.                                            *)
Init ==
  /\ input = <<>> /\ pc = "idle"
  /\ passes = 0 /\ worklist = <<>> /\ counts = <<>> /\ sorted = <<>>
  /\ memo = <<>> /\ cs = 0
  /\ at = 0 /\ length = <<>> /\ class = <<>> /\ walk = 0
  /\ classes = <<>> /\ partition = <<>> /\ depth = 0

Begin(i) ==
  /\ pc = "idle"
  /\ input' = i
  /\ pc' = "sort"
  /\ passes' = IF i.limit = 0 THEN 1 ELSE i.limit
  /\ worklist' = SetToSeq(Entries')
  /\ counts' = Zero'
  /\ sorted' = <<>>
  /\ memo' = EmptyMemo(i.body, i.limit)
  /\ cs' = IF i.limit = 0 THEN 0 ELSE 1
  /\ at' = 1 /\ length' = Zero' /\ class' = Zero' /\ walk' = 0
  /\ classes' = [k \in 0..i.limit |-> 0]
  /\ partition' = [k \in 0..i.limit |-> Zero']
  /\ depth' = 0

------------------------------------------------------------------------------
(* compute_topological_sort.  The sizes it adds up are not used, but the    *)
(* sizes of the callees are remembered.                                     *)

ReadyFaulty(c) == counts'[c] = 1

Ready(c) == counts'[c] = NumPreds(Order, c)

SortNode ==
  /\ pc = "sort" /\ worklist # <<>>
  /\ LET c == Head(worklist)
         next == SetToSortSeq(Order.succ[c], <)
     IN /\ counts' = [s \in AllCells |-> counts[s] + IF s \in Order.succ[c] THEN 1 ELSE 0]
        /\ worklist' = Tail(worklist) \o SelectSeq(next, Ready)
        /\ sorted' = Append(sorted, c)
        /\ memo' = NodeSize(c, IF Limit = 0 THEN 0 ELSE 1).memo
  /\ UNCHANGED <<input, pc, passes, cs, pathVars, result, depth>>

SortAgain ==
  /\ pc = "sort" /\ worklist = <<>> /\ passes > 1
  /\ passes' = passes - 1
  /\ worklist' = SetToSeq(Entries)
  /\ counts' = Zero
  /\ UNCHANGED <<input, pc, sorted, memo, cs, pathVars, result, depth>>

SortDone ==
  /\ pc = "sort" /\ worklist = <<>> /\ passes = 1
  /\ pc' = "measure"
  /\ UNCHANGED <<input, sortVars, memo, cs, pathVars, result, depth>>

------------------------------------------------------------------------------
(* compute_longest_path. *)

Unclassified == {c \in AllCells : class[c] = 0}

MaxOrZero(S) == IF S = {} THEN 0 ELSE Max(S)

LongestInput(c) == MaxOrZero({length[p] : p \in Order.pred[c] \cap Unclassified})

Measure ==
  /\ pc = "measure" /\ at <= Len(sorted) /\ Unclassified # {}
  /\ LET c == sorted[at] IN
       IF class[c] # 0 THEN UNCHANGED <<length, memo>>
       ELSE LET n == NodeSize(c, cs)
            IN /\ length' = [length EXCEPT ![c] = LongestInput(c) + n.size]
               /\ memo' = n.memo
  /\ at' = at + 1
  /\ UNCHANGED <<input, pc, sortVars, cs, class, walk, result, depth>>

Measured == pc = "measure" /\ (at > Len(sorted) \/ Unclassified = {})

FarthestFaulty(S) == Max(S)

(* The last of the cells at which a path of this length ends. *)
Farthest(S) == Max({c \in S : \A d \in S : length[d] <= length[c]})

Longest == MaxOrZero({length[c] : c \in Unclassified})

StartWalk ==
  /\ Measured /\ Longest > MinPath
  /\ pc' = "walk"
  /\ walk' = Farthest(Unclassified)
  /\ classes' = [classes EXCEPT ![cs] = @ + 1]
  /\ UNCHANGED <<input, sortVars, memo, cs, at, length, class, partition, depth>>

Color == classes[cs]

(* The predecessors that are left when c is classified. *)
NextInputs(c) == {p \in Order.pred[c] : class'[p] = 0}

Walk ==
  /\ pc = "walk"
  /\ class' = [class EXCEPT ![walk] = Color]
  /\ IF NextInputs(walk) # {}
     THEN /\ walk' = Farthest(NextInputs(walk))
          /\ UNCHANGED <<pc, at, length>>
     ELSE /\ pc' = "measure" /\ at' = 1 /\ length' = Zero
          /\ UNCHANGED walk
  /\ UNCHANGED <<input, sortVars, memo, cs, result, depth>>

(* Class 0 counts, if some cell has no other. *)
ZeroClass == IF Unclassified # {} THEN 1 ELSE 0

KeepClasses(k) ==
  /\ classes' = [classes EXCEPT ![k] = @ + ZeroClass]
  /\ partition' = [partition EXCEPT ![k] = class]

NextSensitivity ==
  /\ Measured /\ Longest <= MinPath /\ cs < Limit
  /\ KeepClasses(cs)
  /\ cs' = cs + 1
  /\ at' = 1 /\ length' = Zero /\ class' = Zero
  /\ UNCHANGED <<input, pc, sortVars, memo, walk, depth>>

Finish ==
  /\ Measured /\ Longest <= MinPath /\ cs = Limit
  /\ KeepClasses(cs)
  /\ pc' = "done"
  /\ UNCHANGED <<input, sortVars, memo, cs, pathVars, depth>>

------------------------------------------------------------------------------
(* The analysis of the function: as an entry point, or as a callee at any   *)
(* depth at which calls are still inlined (has_reached_context_sensitivity_ *)
(* limit).  Without a limit the depth does not matter.                      *)

HasReachedLimitFaulty == Limit # 0 /\ depth > Limit

HasReachedLimit == Limit # 0 /\ depth >= Limit

Analyze ==
  /\ pc = "done" /\ depth = 0
  /\ depth' = 1
  /\ UNCHANGED <<input, pc, sortVars, memo, cs, pathVars, result>>

Deeper ==
  /\ depth > 0 /\ ~HasReachedLimit
  /\ Limit # 0
  /\ depth' = depth + 1
  /\ UNCHANGED <<input, pc, sortVars, memo, cs, pathVars, result>>

PartitionIndex == IF Limit = 0 THEN 0 ELSE depth

(* number_of_partitions is 1 outside of the vector. *)
NumberOfPartitions(k) == IF k \in 0..Limit THEN classes[k] ELSE 1

MaxParallelism(n, threads) ==
  CASE n <= 1                     -> 2
    [] threads = 0                -> n + 1
    [] threads # 0 /\ n > threads -> threads + 1
    [] OTHER                      -> n + 1

Next ==
  \/ SortNode \/ SortAgain \/ SortDone
  \/ Measure \/ StartWalk \/ Walk \/ NextSensitivity \/ Finish
  \/ Analyze \/ Deeper

------------------------------------------------------------------------------
(* Reference: the weight of the heaviest path in a set of cells; a path goes *)
(* from predecessor to successor.                                           *)
HeaviestTo(S, k) ==
  LET w == [c \in S |-> NodeSize(c, k).size]
      to[c \in S] == w[c] + MaxOrZero({to[p] : p \in Order.pred[c] \cap S})
  IN  [c \in S |-> to[c]]

Heaviest(S, k) == LET to == HeaviestTo(S, k) IN MaxOrZero({to[c] : c \in S})

(* When a path is chosen, every cell that has no class has been measured    *)
(* after its inputs, although the vector of the sort holds each cell as     *)
(* many times as there are sensitivities (compute_topological_sort).        *)
LengthsExact ==
  Measured => length = [c \in AllCells |->
                          IF c \in Unclassified THEN HeaviestTo(Unclassified, cs)[c] ELSE 0]

Partitioned == IF pc = "done" THEN 0..Limit ELSE 0..(cs - 1)
ClassOf(k, n) == {c \in AllCells : partition[k][c] = n}
Computed == {k \in Partitioned : Limit = 0 \/ k > 0}

(* A class other than 0 is a heaviest path of what the classes before it    *)
(* have left, and what is left in class 0 has no path longer than MinPath.  *)
(* On a path one cell is before the other, so that two cells of a class     *)
(* never run side by side and one task is enough for them                   *)
(* (compute_longest_path; push_back and feeder.add in the iterator's body).  *)
ClassesAreHeaviestPaths ==
  pc = "done" /\ depth = 0 =>
    LET before == Before(Order) IN
    \A k \in Computed :
      /\ Heaviest(ClassOf(k, 0), k) <= MinPath
      /\ \A n \in {partition[k][c] : c \in AllCells} \ {0} :
           LET weight == MapThenSumSet(LAMBDA c : NodeSize(c, k).size, ClassOf(k, n))
               left   == {c \in AllCells : partition[k][c] = 0 \/ partition[k][c] >= n}
           IN  /\ weight > MinPath /\ weight = Heaviest(left, k)
               /\ \A c, d \in ClassOf(k, n) : c # d => c \in before[d] \/ d \in before[c]

(* At every depth at which a function is analyzed, its partition has been   *)
(* computed, the classes that it uses are counted, and the iterator gets    *)
(* more than one worker ("Return value has to be greater than 1",           *)
(* function_fixpoint.cpp:108), one for each class and the calling thread    *)
(* unless there are not as many threads.                                    *)
ParallelismFits ==
  depth > 0 =>
    LET k == PartitionIndex
        n == NumberOfPartitions(k)
        workers == MaxParallelism(n, input.threads)
    IN  /\ k \in Computed
        /\ n = Cardinality({partition[k][c] : c \in AllCells})
        /\ workers > 1
        /\ workers <= n + 1
        /\ input.threads # 0 => workers <= input.threads + 1
        /\ workers = n + 1 \/ workers = input.threads + 1

(* What the profile has remembered of a callee is the size of its tree of   *)
(* calls and does not depend on the caller that was first to ask            *)
(* (compute_function_size).  Only without a limit on the depth, and for     *)
(* functions that call each other, the first one that is asked for is cut   *)
(* short in the others.                                                     *)
SizesExact ==
  pc # "idle" =>
  \A k \in 0..Limit : \A f \in DOMAIN input.body :
    memo[k][f] # Absent =>
      (k > 0 \/ ~input.mutual =>
         memo[k][f] = 1 + TreeSize(input.body, input.body[f], k, {f}))
==============================================================================
