---------------------------- MODULE FunctionOrder -----------------------------
(****************************************************************************)
(* What is computed of a function before its values are: the weak partial   *)
(* order (WPO) that module WpoBuilder constructs step by step, and then its *)
(* partition into heavy paths (FixpointProfileAnalysis::analyze_function).  *)
(*                                                                          *)
(* The WPO of the concurrent iterator is compared with the weak topological *)
(* order (WTO) of the sequential one, on the graphs that the front end      *)
(* builds, which have no critical edge.                                     *)
(****************************************************************************)
EXTENDS WpoBuilder, SmallGraphs

CONSTANTS
  MinPath, ExitSize, IndirectSize,
  ProfileInputs(_, _)     \* the functions whose graph and order these are

ASSUME SizesNaturals == MinPath \in Nat /\ ExitSize \in Nat /\ ExitSize <= MinPath

VARIABLES
  input, pc, passes, worklist, counts, sorted, memo, cs,
  at, length, class, walk, classes, partition, depth

profileVars == <<input, pc, passes, worklist, counts, sorted, memo, cs,
                 at, length, class, walk, classes, partition, depth>>

W == INSTANCE Wto
P == INSTANCE FixpointProfile

Start == Init /\ P!Init

Construct == Next /\ UNCHANGED profileVars

BeginProfile ==
  /\ phase = "done"
  /\ \E i \in ProfileInputs(cfg, wpo) : P!Begin(i)
  /\ phase' = "profile"
  /\ UNCHANGED <<cfg, dfs, scc, wpo>>

Profile == P!Next /\ UNCHANGED vars

AnalyzeFunction == Construct \/ BeginProfile \/ Profile

OrderSpec == Start /\ [][AnalyzeFunction]_<<vars, profileVars>>

------------------------------------------------------------------------------
(* The two orders.                                                          *)

(* Where a cell of the WPO stands among the items of the WTO.               *)
PlaceOf(its, c) ==
  IF wpo.type[c] = "exit" THEN W!EndOf(its, wpo.node[c]) ELSE W!PositionOf(its, wpo.node[c])

(* The iterators tell the inputs of a loop from its back edges in the same  *)
(* way, the sequential one by the nestings of the blocks and the concurrent *)
(* one by their post-order numbers.  A block that jumps to itself and       *)
(* nowhere else is the exception: the nesting of a head is not its own.     *)
SameInputs ==
  phase = "done" /\ Critical(cfg) = {} =>
    LET order == W!BuildWto(cfg)
    IN  \A h \in W!HeadsOf(order.items) : \A p \in CfgPred(cfg, h) \ {h} :
          IF IsFromOutside(wpo, h, p)
          THEN W!LeqNesting(order.nesting[p], order.nesting[h])
          ELSE W!GtNesting(order.nesting[p], order.nesting[h])

(* The WTO is one of the schedules of the WPO: every scheduling constraint  *)
(* leads forward in it.                                                     *)
WtoIsASchedule ==
  phase = "done" /\ Critical(cfg) = {} =>
    LET its == W!Items(cfg)
    IN  \A c \in Cells(wpo) : \A d \in wpo.succ[c] : PlaceOf(its, c) < PlaceOf(its, d)

------------------------------------------------------------------------------
(* The partition.                                                           *)

(* When a path is chosen, every cell that has no class has been measured    *)
(* after all of its inputs.                                                 *)
LengthsExact == P!LengthsExact

(* A class is a heaviest path of what the classes before it have left, and  *)
(* class 0 has no path longer than MinPath: two cells of a class never run  *)
(* side by side, and one task is enough for them.                           *)
ClassesAreHeaviestPaths == P!ClassesAreHeaviestPaths

(* At every depth at which a function is analyzed, its partition has been   *)
(* computed and gets more than one worker, at most one for each class and   *)
(* the calling thread.                                                      *)
ParallelismFits == P!ParallelismFits

(* The size that is remembered of a callee does not depend on the caller    *)
(* that was first to ask.                                                   *)
SizesExact == P!SizesExact
==============================================================================
