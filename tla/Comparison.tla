------------------------------ MODULE Comparison ------------------------------
(****************************************************************************)
(* The comparison of the two iterators on the body of an entry point        *)
(* (analyzer/src/analysis/value/interprocedural/concurrent/comparer.cpp):   *)
(* the sequential iterator runs to its end, then the concurrent one, from   *)
(* the same invariant, and the invariants of the blocks are compared.       *)
(****************************************************************************)
EXTENDS ConcurrentFixpoint

CONSTANT WtoOf

VARIABLES wto, at, spre, spost, skind, siteration      \* of the sequential iterator

Sequential == INSTANCE SequentialFixpoint WITH
  pre <- spre, post <- spost, kind <- skind, iteration <- siteration

svars == <<wto, at, spre, spost, skind, siteration>>

CInit == Init /\ Sequential!Init

CNext ==
  \/ Sequential!Next /\ UNCHANGED vars
  \/ Sequential!Ended /\ Next /\ UNCHANGED svars

CSpec == CInit /\ [][CNext]_<<vars, svars>>

(* The sequential iterator runs on one thread, to its end; the workers of   *)
(* the concurrent one are scheduled as in ConcurrentFixpoint.               *)
FairCSpec ==
  /\ CSpec
  /\ WF_<<vars, svars>>(Sequential!Next /\ UNCHANGED vars)
  /\ \A w \in Workers : WF_<<vars, svars>>(Work(w) /\ UNCHANGED svars)
  /\ WF_<<vars, svars>>((Finish \/ \E w \in Workers : Take(w)) /\ UNCHANGED svars)
------------------------------------------------------------------------------
(* Properties.                                                              *)

(* Whatever the workers do, the concurrent iterator finds the invariants of *)
(* the sequential one: the pre of every block, and the post of the exits    *)
(* ("All runs ... should have the same invariants by design").              *)
SameInvariants ==
  finished =>
    /\ pre = spre
    /\ \A n \in cfg.node : CfgSucc(cfg, n) = {} => post[n] = spost[n]

(* Both iterators reach a fixpoint, in whatever order the workers run: no   *)
(* loop is extrapolated for ever, no task waits for a counter that nobody   *)
(* decrements.                                                              *)
BothTerminate == <>finished
==============================================================================
