----------------------------- MODULE WpoSchedule -----------------------------
(****************************************************************************)
(* What scheduling by a weak partial order promises: every cell runs once   *)
(* per iteration of the components around it, after everything it is        *)
(* ordered after, and a component is repeated only as a whole, from its     *)
(* head, when its exit finds that it is not stable.  The concurrent         *)
(* iterator (concurrent_fwd_fixpoint_iterator.hpp) implements this with     *)
(* counters, worklists and a pool of tasks.                                 *)
(****************************************************************************)
EXTENDS Wpo

CONSTANTS
  Programs,   \* names of the functions under analysis
  WpoOf       \* their weak partial orders

VARIABLES
  prog, wpo,  \* the function under analysis and its order
  done,       \* cells that have run in the current iteration around them
  running     \* cells that are scheduled or run now

svars == <<prog, wpo, done, running>>

SInit ==
  /\ prog \in Programs
  /\ wpo = WpoOf[prog]
  /\ done = {}
  /\ running = {GetEntry(wpo)}

(* The last predecessor of c has run.                                       *)
Schedule(c) ==
  /\ c \notin done \cup running
  /\ wpo.pred[c] \subseteq done
  /\ running' = running \cup {c}
  /\ UNCHANGED <<prog, wpo, done>>

Complete(c) ==
  /\ c \in running
  /\ done' = done \cup {c}
  /\ running' = running \ {c}
  /\ UNCHANGED <<prog, wpo>>

(* The component of exit x runs again, and its head first.                  *)
Repeat(x) ==
  /\ x \in running
  /\ wpo.comp[x] \subseteq done \cup {x}
  /\ done' = done \ wpo.comp[x]
  /\ running' = (running \ {x}) \cup {HeadOfExit(x)}
  /\ UNCHANGED <<prog, wpo>>

SNext ==
  \/ \E c \in Cells(wpo) : Schedule(c) \/ Complete(c)
  \/ \E x \in Exits(wpo) : Repeat(x)

SSpec == SInit /\ [][SNext]_svars
==============================================================================
