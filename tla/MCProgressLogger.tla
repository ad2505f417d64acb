---------------------------- MODULE MCProgressLogger ----------------------------
(* Two workers and the thread of the analysis; the threads are model values. *)
EXTENDS ProgressLogger, TLC
CONSTANTS w1, w2, main
==============================================================================
