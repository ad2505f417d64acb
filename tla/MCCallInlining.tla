--------------------------- MODULE MCCallInlining ---------------------------
(****************************************************************************)
(* Small programs on which TLC checks the inlining of calls.  States are    *)
(* the values 0 .. MaxState of one global counter, on which a function      *)
(* pointer may depend too.                                                  *)
(****************************************************************************)
EXTENDS CallInlining, WpoConstruction

CONSTANT MaxState      \* bound: the greatest state

MCState == 0..MaxState

Cfg(succ) == [node |-> DOMAIN succ, entry |-> 1, succ |-> succ]

(* Functions: a graph, its exit block, effects and calls of its blocks.     *)
Fun(succ, exit, effects, calls) ==
  [cfg |-> Cfg(succ), exit |-> exit, effects |-> effects, calls |-> calls]

(* Effects of blocks.                                                       *)
Skip    == [s \in MCState |-> {s}]
Inc     == [s \in MCState |-> {IF s < MaxState THEN s + 1 ELSE s}]
Zero    == [s \in MCState |-> {0}]
Small   == [s \in MCState |-> IF s = 0 THEN {s} ELSE {}]
Large   == [s \in MCState |-> IF s = 0 THEN {} ELSE {s}]

(* Calls: of one function, and through a pointer that depends on the state. *)
Direct(f)    == [s \in MCState |-> f]
Pointer(f, g) == [s \in MCState |-> IF s = 0 THEN f ELSE g]

Table(f) == f @@ <<>>
Tabulated(w) ==
  [type |-> Table(w.type), node |-> Table(w.node), size |-> Table(w.size),
   succ |-> Table(w.succ), pred |-> Table(w.pred),
   outer |-> Table([x \in DOMAIN w.outer |-> Table(w.outer[x])]),
   comp |-> Table(w.comp), postDfn |-> Table(w.postDfn)]

Program(main, funs, limit, cached, narrows) ==
  [main |-> main,
   cfg |-> Table([f \in DOMAIN funs |-> funs[f].cfg]),
   wpo |-> Table([f \in DOMAIN funs |-> Tabulated(BuildWpo(funs[f].cfg))]),
   exit |-> Table([f \in DOMAIN funs |-> funs[f].exit]),
   effect |-> Table([f \in DOMAIN funs |->
                Table([n \in DOMAIN funs[f].cfg.succ |->
                   IF n \in DOMAIN funs[f].effects THEN funs[f].effects[n] ELSE Skip])]),
   target |-> Table([f \in DOMAIN funs |-> funs[f].calls]),
   limit |-> limit, cached |-> cached, narrows |-> narrows]

(* Functions that programs call.                                            *)
Leaf(e)    == Fun(<< <<>> >>, 1, 1 :> e, <<>>)
Branch     == Fun(<< <<2, 3>>, <<4>>, <<4>>, <<>> >>, 4,
                  (2 :> Inc) @@ (3 :> Zero), <<>>)
Loop       == Fun(<< <<2>>, <<2, 3>>, <<>> >>, 3, 2 :> Inc, <<>>)
NoReturn   == Fun(<< <<>> >>, 0, <<>>, <<>>)
Calls(f)   == Fun(<< <<>> >>, 1, <<>>, 1 :> Direct(f))
Recursive(f) == Fun(<< <<2, 3>>, <<3>>, <<>> >>, 3, <<>>, 2 :> Direct(f))

(* Main functions: a call in a loop, with another one after it; calls in    *)
(* two branches; calls through a pointer in a loop head; nested loops.      *)
LoopMain(c, d) == Fun(<< <<2>>, <<3, 4>>, <<2>>, <<>> >>, 4,
                      1 :> Zero, (3 :> c) @@ (4 :> d))
HeadMain(c)    == Fun(<< <<2>>, <<3, 4>>, <<2>>, <<>> >>, 4,
                      (1 :> Zero) @@ (3 :> Small) @@ (4 :> Large), 2 :> c)
ForkMain(c, d) == Fun(<< <<2, 3>>, <<4>>, <<4>>, <<>> >>, 4, 1 :> Zero,
                      (2 :> c) @@ (3 :> d))

Extern == 9     \* a function that is only declared

(* Mains with the functions they call.                                      *)
Bodies ==
  {<<4, <<Branch, Loop, NoReturn, m>>>> :
      m \in {LoopMain(Direct(1), Direct(2)), HeadMain(Direct(1)),
             ForkMain(Direct(1), Direct(2)), ForkMain(Pointer(1, 2), Pointer(3, Extern)),
             LoopMain(Pointer(1, 3), Pointer(2, 1)), LoopMain(Pointer(1, Extern), Pointer(3, 1)),
             ForkMain(Pointer(2, NoFunction), Pointer(NoFunction, 1))}}
  \cup {<<4, <<Branch, Calls(1), Recursive(3), m>>>> :
      m \in {LoopMain(Pointer(2, 1), Pointer(1, 3)), ForkMain(Pointer(1, 2), Direct(3)),
             HeadMain(Pointer(2, 3))}}

InlinedPrograms ==
  {Program(b[1], b[2], limit, cached, narrows) :
     b \in Bodies, limit \in {0, 2, 3}, cached \in BOOLEAN, narrows \in BOOLEAN}

(* main calls a function or itself through a pointer.                       *)
MixedRecursion ==
  {Program(2, <<Leaf(Inc), Fun(<< <<2, 3>>, <<3>>, <<>> >>, 3, <<>>, 2 :> Pointer(1, 2))>>,
           0, TRUE, TRUE)}

(* main counts up to a bound; a table makes it call itself beyond.          *)
Under == [s \in MCState |-> IF s < MaxState THEN {s} ELSE {}]
StaleCache ==
  {Program(2, <<Leaf(Inc), Fun(<< <<2>>, <<3, 4>>, <<2>>, <<>> >>, 4, (1 :> Zero) @@ (3 :> Under),
                               2 :> [s \in MCState |-> IF s < MaxState THEN 1 ELSE 2])>>,
           0, TRUE, FALSE)}
==============================================================================
