--------------------------- MODULE ImportSimulation ---------------------------
(****************************************************************************)
(* An LLVM function and its translation, executed side by side.             *)
(*                                                                          *)
(* At any time after the exits are unified, the code may be analyzed as it  *)
(* is (--no-simplify-cfg is an option, and no pass reads the code between   *)
(* two steps of the simplification).  From then on the LLVM function runs,  *)
(* and ars holds every state that the code may be in after the same         *)
(* observations: outcomes of comparisons, values that calls are given and   *)
(* that are returned, and ways out of an invoke.                            *)
(****************************************************************************)
EXTENDS FunctionImport

VARIABLES
  llvm,       \* state of the LLVM function
  ars         \* states that the code may be in

vars == <<importVars, llvm, ars>>

Registers == {"p", "c", "d", "n", "x", "y", "z"}     \* "p" is the parameter
Unset == "unset"
Eval(regs, arg) == IF arg \in Registers THEN regs[arg] ELSE arg
Negation(v) == CASE v = "0" -> "1" [] v = "1" -> "0" [] OTHER -> v

-----------------------------------------------------------------------------
(* The states of the code: a block, the next statement, the registers.      *)
At(b, k, regs) == [block |-> b, next |-> k, regs |-> regs]
EndOf(b) == Len(code.stmts[b]) + 1
Statement(s) == code.stmts[s.block][s.next]
After(s) == [s EXCEPT !.next = @ + 1]

(* The steps that show nothing.                                             *)
Silently(s) ==
  IF s.next = EndOf(s.block) THEN {At(b, 1, s.regs) : b \in Succs(code, s.block)}
  ELSE LET i == Statement(s)
       IN  CASE i.op = "assign" -> {[After(s) EXCEPT !.regs[i.to] = Eval(s.regs, i.arg)]}
             [] i.op = "binary" -> {[After(s) EXCEPT !.regs[i.to] = Negation(Eval(s.regs, i.arg))]}
             [] i.op = "test"   -> {t \in {After(s)} : s.regs[i.of] = i.value}
             [] OTHER           -> {}

RECURSIVE Closure(_)
Closure(S) ==
  LET T == S \cup UNION {Silently(s) : s \in S} IN IF T = S THEN S ELSE Closure(T)

(* The step that shows event, an instruction and a value, if there is one.  *)
Observed(s, op, value) ==
  IF s.next = EndOf(s.block) THEN {}
  ELSE LET i == Statement(s)
       IN  CASE op = "cmp" ->
                  {t \in {After(s)} : i.op = "assume" /\ <<i.of, i.value>> = value}
             [] op \in {"normal", "exception"} ->
                  IF i.op = "invoke" /\ Eval(s.regs, i.arg) = value
                  THEN {At(IF op = "normal" THEN i.normal ELSE i.exception, 1, s.regs)} ELSE {}
             [] op \in {"call", "ret"} ->
                  {t \in {After(s)} : i.op = op /\ Eval(s.regs, i.arg) = value}
             [] OTHER -> {t \in {After(s)} : i.op = op}

Observe(op, value) == ars' = Closure(UNION {Observed(s, op, value) : s \in ars})

-----------------------------------------------------------------------------
(* The LLVM function.  The phi instructions of a block are executed at      *)
(* once, with the values of the registers on the edge that is taken.        *)
Incoming(phi, pred) == (CHOOSE k \in DOMAIN phi.from : phi.from[k][1] = pred)
EnterLlvm(b, regs) ==
  LET phis == Phis(fun, b)
      Value(r) == LET k == CHOOSE k \in DOMAIN phis : phis[k].to = r
                  IN  Eval(regs, phis[k].from[Incoming(phis[k], llvm.block)][2])
  IN  At(b, Len(phis) + 1,
         [r \in Registers |-> IF \E k \in DOMAIN phis : phis[k].to = r
                              THEN Value(r) ELSE regs[r]])

Analyze ==
  /\ phase \in {"merge", "remove", "done"}
  /\ phase' = "run"
  /\ \E p \in {"0", "1"} :
       LET regs == [r \in Registers |-> IF r = "p" THEN p ELSE Unset]
       IN  llvm' = At(1, 1, regs) /\ ars' = Closure({At(code.entry, 1, regs)})
  /\ UNCHANGED <<fun, worklist, blocks, code, cursor>>

Instruction == fun[llvm.block][llvm.next]

Compute ==
  LET i == Instruction
  IN  \/ /\ i.op = "cmp"
         /\ \E v \in {"0", "1"} :
              llvm' = [After(llvm) EXCEPT !.regs[i.to] = v] /\ Observe("cmp", <<i.to, v>>)
      \/ /\ i.op = "binary" /\ UNCHANGED ars
         /\ llvm' = [After(llvm) EXCEPT !.regs[i.to] = Negation(Eval(llvm.regs, i.arg))]
      \/ /\ i.op \in {"call", "ret"}
         /\ llvm' = After(llvm) /\ Observe(i.op, Eval(llvm.regs, i.arg))
      \/ /\ i.op \in {"unreachable", "resume"}
         /\ llvm' = After(llvm) /\ Observe(i.op, Unset)

Taken(i) ==
  CASE i.op = "jump" -> {i.to}
    [] i.cond = "undef" -> {i.yes, i.no}
    [] OTHER -> {IF Eval(llvm.regs, i.cond) = "1" THEN i.yes ELSE i.no}

Jump ==
  LET i == Instruction
  IN  \/ /\ i.op \in {"jump", "branch"} /\ UNCHANGED ars
         /\ \E b \in Taken(i) : llvm' = EnterLlvm(b, llvm.regs)
      \/ /\ i.op = "invoke"
         /\ \E way \in {"normal", "exception"} :
              /\ Observe(way, Eval(llvm.regs, i.arg))
              /\ llvm' = EnterLlvm(IF way = "normal" THEN i.yes ELSE i.no, llvm.regs)

Running == phase = "run" /\ llvm.next <= Len(fun[llvm.block])

SInit == Init /\ llvm = At(None, 1, <<>>) /\ ars = {}

SNext ==
  \/ Next /\ UNCHANGED <<llvm, ars>>
  \/ Analyze
  \/ Running /\ (Compute \/ Jump) /\ UNCHANGED importVars

SSpec == SInit /\ [][SNext]_vars

-----------------------------------------------------------------------------
(* Whatever the LLVM function does, its translation can do as well, and     *)
(* when the function has ended the translation can be at the end of its     *)
(* exit block: the caller is given the state of that block only.            *)
ExecutionsKept ==
  phase = "run" =>
    /\ ars # {}
    /\ Running \/ \E s \in ars : s.block = code.exit /\ s.next = EndOf(s.block)
==============================================================================
