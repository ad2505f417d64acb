---------------------------- MODULE PointerAnalysis ----------------------------
(****************************************************************************)
(* The pointer analyses (analyzer/src/analysis/pointer/function.cpp and     *)
(* pointer.cpp): the statements of a program become constraints             *)
(* (analyzer/.../pointer/constraint.hpp), whatever their order, and these   *)
(* are solved one after the other until nothing changes                     *)
(* (core/include/ikos/core/domain/pointer/solver.hpp).  This is done twice: *)
(* a first time without numbers and without calls through pointers, to find *)
(* the functions that pointers point to, and then with both.                *)
(*                                                                          *)
(* After that the program runs, in any order of its statements; a value is  *)
(* an object and an offset.  A variable has the name of the object whose    *)
(* address it always holds: a function, a global or local variable, the     *)
(* memory of an aggregate.  A statement is a record of its kind, what it    *)
(* writes (to) and reads (from, element), and the interval of a shift (by). *)
(****************************************************************************)
EXTENDS Integers, Sequences, SequencesExt, FiniteSets, FiniteSetsExt, Functions

CONSTANTS Programs, OffsetBits, Threshold, RegisterBits,
          MaxSteps          \* bound on the length of a run

ASSUME BoundsAssumption == OffsetBits \in Nat \ {0} /\ {Threshold, MaxSteps} \subseteq Nat

I == INSTANCE IntervalDomain

VARIABLES
  program,         \* what is analyzed, and runs afterwards
  phase,
  pointers,        \* of the solver
  memory,
  iteration,
  position,        \* of the next constraint
  changed,
  functions,       \* result of the function pointer analysis
  env,             \* of the run
  heap,
  steps

solver == <<pointers, memory, iteration, position, changed>>
run    == <<env, heap, steps>>
vars   == <<program, phase, solver, functions, run>>

Offsets   == [w |-> OffsetBits, s |-> FALSE]
Zero      == I!Constant(0)
AnyOffset == I!Top(Offsets)

------------------------------------------------------------------------------
(* Pointer values: the solver only meets bottom, and values that may be     *)
(* null and uninitialized.                                                  *)

PointsTo(addrs, offset) == [addrs |-> addrs, offset |-> offset]
Bottom                  == PointsTo({}, I!Bottom(Offsets))
IsBottom(v)             == v.addrs = {}
Leq(v, u)               == v.addrs \subseteq u.addrs /\ I!Leq(v.offset, u.offset)
Join(v, u)      == PointsTo(v.addrs \cup u.addrs, I!Join(v.offset, u.offset, Offsets))
Widen(v, u)     == PointsTo(v.addrs \cup u.addrs, I!Widen(v.offset, u.offset, Offsets))
AddOffset(v, i) == PointsTo(v.addrs, I!Abstract("add", v.offset, i, Offsets))

------------------------------------------------------------------------------
(* Constraints.                                                             *)

VarOp(v, offset)  == [kind |-> "variable", of |-> v, offset |-> offset]
AddrOp(m, offset) == [kind |-> "address", of |-> m, offset |-> offset]

AssignCst(v, op) == [kind |-> "assign", at |-> v, operand |-> op]
StoreCst(p, op)  == [kind |-> "store", at |-> p, operand |-> op]
LoadCst(v, op)   == [kind |-> "load", at |-> v, operand |-> op]

Copy(v, w)  == AssignCst(v, VarOp(w, Zero))
Address(m)  == AssignCst(m, AddrOp(m, Zero))

(* A variable without a name holds what is copied. *)
MemCopy(dest, src) ==
  LET tmp == dest \o " <- " \o src
  IN  <<LoadCst(tmp, VarOp(src, Zero)), StoreCst(dest, VarOp(tmp, Zero))>>

(* An aggregate lies in memory. *)
WriteAggregate(p, a) == <<Address(a)>> \o MemCopy(p, a)

Param(f, k)  == program.functions[f].params[k]
ReturnOf(f)  == program.functions[f].result
IsFunction(m) == m \in DOMAIN program.functions
IsValidCall(s, f) ==
  /\ Len(s.args) = Len(program.functions[f].params)
  /\ s.result # "" => ReturnOf(f) # ""

(* The functions that a call through a pointer may reach.                   *)
Callees(s, isFirst) ==
  IF s.direct THEN {s.called}
  ELSE IF isFirst \/ s.called \notin DOMAIN functions THEN {}
  ELSE {m \in functions[s.called].addrs : IsFunction(m) /\ IsValidCall(s, m)}

CallConstraints(s, f) ==
  [k \in 1..Len(s.args) |-> Copy(Param(f, k), s.args[k])]
    \o IF s.result = "" THEN <<>>
       ELSE IF s.aggregate THEN <<Address(s.result), Copy(ReturnOf(f), s.result)>>
       ELSE <<Copy(s.result, ReturnOf(f))>>

(* The first analysis knows no numbers. *)
ShiftBy(s, isFirst) == IF isFirst THEN AnyOffset ELSE s.by

(* The constraint of a cast from an integer is made, and not added.         *)
ValueConstraints(s, isFirst) ==
  CASE s.kind = "object"    -> <<Address(s.to)>>
    [] s.kind = "assign"    -> <<Copy(s.to, s.from)>>
    [] s.kind \in {"null", "inttoptr"} -> <<>>
    [] s.kind = "copyagg"   -> <<Address(s.to)>> \o WriteAggregate(s.to, s.from)
    [] s.kind = "returnagg" -> WriteAggregate(s.to, s.from)
    [] s.kind = "shift"     -> <<AssignCst(s.to, VarOp(s.from, ShiftBy(s, isFirst)))>>
    [] s.kind = "shiftnull" -> <<AssignCst(s.to, AddrOp("absolute_zero", ShiftBy(s, isFirst)))>>
    [] OTHER                -> <<>>

MemoryConstraints(s) ==
  CASE s.kind = "load"      -> <<LoadCst(s.to, VarOp(s.from, Zero))>>
    [] s.kind = "store"     -> <<StoreCst(s.to, VarOp(s.from, Zero))>>
    [] s.kind = "loadagg"   -> <<Address(s.to)>> \o MemCopy(s.to, s.from)
    [] s.kind = "storeagg"  -> WriteAggregate(s.to, s.from)
    [] s.kind = "extract"   -> <<Address(s.from), LoadCst(s.to, VarOp(s.from, Zero))>>
    [] s.kind = "insert"    -> <<Address(s.to)>> \o WriteAggregate(s.to, s.from)
                                 \o <<StoreCst(s.to, VarOp(s.element, Zero))>>
    [] s.kind \in {"insertagg", "shuffle"} ->
         <<Address(s.to)>> \o WriteAggregate(s.to, s.from) \o WriteAggregate(s.to, s.element)
    [] OTHER                -> <<>>

IntrinsicConstraints(s) ==
  CASE s.kind = "new"       -> <<AssignCst(s.to, AddrOp(s.from, Zero))>>
    [] s.kind = "memcpy"    -> MemCopy(s.to, s.from)
    [] s.kind = "search"    -> <<AssignCst(s.to, VarOp(s.from, AnyOffset))>>
    [] OTHER                -> <<>>

StatementConstraints(s, isFirst) ==
  IF s.kind = "call"
  THEN FlattenSeq(SetToSeq({CallConstraints(s, f) : f \in Callees(s, isFirst)}))
  ELSE ValueConstraints(s, isFirst) \o MemoryConstraints(s) \o IntrinsicConstraints(s)

Constraints(isFirst) ==
  FlattenSeq([k \in 1..Len(program.statements) |->
                StatementConstraints(program.statements[k], isFirst)])

------------------------------------------------------------------------------
(* The solver.                                                              *)

Lookup(map, x) == IF x \in DOMAIN map THEN map[x] ELSE Bottom

OperandValue(op) ==
  IF op.kind = "variable" THEN AddOffset(Lookup(pointers, op.of), op.offset)
  ELSE PointsTo({op.of}, op.offset)

ExtrapolatedFaulty(before, after) ==
  IF Leq(after, before) THEN before ELSE Join(before, after)

Extrapolated(before, after) ==
  IF Leq(after, before) THEN before
  ELSE IF iteration < Threshold THEN Join(before, after) ELSE Widen(before, after)

(* The values are added to map at x one after the other. *)
Added(map, x, values) ==
  LET upTo[k \in 0..Len(values)] ==
        IF k = 0 THEN Lookup(map, x) ELSE Extrapolated(upTo[k - 1], values[k])
  IN  (x :> upTo[Len(values)]) @@ map

IsChangeFaulty(map, x, values) == Added(map, x, values)[x].addrs # Lookup(map, x).addrs

IsChange(map, x, values) == \E k \in 1..Len(values) : ~Leq(values[k], Lookup(map, x))

ProcessAssign(cst) ==
  LET values == <<OperandValue(cst.operand)>> IN
  /\ cst.kind = "assign"
  /\ pointers' = Added(pointers, cst.at, values)
  /\ changed' = (changed \/ IsChange(pointers, cst.at, values))
  /\ UNCHANGED memory

ProcessStore(cst) ==
  LET addrs  == Lookup(pointers, cst.at).addrs
      values == <<OperandValue(cst.operand)>>
  IN  /\ cst.kind = "store"
      /\ memory' = [m \in addrs |-> Added(memory, m, values)[m]] @@ memory
      /\ changed' = (changed \/ \E m \in addrs : IsChange(memory, m, values))
      /\ UNCHANGED pointers

(* The order of the locations is that of their indices. *)
ProcessLoad(cst) ==
  \E order \in SetToSeqs(OperandValue(cst.operand).addrs) :
     LET values == [k \in 1..Len(order) |-> Lookup(memory, order[k])] IN
     /\ cst.kind = "load"
     /\ pointers' = IF order = <<>> THEN pointers ELSE Added(pointers, cst.at, values)
     /\ changed' = (changed \/ IsChange(pointers, cst.at, values))
     /\ UNCHANGED memory

Process ==
  LET csts == Constraints(phase = "functions") IN
  /\ phase \in {"functions", "pointers"} /\ position <= Len(csts)
  /\ ProcessAssign(csts[position]) \/ ProcessStore(csts[position]) \/ ProcessLoad(csts[position])
  /\ position' = position + 1
  /\ UNCHANGED <<program, phase, iteration, functions, run>>

EndIteration ==
  /\ phase \in {"functions", "pointers"} /\ position > Len(Constraints(phase = "functions"))
  /\ changed
  /\ iteration' = iteration + 1 /\ position' = 1 /\ changed' = FALSE
  /\ UNCHANGED <<program, phase, pointers, memory, functions, run>>

(* The second analysis is a system of its own. *)
EndFunctions ==
  /\ phase = "functions" /\ position > Len(Constraints(TRUE)) /\ ~changed
  /\ phase' = "pointers" /\ functions' = pointers
  /\ pointers' = <<>> /\ memory' = <<>> /\ iteration' = 1 /\ position' = 1
  /\ UNCHANGED <<program, changed, run>>

EndPointers ==
  /\ phase = "pointers" /\ position > Len(Constraints(FALSE)) /\ ~changed
  /\ phase' = "run"
  /\ UNCHANGED <<program, solver, functions, run>>

------------------------------------------------------------------------------
(* The run.  A value of no object of the program is outside.                *)

At(m, o)       == [object |-> m, offset |-> o]
Outside        == At("outside", 0)
Moved(v, d)    == At(v.object, (v.offset + d) % 2^OffsetBits)
IsSet(v)       == v \in DOMAIN env
IsInside(x)    == x.object # "outside"
Points(v)      == IsSet(v) /\ IsInside(env[v])
Written(c, x)  == heap' = (c :> x) @@ heap

(* The values that a statement may give to the variable it writes.          *)
Values(s) ==
  CASE s.kind = "new" -> {At(s.from, 0)}
    [] s.kind \in {"null", "inttoptr"} -> {Outside}
    [] s.kind = "shiftnull" -> {At("absolute_zero", d) : d \in s.by.lb..s.by.ub}
    [] s.kind = "assign" /\ IsSet(s.from) -> {env[s.from]}
    [] s.kind = "shift" /\ IsSet(s.from) -> {Moved(env[s.from], d) : d \in s.by.lb..s.by.ub}
    [] s.kind = "search" /\ IsSet(s.from) -> {Moved(env[s.from], d) : d \in 0..1}
    [] s.kind = "load" /\ IsSet(s.from) -> {heap[c] : c \in {env[s.from]} \cap DOMAIN heap}
    [] s.kind = "extract" -> {heap[c] : c \in {At(s.from, 0), At(s.from, 1)} \cap DOMAIN heap}
    [] OTHER -> {}

Assign(s) == \E v \in Values(s) : env' = (s.to :> v) @@ env /\ UNCHANGED heap

(* The cells of blocks of two, copied: the later ones over the first ones.  *)
Block(from, to) ==
  LET held == {k \in 0..1 : Moved(from, k) \in DOMAIN heap}
  IN  [c \in {Moved(to, k) : k \in held} |->
         heap[Moved(from, CHOOSE k \in held : c = Moved(to, k))]]

Write(s) ==
  /\ \/ /\ s.kind = "store" /\ Points(s.to) /\ IsSet(s.from)
        /\ Written(env[s.to], env[s.from])
     \/ /\ s.kind = "memcpy" /\ Points(s.to) /\ Points(s.from)
        /\ heap' = Block(env[s.from], env[s.to]) @@ heap
     \/ /\ s.kind = "loadagg" /\ Points(s.from)
        /\ heap' = Block(env[s.from], At(s.to, 0)) @@ heap
     \/ /\ s.kind = "storeagg" /\ Points(s.to)
        /\ heap' = Block(At(s.from, 0), env[s.to]) @@ heap
     \/ /\ s.kind \in {"copyagg", "returnagg"}
        /\ heap' = Block(At(s.from, 0), At(s.to, 0)) @@ heap
     \/ /\ s.kind = "insert" /\ IsSet(s.element)
        /\ \E k \in 0..1 : heap' = (At(s.to, k) :> env[s.element])
                                     @@ Block(At(s.from, 0), At(s.to, 0)) @@ heap
     \/ /\ s.kind \in {"insertagg", "shuffle"}
        /\ \E k \in 0..1 : heap' = Block(At(s.element, 0), At(s.to, k))
                                     @@ Block(At(s.from, 0), At(s.to, 0)) @@ heap
  /\ UNCHANGED env

Called(s) == IF s.direct THEN {s.called}
             ELSE {m \in DOMAIN program.functions :
                     IsSet(s.called) /\ env[s.called] = At(m, 0) /\ IsValidCall(s, m)}

Enter(s) ==
  /\ s.kind = "call"
  /\ \E f \in Called(s) :
       LET params == program.functions[f].params IN
       /\ \A k \in 1..Len(params) : IsSet(s.args[k])
       /\ env' = [p \in Range(params) |-> env[s.args[CHOOSE k \in 1..Len(params) : params[k] = p]]]
                   @@ env
  /\ UNCHANGED heap

Leave(s) ==
  /\ s.kind = "call" /\ s.result # ""
  /\ \E f \in Called(s) :
       IF s.aggregate
       THEN heap' = Block(At(ReturnOf(f), 0), At(s.result, 0)) @@ heap /\ UNCHANGED env
       ELSE IsSet(ReturnOf(f)) /\ env' = (s.result :> env[ReturnOf(f)]) @@ env /\ UNCHANGED heap

Step ==
  /\ phase = "run" /\ steps < MaxSteps
  /\ \E k \in 1..Len(program.statements) :
       LET s == program.statements[k]
       IN  Assign(s) \/ Write(s) \/ Enter(s) \/ Leave(s)
  /\ <<env, heap>>' # <<env, heap>>
  /\ steps' = steps + 1
  /\ UNCHANGED <<program, phase, solver, functions>>

------------------------------------------------------------------------------
Init ==
  /\ program \in Programs /\ phase = "functions"
  /\ pointers = <<>> /\ memory = <<>> /\ iteration = 1 /\ position = 1 /\ changed = FALSE
  /\ functions = <<>>
  /\ env = [m \in {s.to : s \in {s \in Range(program.statements) : s.kind = "object"}} |-> At(m, 0)]
  /\ heap = <<>> /\ steps = 0

Next == Process \/ EndIteration \/ EndFunctions \/ EndPointers \/ Step

Spec == Init /\ [][Next]_vars

------------------------------------------------------------------------------
(* The values that an abstract value stands for. *)
Covers(v, x) == x.object \in v.addrs /\ I!Contains(v.offset, x.offset)

(* An aggregate on its way to the caller lies in no object of the program. *)
IsReturned(m) == \E f \in DOMAIN program.functions : m = ReturnOf(f)

(* Whatever the order in which the statements run, a pointer to an object   *)
(* of the program is one that the analyses found, and what is stored in a   *)
(* cell is one of "all the pointers stored at m": every statement has the   *)
(* constraints of all it does, through memory and calls, and the solver     *)
(* stops only when they hold.                                               *)
PointsToSound ==
  phase = "run" =>
    /\ \A v \in DOMAIN env :
         IsInside(env[v]) => v \notin DOMAIN pointers \/ Covers(pointers[v], env[v])
    /\ \A c \in {c \in DOMAIN heap : ~IsReturned(c.object)} :
         IsInside(heap[c]) => Covers(Lookup(memory, c.object), heap[c])

(* The number of iterations depends on the variables and objects, not on    *)
(* the width of an offset: after the threshold, each change of a cell adds  *)
(* an object or moves a bound to its limit.                                 *)
Changes(map) == MapThenSumSet(LAMBDA x : Cardinality(map[x].addrs) + 2, DOMAIN map)

SolvedSoon == iteration <= Threshold + Changes(pointers) + Changes(memory)

=============================================================================
