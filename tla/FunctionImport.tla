---------------------------- MODULE FunctionImport ----------------------------
(****************************************************************************)
(* The translation of the body of an LLVM function to the abstract          *)
(* representation (frontend/llvm/src/import/function.cpp) and the pass that *)
(* simplifies its graph (ar/src/pass/simplify_cfg.cpp).                     *)
(*                                                                          *)
(* A block of an LLVM function becomes a main block, an input block per     *)
(* incoming block when it has phi instructions, and as many output blocks   *)
(* as its comparisons and its branch distinguish outcomes.                  *)
(*                                                                          *)
(* LLVM registers are Booleans, "0" and "1".  A comparison tests something   *)
(* unknown, a binary operation is a negation, and a call stands for the     *)
(* statements that the translation does not look into.                      *)
(****************************************************************************)
EXTENDS ArCode, SequencesExt

CONSTANT Functions      \* the LLVM functions: sequences of blocks of instructions

VARIABLES
  fun,        \* _llvm_fun
  phase,      \* what is being done
  worklist,   \* LLVM blocks to translate
  blocks,     \* _blocks: the translation of each LLVM block that has one
  code,       \* _body
  cursor      \* next element of the loop that the phase is in

importVars == <<fun, phase, worklist, blocks, code, cursor>>

Const(v) == v \in {"0", "1"}

(* The operands of an instruction.                                          *)
Operands(i) ==
  CASE i.op = "phi"                             -> [k \in DOMAIN i.from |-> i.from[k][2]]
    [] i.op \in {"binary", "call", "invoke", "ret"} -> <<i.arg>>
    [] i.op = "branch"                          -> <<i.cond>>
    [] OTHER                                    -> <<>>
Terminator(f, b) == f[b][Len(f[b])]
LlvmSuccs(f, b) ==
  LET t == Terminator(f, b)
  IN  CASE t.op = "jump" -> <<t.to>>
        [] t.op \in {"branch", "invoke"} -> <<t.yes, t.no>>
        [] OTHER -> <<>>
Phis(f, b) == SelectSeq(f[b], LAMBDA i : i.op = "phi")
OnlyUse(f, r) ==
  Cardinality({<<b, k, j>> \in (1..Len(f)) \X (1..5) \X (1..3) :
                 /\ k \in DOMAIN f[b]
                 /\ j \in DOMAIN Operands(f[b][k])
                 /\ Operands(f[b][k])[j] = r}) = 1

-----------------------------------------------------------------------------
(* A translation in progress: the code, the main block and the outputs, each *)
(* with the LLVM block that will follow it.                                  *)
Output(b, succ) == [block |-> b, succ |-> succ]

AddOutput(tr, src, dest, stmts) ==
  LET b == NewBlock(tr.code)
  IN  [tr EXCEPT !.code = AddSuccessor(Create(@, stmts), src, b),
                 !.outputs = Append(@, Output(b, dest))]

MergeOutputs(tr) ==
  IF Len(tr.outputs) < 2 THEN tr
  ELSE LET b == NewBlock(tr.code)
           Link(c, o) == AddSuccessor(c, o.block, b)
       IN  [tr EXCEPT !.code = FoldLeft(Link, Create(@, <<>>), tr.outputs),
                      !.outputs = <<Output(b, None)>>]

AddStatement(tr, stmt) ==
  LET Push(c, o) == PushBack(c, o.block, stmt)
  IN  [tr EXCEPT !.code = FoldLeft(Push, @, tr.outputs)]

(* Mutant: no block for a side without statements.                          *)
SplitOutputsFaulty(tr, yes, yesStmts, no, noStmts) ==
  LET Side(t, o, dest, stmts) ==
        IF stmts # <<>> THEN AddOutput(t, o.block, dest, stmts)
        ELSE [t EXCEPT !.outputs = Append(@, Output(o.block, dest))]
      Split(t, o) == Side(Side(t, o, yes, yesStmts), o, no, noStmts)
  IN  FoldLeft(Split, [tr EXCEPT !.outputs = <<>>], tr.outputs)

(* Two outputs in the place of each one.                                    *)
SplitOutputs(tr, yes, yesStmts, no, noStmts) ==
  LET Split(t, o) ==
        AddOutput(AddOutput(t, o.block, yes, yesStmts), o.block, no, noStmts)
  IN  FoldLeft(Split, [tr EXCEPT !.outputs = <<>>], tr.outputs)

AddComparison(tr, r) ==
  LET Side(v) == <<[op |-> "assume", of |-> r, value |-> v],
                   [op |-> "assign", to |-> r, arg |-> v]>>
  IN  SplitOutputs(tr, None, Side("1"), None, Side("0"))

AddUnconditionalBranching(tr, succ) ==
  [tr EXCEPT !.outputs = [k \in DOMAIN @ |-> Output(@[k].block, succ)]]

(* Does every output end with the assignment of the outcome of cond?        *)
HasAssignPreds(tr, cond) ==
  \A k \in DOMAIN tr.outputs :
    LET b == tr.outputs[k].block
    IN  /\ EndsWith(tr.code, b, {"assign"})
        /\ LastStatement(tr.code, b).to = cond
        /\ Const(LastStatement(tr.code, b).arg)

AddConditionalBranching(f, tr, i) ==
  LET removeAssign == OnlyUse(f, i.cond)
      Pop(c, o)    == PopBack(c, o.block)
      Follow(o)    == Output(o.block, IF LastStatement(tr.code, o.block).arg = "0" THEN i.no ELSE i.yes)
      Test(v)      == IF removeAssign THEN <<>>
                      ELSE <<[op |-> "test", of |-> i.cond, value |-> v]>>
  IN  IF HasAssignPreds(tr, i.cond)
      THEN [tr EXCEPT !.outputs = [k \in DOMAIN @ |-> Follow(@[k])],
                      !.code = IF removeAssign THEN FoldLeft(Pop, @, tr.outputs) ELSE @]
      ELSE SplitOutputs(tr, i.yes, Test("1"), i.no, Test("0"))

AddNondeterministicBranching(tr, i) == SplitOutputs(tr, i.yes, <<>>, i.no, <<>>)

(* The invoke is the last statement and names the blocks that follow it.    *)
AddInvoke(tr, i) ==
  LET b == NewBlock(tr.code)
      stmt == [op |-> "invoke", arg |-> i.arg, normal |-> b, exception |-> b + 1]
  IN  SplitOutputs(AddStatement(tr, stmt), i.yes, <<>>, i.no, <<>>)

TranslateBranch(f, tr, i) ==
  CASE i.cond = "undef" -> AddNondeterministicBranching(tr, i)
    [] Const(i.cond)    -> AddUnconditionalBranching(tr, IF i.cond = "0" THEN i.no ELSE i.yes)
    [] OTHER            -> AddConditionalBranching(f, tr, i)

KeepsOutputs == {"cmp", "binary", "branch", "jump"}

TranslateInstruction(f, tr0, i) ==
  LET tr == IF i.op \in KeepsOutputs THEN tr0 ELSE MergeOutputs(tr0)
  IN  CASE i.op = "phi"    -> tr
        [] i.op = "cmp"    -> AddComparison(tr, i.to)
        [] i.op = "jump"   -> AddUnconditionalBranching(tr, i.to)
        [] i.op = "branch" -> TranslateBranch(f, tr, i)
        [] i.op = "invoke" -> AddInvoke(tr, i)
        [] OTHER           -> AddStatement(tr, i)

-----------------------------------------------------------------------------
Init ==
  /\ fun \in Functions
  /\ phase = "translate" /\ worklist = <<1>>
  /\ blocks = <<>> /\ code = EmptyCode /\ cursor = 1

(* translate_basic_blocks, one turn: a block of the worklist is translated  *)
(* unless it has been, and then its successors follow.                      *)
TranslateBlock ==
  /\ phase = "translate" /\ worklist # <<>>
  /\ LET b     == Head(worklist)
         main  == NewBlock(code)
         start == [code |-> Create(code, <<>>), outputs |-> <<Output(main, None)>>]
         Step(tr, i) == TranslateInstruction(fun, tr, i)
         tr    == FoldLeft(Step, start, fun[b])
     IN  IF b \in DOMAIN blocks
         THEN worklist' = Tail(worklist) /\ UNCHANGED <<blocks, code>>
         ELSE /\ worklist' = Tail(worklist) \o LlvmSuccs(fun, b)
              /\ blocks' = (b :> [main |-> main, inputs |-> <<>>, outputs |-> tr.outputs])
                              @@ blocks
              /\ code' = [tr.code EXCEPT !.entry = IF b = 1 THEN main ELSE @]
  /\ UNCHANGED <<fun, phase, cursor>>

Translated ==
  /\ phase = "translate" /\ worklist = <<>>
  /\ phase' = "phi" /\ UNCHANGED <<fun, worklist, blocks, code, cursor>>

(* The loops over the LLVM blocks leave out those without a translation.    *)
Advance(next) ==
  IF cursor < Len(fun) THEN cursor' = cursor + 1 /\ UNCHANGED phase
  ELSE cursor' = 1 /\ phase' = next

Skip ==
  /\ phase \in {"phi", "link"} /\ cursor \notin DOMAIN blocks
  /\ Advance(IF phase = "phi" THEN "link" ELSE "unify")
  /\ UNCHANGED <<fun, worklist, blocks, code>>

(* translate_phi_late: an assignment in the input block of each incoming    *)
(* block, which is created when the first one comes.                        *)
InputOf(t, pred) ==
  IF pred \in DOMAIN t.inputs THEN t
  ELSE [t EXCEPT !.inputs = (pred :> NewBlock(t.code)) @@ @,
                 !.code = AddSuccessor(Create(@, <<>>), NewBlock(@), t.main)]
AssignPhi(t, phi) ==
  LET Assign(s, in) ==
        LET u == InputOf(s, in[1])
        IN  [u EXCEPT !.code = PushBack(@, u.inputs[in[1]],
                                        [op |-> "assign", to |-> phi.to, arg |-> in[2]])]
  IN  FoldLeft(Assign, t, phi.from)

TranslatePhis ==
  /\ phase = "phi" /\ cursor \in DOMAIN blocks
  /\ LET start == [code |-> code, inputs |-> <<>>, main |-> blocks[cursor].main]
         t     == FoldLeft(AssignPhi, start, Phis(fun, cursor))
     IN  code' = t.code /\ blocks' = [blocks EXCEPT ![cursor].inputs = t.inputs]
  /\ Advance("link")
  /\ UNCHANGED <<fun, worklist>>

LinkBlock ==
  /\ phase = "link" /\ cursor \in DOMAIN blocks
  /\ LET Dest(succ) == IF blocks[succ].inputs = <<>> THEN blocks[succ].main
                       ELSE blocks[succ].inputs[cursor]
         Link(c, o) == IF o.succ = None THEN c ELSE AddSuccessor(c, o.block, Dest(o.succ))
     IN  code' = FoldLeft(Link, code, blocks[cursor].outputs)
  /\ Advance("unify")
  /\ UNCHANGED <<fun, worklist, blocks>>

ExitBlocks == SelectSeq(code.block, LAMBDA b : EndsWith(code, b, {"ret", "unreachable", "resume"}))

UnifyExitBlocks ==
  /\ phase = "unify"
  /\ IF \/ Cardinality({b \in DOMAIN fun : Terminator(fun, b).op = "ret"}) > 1
        \/ Cardinality({b \in Live(code) : EndsWith(code, b, {"ret"})}) > 1
     THEN phase' = "error" /\ UNCHANGED code
     ELSE /\ phase' = "merge"
          /\ LET b == NewBlock(code)
                 Link(c, x) == AddSuccessor(c, x, b)
             IN  code' = CASE Len(ExitBlocks) = 0 -> code
                           [] Len(ExitBlocks) = 1 -> [code EXCEPT !.exit = ExitBlocks[1]]
                           [] OTHER -> [FoldLeft(Link, Create(code, <<>>), ExitBlocks)
                                           EXCEPT !.exit = b]
  /\ UNCHANGED <<fun, worklist, blocks, cursor>>

-----------------------------------------------------------------------------
(* SimplifyCFGPass.                                                         *)
CanMerge(b) ==
  /\ Cardinality(Succs(code, b)) = 1
  /\ \A child \in Succs(code, b) :
       /\ b # child /\ child # code.entry
       /\ Cardinality(Preds(code, child)) = 1
       /\ child \notin Succs(code, child)

(* Mutant: the exit stays where it was.                                     *)
MergeWithFaulty(b, child) ==
  [code EXCEPT !.stmts[b] = @ \o code.stmts[child], !.stmts[child] = <<>>,
               !.edges = {e \in @ : b # e[1] /\ child \notin {e[1], e[2]}}
                           \cup {<<b, s>> : s \in Succs(code, child)}]

MergeWith(b, child) ==
  [code EXCEPT !.stmts[b] = @ \o code.stmts[child], !.stmts[child] = <<>>,
               !.edges = {e \in @ : b # e[1] /\ child \notin {e[1], e[2]}}
                           \cup {<<b, s>> : s \in Succs(code, child)},
               !.exit = IF @ = child THEN b ELSE @]

(* The passes over the blocks go on until one changes nothing; a block is   *)
(* merged with its child as often as it can be.                             *)
MergeBlock ==
  /\ phase = "merge" /\ CanMerge(code.block[cursor])
  /\ \E child \in Succs(code, code.block[cursor]) :
       code' = MergeWith(code.block[cursor], child)
  /\ UNCHANGED <<fun, phase, worklist, blocks, cursor>>

NextBlock ==
  /\ phase = "merge" /\ ~CanMerge(code.block[cursor])
  /\ IF cursor < Len(code.block) THEN cursor' = cursor + 1 /\ UNCHANGED phase
     ELSE /\ cursor' = 1
          /\ phase' = IF \E b \in Live(code) : CanMerge(b) THEN phase ELSE "remove"
  /\ UNCHANGED <<fun, worklist, blocks, code>>

Orphans == SelectSeq(code.block, LAMBDA b : Preds(code, b) = {} /\ b # code.entry)

RemoveUnreachable ==
  /\ phase = "remove"
  /\ IF Orphans = <<>> THEN phase' = "done" /\ UNCHANGED code
     ELSE IF \A k \in DOMAIN Orphans : MayErase(code, Orphans[k])
     THEN code' = FoldLeft(Erase, code, Orphans) /\ UNCHANGED phase
     ELSE phase' = "aborted" /\ UNCHANGED code
  /\ UNCHANGED <<fun, worklist, blocks, cursor>>

Next ==
  \/ TranslateBlock \/ Translated \/ Skip \/ TranslatePhis \/ LinkBlock
  \/ UnifyExitBlocks \/ MergeBlock \/ NextBlock \/ RemoveUnreachable

-----------------------------------------------------------------------------
(* No edge leads from a block with several successors to one with several   *)
(* predecessors, whatever the LLVM function: the concurrent iterator joins  *)
(* in a block what its predecessors hand it, and only on such graphs does   *)
(* it get the inputs of the sequential one (translate and simplify-cfg).    *)
NoCriticalEdges ==
  phase \in {"merge", "remove", "done"} =>
    \A e \in code.edges :
      Cardinality(Succs(code, e[1])) = 1 \/ Cardinality(Preds(code, e[2])) = 1
==============================================================================
