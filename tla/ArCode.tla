-------------------------------- MODULE ArCode --------------------------------
(****************************************************************************)
(* The body of a function of the abstract representation, as                *)
(* ar/src/semantic/code.cpp keeps it: basic blocks in the order of their    *)
(* creation, statements, edges, an entry and an exit.  A block is a number  *)
(* that is not used again; predecessors and successors are one relation,    *)
(* for every operation of the code updates both ends.                       *)
(****************************************************************************)
EXTENDS Naturals, Sequences, FiniteSets

None == 0

EmptyCode == [block |-> <<>>, stmts |-> <<>>, edges |-> {}, entry |-> None, exit |-> None]

NewBlock(code) == Len(code.stmts) + 1
Live(code) == {code.block[i] : i \in DOMAIN code.block}
Succs(code, b) == {e[2] : e \in {d \in code.edges : d[1] = b}}
Preds(code, b) == {e[1] : e \in {d \in code.edges : d[2] = b}}

Create(code, stmts) ==
  [code EXCEPT !.block = Append(@, NewBlock(code)), !.stmts = Append(@, stmts)]
AddSuccessor(code, b, succ) == [code EXCEPT !.edges = @ \cup {<<b, succ>>}]
ClearSuccessors(code, b) == [code EXCEPT !.edges = {e \in @ : e[1] # b}]
ClearPredecessors(code, b) == [code EXCEPT !.edges = {e \in @ : e[2] # b}]
PushBack(code, b, stmt) == [code EXCEPT !.stmts[b] = Append(@, stmt)]
PopBack(code, b) == [code EXCEPT !.stmts[b] = SubSeq(@, 1, Len(@) - 1)]

(* erase_basic_block aborts on the entry and on the exit.                   *)
MayErase(code, b) == b # code.entry /\ b # code.exit
Erase(code, b) ==
  LET cut == ClearSuccessors(ClearPredecessors(code, b), b)
  IN  [cut EXCEPT !.stmts[b] = <<>>,
                  !.block = SelectSeq(@, LAMBDA x : x # b)]

LastStatement(code, b) == code.stmts[b][Len(code.stmts[b])]
EndsWith(code, b, kinds) ==
  code.stmts[b] # <<>> /\ LastStatement(code, b).op \in kinds
==============================================================================
