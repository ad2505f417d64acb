--------------------------- MODULE MCFunctionImport ---------------------------
(****************************************************************************)
(* Small LLVM functions: all the ways to put together a first block, a      *)
(* second one that may be a loop, and two blocks at the end.                *)
(****************************************************************************)
EXTENDS ImportSimulation

Cmp(r) == [op |-> "cmp", to |-> r]
Not(r, a) == [op |-> "binary", to |-> r, arg |-> a]
Call(a) == [op |-> "call", arg |-> a]
Phi(r, from) == [op |-> "phi", to |-> r, from |-> from]
JumpTo(b) == [op |-> "jump", to |-> b]
Branch(c, yes, no) == [op |-> "branch", cond |-> c, yes |-> yes, no |-> no]
Invoke(a, yes, no) == [op |-> "invoke", arg |-> a, yes |-> yes, no |-> no]
Ret(a) == [op |-> "ret", arg |-> a]
Unreachable == [op |-> "unreachable"]
Resume == [op |-> "resume"]

FirstBlocks ==
  {<<Invoke("p", 2, 3)>>, <<JumpTo(2)>>}
    \cup {<<Branch(c, 2, 3)>> : c \in {"p", "undef", "0", "1"}}
    \cup {<<Branch("p", 2, 2)>>, <<Cmp("c"), Branch("c", 3, 2)>>,
          <<Cmp("c"), Call("c"), Branch("c", 2, 3)>>,
          <<Cmp("c"), Not("n", "c"), Branch("n", 2, 3)>>,
          <<Cmp("c"), Not("n", "c"), Call("n"), Invoke("c", 3, 2)>>}
    \cup {<<Cmp("c"), Cmp("d"), Branch(r, 2, 3)>> : r \in {"c", "d"}}

SecondBlocks ==
  {<<JumpTo(3)>>, <<Branch("p", 2, 3)>>, <<Branch("0", 2, 4)>>, <<Branch("1", 2, 4)>>, <<Branch("1", 4, 3)>>,
   <<Cmp("x"), Branch("x", 3, 4)>>, <<Cmp("x"), Call("x"), Branch("undef", 2, 4)>>,
   <<Phi("x", << <<1, "p">>, <<2, "y">> >>), Phi("y", << <<1, "0">>, <<2, "1">> >>),
     Call("x"), Cmp("z"), Branch("z", 2, 3)>>,
   <<Phi("x", << <<1, "1">>, <<2, "z">> >>), Not("z", "x"), Cmp("y"), Call("z"),
     Branch("y", 3, 2)>>}

(* The third block has a phi when it follows both the first and the second. *)
Joins(first, second) == 3 \in Range(LlvmSuccs(<<first>>, 1)) /\ 3 \in Range(LlvmSuccs(<<second>>, 1))
ThirdBlocks(first, second) ==
  {<<Ret("p")>>, <<Unreachable>>, <<Call("p"), Resume>>}
    \cup IF Joins(first, second)
         THEN {<<Phi("n", << <<1, "0">>, <<2, v>> >>), Ret("n")>> : v \in {"1", "p"}} ELSE {}

(* The fourth block ends as the third one does not.                         *)
FourthBlock(third) ==
  IF third[Len(third)].op = "ret" THEN <<Unreachable>> ELSE <<Call("0"), Ret("1")>>

(* Two returns, which the import refuses.                                   *)
TwoReturns == << <<Branch("p", 2, 3)>>, <<Ret("0")>>, <<Ret("1")>> >>

MCFunctions ==
  {f \in UNION {{<<a, b, c, FourthBlock(c)>> : c \in ThirdBlocks(a, b)} :
                  <<a, b>> \in FirstBlocks \X SecondBlocks} :
     Phis(f, 2) # <<>> => 2 \in Range(LlvmSuccs(f, 2)) \cap Range(LlvmSuccs(f, 1))} \cup {TwoReturns}

(* A loop that exchanges two registers.                                     *)
SwapFunctions ==
  {<< <<JumpTo(2)>>,
      <<Phi("x", << <<1, "p">>, <<2, "y">> >>), Phi("y", << <<1, "0">>, <<2, "x">> >>),
        Call("x"), Cmp("c"), Branch("c", 2, 3)>>,
      <<Ret("y")>> >>}
==============================================================================
