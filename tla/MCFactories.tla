------------------------------ MODULE MCFactories ------------------------------
(* Statements that ask for literals, cells of a heap object, aggregates and  *)
(* function pointers.                                                         *)
EXTENDS Factories, TLC

CONSTANTS w1, w2

Ask(t, arg) == RequestFor(t, arg, 0, None)

MCLocked ==
  {"literal", "local", "function_ptr", "cell", "named_shadow", "dyn_alloc",
   "call_context"}

MCInterned == {"integer_type", "pointer_type"}

(* The object that a call allocates in its context; two statements write to *)
(* the same field of it, one of them as an unsigned number of 24 bits.      *)
HeapObject ==
  <<Ask("call_context", "call"), RequestFor("dyn_alloc", "malloc", 1, None)>>

MCRequestsOf ==
  [write_signed   |-> Append(HeapObject, RequestFor("cell", "field", 2, "signed")),
   write_unsigned |-> Append(HeapObject, RequestFor("cell", "field", 2, "unsigned")),
   literals       |-> <<Ask("literal", "table"), Ask("literal", "f")>>,
   aggregate      |-> <<Ask("pointer_type", "void"),
                        Ask("named_shadow", "write.ptr")>>]

MCStatements == DOMAIN MCRequestsOf

(* "table" is a constant array of a function and a local variable.          *)
MCConstructionOf ==
  [t \in MCLocked \cup MCInterned |->
     CASE t = "literal" ->
            [table |-> <<Ask("function_ptr", "f"), Ask("local", "x")>>,
             f     |-> <<Ask("function_ptr", "f")>>]
       [] t = "function_ptr" -> [f |-> <<Ask("pointer_type", "function")>>]
       [] t = "cell" -> [field |-> <<Ask("integer_type", "24 bits")>>]
       [] t = "dyn_alloc" -> [malloc |-> <<>>]
       [] t = "call_context" -> [call |-> <<>>]
       [] t = "named_shadow" -> "write.ptr" :> <<>>
       [] t = "local" -> [x |-> <<>>]
       [] t = "integer_type" -> "24 bits" :> <<>>
       [] t = "pointer_type" -> [void |-> <<>>, function |-> <<>>]]

(* The types of the functions of the program are there before the analysis; *)
(* void* is there when the program or a checker has named it.               *)
AllPointerTypes == {<<"pointer_type", "function">>, <<"pointer_type", "void">>}

ASSUME TypesAreGuarded == TypesGuarded

==============================================================================
