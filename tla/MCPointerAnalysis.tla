--------------------------- MODULE MCPointerAnalysis ---------------------------
(* Instances: programs of a few statements of two variables and two objects, *)
(* and some larger ones with aggregates, calls and calls through pointers.   *)
EXTENDS PointerAnalysis

S3(kind, to, from, element) ==
  [kind |-> kind, to |-> to, from |-> from, element |-> element, by |-> Zero]
S2(kind, to, from)   == S3(kind, to, from, "")
Shifted(to, from, i) == [S2("shift", to, from) EXCEPT !.by = i]
Object(m)            == S2("object", m, "")

Call(direct, called, args, result, aggregate) ==
  [kind |-> "call", to |-> "", direct |-> direct, called |-> called, args |-> args,
   result |-> result, aggregate |-> aggregate]

Function(params, result)   == [params |-> params, result |-> result]
Program(statements, funcs) == [statements |-> statements, functions |-> funcs]

Statements ==
  {S2("assign", "p", "x"), S2("assign", "q", "y"), S2("assign", "p", "q"),
   S2("assign", "q", "p"), S2("load", "p", "q"), S2("load", "q", "p"),
   S2("store", "p", "q"), S2("store", "q", "p"), S2("memcpy", "p", "q"),
   S2("null", "p", ""), S2("search", "q", "p"),
   Shifted("p", "p", I!Constant(1)), Shifted("q", "p", [lb |-> 0, ub |-> 2])}

Small == {Program(<<Object("x"), Object("y")>> \o s, <<>>) :
            s \in {s \in [1..3 -> Statements] : IsInjective(s)}}

(* Pointers that travel through memory, aggregates and calls.               *)
Lists ==
  Program(<<Object("head"), S2("new", "n", "cell"), S2("load", "t", "head"),
            S2("store", "n", "t"), S2("store", "head", "n"),
            S2("load", "c", "t"), S2("assign", "t", "c")>>, <<>>)

Aggregates ==
  Program(<<Object("x"), Object("y"), S3("insert", "a", "u", "x"),
            S3("insert", "b", "a", "y"), S2("storeagg", "x", "b"),
            S2("loadagg", "c", "x"), S2("copyagg", "d", "c"),
            S3("shuffle", "e", "d", "b"), S2("extract", "p", "e")>>, <<>>)

Identity == "id" :> Function(<<"i">>, "id.return")
Pair     == "pair" :> Function(<<"i", "j">>, "pair.return")
Setter   == "set" :> Function(<<"i", "j">>, "")

Direct ==
  Program(<<Object("x"), Object("y"), Object("id"), Object("set"),
            S2("assign", "id.return", "i"), S2("store", "i", "j"),
            Call(TRUE, "id", <<"x">>, "p", FALSE), Call(TRUE, "id", <<"y">>, "q", FALSE),
            Call(TRUE, "set", <<"p", "q">>, "", FALSE), S2("memcpy", "y", "p"), S2("load", "r", "y")>>,
          Identity @@ Setter)

Returned ==
  Program(<<Object("x"), Object("y"), Object("pair"),
            S3("insert", "a", "u", "i"), S3("insert", "b", "a", "j"),
            S2("returnagg", "pair.return", "b"),
            Call(TRUE, "pair", <<"x", "y">>, "r", TRUE), S2("extract", "p", "r")>>, Pair)

(* A table of functions, one of another type than that of the call. *)
Table ==
  Program(<<Object("x"), Object("tab"), Object("id"), Object("set"),
            S2("assign", "id.return", "i"),
            S2("store", "tab", "id"), Shifted("t", "tab", I!Constant(1)), S2("store", "t", "set"),
            S2("load", "f", "t"), Call(FALSE, "f", <<"x">>, "p", FALSE),
            [S2("shiftnull", "z", "") EXCEPT !.by = I!Constant(2)], S2("store", "z", "p"),
            S2("inttoptr", "n", "")>>,
          Identity @@ Setter)

Larger == {Lists, Aggregates, Direct, Returned, Table}

Instances == Small \cup Larger
=============================================================================
