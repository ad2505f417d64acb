--------------------------------- MODULE Wto ---------------------------------
(****************************************************************************)
(* The weak topological order (WTO) of a control flow graph: classes Wto    *)
(* and WtoNesting (core/include/ikos/core/fixpoint/wto.hpp), Bourdoncle's   *)
(* recursive construction.                                                  *)
(*                                                                          *)
(* A list of components is flattened into a sequence of items: a vertex is  *)
(* one item, a cycle is an item for its head, the items of its components   *)
(* and an item for its end.  A graph is a record as in module Wpo.          *)
(****************************************************************************)
EXTENDS Integers, Sequences, FiniteSets, SequencesExt

Item(type, n) == [type |-> type, node |-> n]
Vertex(n)     == <<Item("vertex", n)>>
Cycle(n, its) == <<Item("head", n)>> \o its \o <<Item("end", n)>>

(* Dfn::plus_infinity(); bound: greater than any number that is handed out. *)
PlusInfinity == 1000

------------------------------------------------------------------------------
(* The construction: dfn, num and stack are the members of the class; items *)
(* is the list that the current call of visit adds to at its front, min     *)
(* what the last call returned.                                             *)

Pop(stack, n) ==      \* the stack below n, and what is above n on it
  LET i == CHOOSE i \in 1..Len(stack) : stack[i] = n
  IN  [below |-> SubSeq(stack, 1, i - 1), above |-> ToSet(SubSeq(stack, i + 1, Len(stack)))]

(* Faulty: push_back.                                                       *)
PushFrontFaulty(its, component) == its \o component

(* partition.push_front                                                     *)
PushFront(its, component) == component \o its

RECURSIVE Visit(_, _, _), CycleOf(_, _, _, _)

(* component: the parts of a cycle, its head left out.                      *)
CycleOf(g, s, n, i) ==
  IF i > Len(g.succ[n]) THEN s
  ELSE LET m == g.succ[n][i]
       IN  CycleOf(g, IF s.dfn[m] = 0 THEN Visit(g, s, m) ELSE s, n, i + 1)

(* visit                                                                    *)
Visit(g, s, n) ==
  LET start == [s EXCEPT !.stack = Append(@, n), !.num = @ + 1,
                         !.dfn = [@ EXCEPT ![n] = s.num + 1]]
      (* t.r is the state, t.head and t.loop are locals.                    *)
      Successor(t, m) ==
        LET r == IF t.r.dfn[m] = 0 THEN Visit(g, t.r, m)
                 ELSE [t.r EXCEPT !.min = t.r.dfn[m]]
        IN  IF r.min <= t.head THEN [r |-> r, head |-> r.min, loop |-> TRUE]
            ELSE [t EXCEPT !.r = r]
      t == FoldLeft(Successor, [r |-> start, head |-> s.num + 1, loop |-> FALSE], g.succ[n])
      root == t.head = t.r.dfn[n]
      cut == Pop(t.r.stack, n)
      reset == IF t.loop THEN [m \in cut.above |-> 0] ELSE <<>>
      closed == [t.r EXCEPT !.stack = cut.below, !.dfn = (n :> PlusInfinity) @@ reset @@ @]
      inner == CycleOf(g, [closed EXCEPT !.items = <<>>], n, 1)
  IN  IF ~ root THEN [t.r EXCEPT !.min = t.head]
      ELSE IF t.loop THEN [inner EXCEPT !.items = PushFront(t.r.items, Cycle(n, @)), !.min = t.head]
      ELSE [closed EXCEPT !.items = PushFront(@, Vertex(n)), !.min = t.head]

Items(g) ==
  Visit(g, [dfn |-> [n \in g.node |-> 0], num |-> 0, stack |-> <<>>,
            items |-> <<>>, min |-> 0], g.entry).items

------------------------------------------------------------------------------
(* Positions in the sequence of items, and the nestings of NestingBuilder.  *)

PositionOf(its, n) == CHOOSE i \in 1..Len(its) : its[i].node = n /\ its[i].type # "end"
EndOf(its, n)      == CHOOSE i \in 1..Len(its) : its[i].node = n /\ its[i].type = "end"
HeadsOf(its)       == {its[i].node : i \in {j \in 1..Len(its) : its[j].type = "head"}}

(* The heads of the cycles around n, from the outermost to the innermost;   *)
(* a head is not in its own nesting.                                        *)
Nesting(its, n) ==
  LET i == PositionOf(its, n)
      Around(item) == /\ item.type = "head"
                      /\ PositionOf(its, item.node) < i /\ i < EndOf(its, item.node)
      heads == SelectSeq(its, Around)
  IN  [k \in DOMAIN heads |-> heads[k].node]

(* The order of construction: items, and the nesting of every node.         *)
BuildWto(g) ==
  LET its == Items(g) @@ <<>>
  IN  [items |-> its, nesting |-> [n \in g.node |-> Nesting(its, n)] @@ <<>>]

(* Faulty: equal nestings are not comparable.                               *)
LeqNestingFaulty(a, b) == IsStrictPrefix(a, b)

(* WtoNesting::compare: operators <= and >.                                 *)
LeqNesting(a, b) == IsPrefix(a, b)
GtNesting(a, b)  == IsStrictPrefix(b, a)
==============================================================================
