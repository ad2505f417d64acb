--------------------------- MODULE MCNumericDomain ---------------------------
(****************************************************************************)
(* Each domain on small types: intervals, congruences, and both together,   *)
(* of two unsigned and three signed bits, and intervals of two signed ones; *)
(* constants of one, two, four and five bits; four fit in a register.       *)
(****************************************************************************)
EXTENDS DomainSimulation

Type(d, w, s) == [d |-> d, w |-> w, s |-> s]

Intervals2u   == VElements(Type("interval", 2, FALSE))
Intervals2s   == VElements(Type("interval", 2, TRUE))
Congruences2u == VElements(Type("congruence", 2, FALSE))
Congruences3s == VElements(Type("congruence", 3, TRUE))
Both2u        == VElements(Type("both", 2, FALSE))

(* Of signed types of three bits: the intervals that end at a corner; of    *)
(* the product, the ends, zero, the signs, and the whole congruences of     *)
(* even moduli.                                                             *)
Corner(t, i) == {i.lb, i.ub} \subseteq {Lo(t), -1, 0, 1, Hi(t)}

Intervals3s ==
  LET t == Type("interval", 3, TRUE) IN {v \in VElements(t) : Corner(t, v)}

Both3s ==
  LET t == Type("both", 3, TRUE) IN
  {v \in VElements(t) :
     \/ v.c.bottom
     \/ v = VTop(t)
     \/ v.i \in {[lb |-> Lo(t), ub |-> -1], [lb |-> 1, ub |-> Hi(t)]} /\ v.c.a = 1
     \/ v \in {VConstant(n, t) : n \in {Lo(t), 0, Hi(t)}}
     \/ v.c.a \in {2, 4} /\ VGamma(v, t) = {n \in Numbers(t) : (n - v.c.b) % v.c.a = 0}}

Constants == {Type("constant", w, s) : w \in {1, 2, 4, 5}, s \in BOOLEAN}

(* Of a wide type, the numbers at which something changes. *)
Corners(t) == {VTop(t)} \cup {VConstant(n, t) : n \in {Lo(t), -1, 0, 1, 2, 3, Hi(t)} \cap Numbers(t)}

MCOthers(t) ==
  CASE t = Type("interval", 2, FALSE)   -> Intervals2u
    [] t = Type("interval", 2, TRUE)    -> Intervals2s
    [] t = Type("interval", 3, TRUE)    -> Intervals3s
    [] t = Type("congruence", 2, FALSE) -> Congruences2u
    [] t = Type("congruence", 3, TRUE)  -> Congruences3s
    [] t = Type("both", 2, FALSE)       -> Both2u
    [] t = Type("both", 3, TRUE)        -> Both3s
    [] t \in Constants                  -> IF t.w <= 3 THEN VElements(t) ELSE Corners(t)

MCTypes ==
  {Type("interval", 2, FALSE), Type("interval", 2, TRUE), Type("interval", 3, TRUE),
   Type("congruence", 2, FALSE), Type("congruence", 3, TRUE),
   Type("both", 2, FALSE), Type("both", 3, TRUE)} \cup Constants
==============================================================================
