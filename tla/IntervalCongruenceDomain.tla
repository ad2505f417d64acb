----------------------- MODULE IntervalCongruenceDomain -----------------------
(****************************************************************************)
(* The reduced product of intervals and congruences                         *)
(* (core/include/ikos/core/value/machine_int/interval_congruence.hpp), the  *)
(* default domain of machine integers.  Each operation is computed on both  *)
(* and the bounds are then moved to the nearest numbers of the congruence.  *)
(****************************************************************************)
EXTENDS MachineValue

I == INSTANCE IntervalDomain
C == INSTANCE CongruenceDomain

Both(i, c)  == [i |-> i, c |-> c]
Constant(n) == Both(I!Constant(n), C!Constant(n))
Bottom(t)   == Both(I!Bottom(t), C!Empty)
Top(t)      == Both(I!Top(t), C!Everything)

IsBottom(v) == v.c.bottom

Normalize(i, c, t) ==
  CASE c.bottom \/ I!IsBottom(i) -> Bottom(t)
    [] c.a = 1 /\ ~I!IsBottom(i) -> IF I!IsConstant(i) THEN Constant(i.lb) ELSE Both(i, c)
    [] C!IsSingle(c) /\ ~I!IsBottom(i) ->
         IF I!Contains(i, c.b) THEN Constant(c.b) ELSE Bottom(t)
    [] ~c.bottom /\ c.a \notin {0, 1} /\ ~I!IsBottom(i) ->
         LET x == C!FirstFrom(c, i.lb)  y == C!LastUpTo(c, i.ub) IN
         IF x > y THEN Bottom(t) ELSE IF x = y THEN Constant(x) ELSE Both(I!Interval(x, y), c)

Leq(v, u) == I!Leq(v.i, u.i) /\ C!Leq(v.c, u.c)

Join(v, u, t)   == Normalize(I!Join(v.i, u.i, t), C!ZJoin(v.c, u.c), t)
Meet(v, u, t)   == Normalize(I!Meet(v.i, u.i, t), C!ZMeet(v.c, u.c), t)
Widen(v, u, t) == Normalize(I!Widen(v.i, u.i, t), C!ZJoin(v.c, u.c), t)
Narrow(v, u, t) == Normalize(I!Narrow(v.i, u.i, t), C!ZMeet(v.c, u.c), t)
WidenThreshold(v, u, n, t) ==
  Normalize(I!WidenThreshold(v.i, u.i, n, t), C!ZJoin(v.c, u.c), t)

Cast(v, t, u) == Normalize(I!Cast(v.i, t, u), C!Wrap(v.c, u), u)
Ext(v, t, u)  == Normalize(I!Ext(v.i, t, u), v.c, u)

TrimBound(v, n, t)  == Normalize(I!TrimBound(v.i, n, t), v.c, t)
Between(lb, ub, t)  == Normalize(I!Interval(lb, ub), C!Everything, t)

(* Of the congruences, before they are restricted to the type. *)
Classes(op, c, d, t) ==
  CASE op = "add"         -> C!Wrap(C!ZPlus(c, d), t)
    [] op = "add_no_wrap" -> C!ZPlus(c, d)
    [] op = "sub"         -> C!Wrap(C!ZMinus(c, d), t)
    [] op = "sub_no_wrap" -> C!ZMinus(c, d)
    [] op = "mul"         -> C!Wrap(C!ZTimes(c, d), t)
    [] op = "mul_no_wrap" -> C!ZTimes(c, d)
    [] op = "div"         -> C!ZQuotient(c, d)
    [] op = "rem"         -> C!ZRemainder(c, d)
    [] OTHER              -> C!Abstract(op, c, d, t)

Abstract(op, v, u, t) ==
  CASE IsBottom(v) -> v
    [] ~IsBottom(v) /\ IsBottom(u) -> u
    [] OTHER -> Normalize(I!Abstract(op, v.i, u.i, t), Classes(op, v.c, u.c, t), t)

------------------------------------------------------------------------------
Gamma(v, t) == {n \in I!Gamma(v.i, t) : C!Contains(v.c, n)}

(* Bottom in both or in none; the bounds belong to the congruence, and it   *)
(* is a single number exactly when they are equal.                          *)
WellFormed(v, t) ==
  /\ I!WellFormed(v.i, t)
  /\ I!IsBottom(v.i) = v.c.bottom
  /\ ~v.c.bottom => /\ C!Contains(v.c, v.i.lb) /\ C!Contains(v.c, v.i.ub)
                    /\ I!IsConstant(v.i) = (v.c.a = 0)

Elements(t) == {v \in {Normalize(i, c, t) : i \in I!Elements(t), c \in C!Elements(t)} : WellFormed(v, t)}
==============================================================================
