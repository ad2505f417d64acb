----------------------------- MODULE NumericDomain -----------------------------
(****************************************************************************)
(* A numerical domain of machine integers as the analyzer uses it           *)
(* (core/include/ikos/core/domain/machine_int/polymorphic_domain.hpp): a    *)
(* store of values of the domain that was chosen, t.d, with its conditions  *)
(* on variables (add() of interval.hpp, congruence.hpp and                  *)
(* interval_congruence.hpp).                                                *)
(*                                                                          *)
(* A type is [d, w, s]: domain, bit width and sign.                         *)
(****************************************************************************)
EXTENDS MachineValue

I == INSTANCE IntervalDomain
C == INSTANCE CongruenceDomain
R == INSTANCE IntervalCongruenceDomain
K == INSTANCE ConstantDomain

Choose(t, i, c, r, k) ==
  CASE t.d = "interval" -> i [] t.d = "congruence" -> c [] t.d = "both" -> r [] t.d = "constant" -> k

VTop(t)         == Choose(t, I!Top(t), C!Everything, R!Top(t), K!Top(t))
VBottom(t)      == Choose(t, I!Bottom(t), C!Empty, R!Bottom(t), K!Bottom(t))
VConstant(n, t) == Choose(t, I!Constant(n), C!Constant(n), R!Constant(n), K!Constant(n, t))
VIsBottom(v, t) == Choose(t, I!IsBottom(v), v.bottom, R!IsBottom(v), K!IsBottom(v))
VLeq(v, u, t)   == Choose(t, I!Leq(v, u), C!Leq(v, u), R!Leq(v, u), K!Leq(v, u))

VJoin(v, u, t) ==
  Choose(t, I!Join(v, u, t), C!Join(v, u, t), R!Join(v, u, t), K!Join(v, u, t))
VMeet(v, u, t) ==
  Choose(t, I!Meet(v, u, t), C!Meet(v, u, t), R!Meet(v, u, t), K!Meet(v, u, t))
VWiden(v, u, t) ==
  Choose(t, I!Widen(v, u, t), C!Widen(v, u, t), R!Widen(v, u, t), K!Widen(v, u, t))
VNarrow(v, u, t) ==
  Choose(t, I!Narrow(v, u, t), C!Narrow(v, u, t), R!Narrow(v, u, t), K!Narrow(v, u, t))
VWidenThreshold(v, u, n, t) ==
  Choose(t, I!WidenThreshold(v, u, n, t), C!WidenThreshold(v, u, n, t),
            R!WidenThreshold(v, u, n, t), K!WidenThreshold(v, u, n, t))
VAbstract(op, v, u, t) ==
  Choose(t, I!Abstract(op, v, u, t), C!Abstract(op, v, u, t),
            R!Abstract(op, v, u, t), K!Abstract(op, v, u, t))

VCast(v, t, u) == Choose(t, I!Cast(v, t, u), C!Cast(v, t, u), R!Cast(v, t, u), K!Cast(v, t, u))
VExt(v, t, u)  == Choose(t, I!Ext(v, t, u), C!Ext(v, t, u), R!Ext(v, t, u), K!Ext(v, t, u))
VGamma(v, t)   == Choose(t, I!Gamma(v, t), C!Gamma(v, t), R!Gamma(v, t), K!Gamma(v, t))
VElements(t)   == Choose(t, I!Elements(t), C!Elements(t), R!Elements(t), K!Elements(t))

TypeOf(x, t) == t      \* the variables of a store have one type

S == INSTANCE SeparateDomain

------------------------------------------------------------------------------
(* Conditions where values have bounds.                                     *)

Bounds(v, t)       == IF t.d = "both" THEN v.i ELSE v
Lower(v, t)        == Bounds(v, t).lb
Upper(v, t)        == Bounds(v, t).ub
Single(v, t)       == IF t.d = "both" THEN C!IsSingle(v.c) ELSE I!IsConstant(v)
Trim(v, n, t)      == IF t.d = "both" THEN R!TrimBound(v, n, t) ELSE I!TrimBound(v, n, t)
Between(lb, ub, t) == IF t.d = "both" THEN R!Between(lb, ub, t) ELSE I!Interval(lb, ub)

UpTo(s, x, n, t) == S!Refine(s, x, Between(Lo(t), n, t), t)
From(s, x, n, t) == S!Refine(s, x, Between(n, Hi(t), t), t)

Equal(s, x, y, t) ==
  LET v == VMeet(S!Get(s, x, t), S!Get(s, y, t), t) IN S!Put(S!Put(s, x, v, t), y, v, t)

(* Both are trimmed by what they were before. *)
Differ(s, x, y, t) ==
  LET v == S!Get(s, x, t)
      w == S!Get(s, y, t)
      u == IF Single(v, t) THEN S!Put(s, y, Trim(w, Lower(v, t), t), t) ELSE s
  IN  IF Single(w, t) THEN S!Put(u, x, Trim(v, Lower(w, t), t), t) ELSE u

Less(s, x, y, t) ==
  LET v == S!Get(s, x, t)  w == S!Get(s, y, t) IN
  IF Upper(w, t) = Lo(t) \/ Lower(v, t) = Hi(t) THEN S!Bottom
  ELSE From(UpTo(s, x, Upper(w, t) - 1, t), y, Lower(v, t) + 1, t)

AtMost(s, x, y, t) ==
  LET v == S!Get(s, x, t)  w == S!Get(s, y, t)
  IN  From(UpTo(s, x, Upper(w, t), t), y, Lower(v, t), t)

------------------------------------------------------------------------------
(* All conditions.  A congruence learns from an equality only; constants    *)
(* are a value without a domain of conditions.                              *)

Predicates == {"EQ", "NE", "GT", "GE", "LT", "LE"}

Assume(pred, s, x, y, t) ==
  CASE s.bottom \/ pred = "EQ" -> IF s.bottom THEN s ELSE Equal(s, x, y, t)
    [] ~s.bottom /\ x = y /\ pred \in {"NE", "LT", "GT"} -> S!Bottom
    [] ~s.bottom /\ t.d = "congruence" /\ pred # "EQ" /\ (x # y \/ pred \in {"LE", "GE"}) -> s
    [] OTHER -> CASE pred = "NE" -> Differ(s, x, y, t)
                  [] pred = "LT" -> Less(s, x, y, t)
                  [] pred = "GT" -> Less(s, y, x, t)
                  [] pred = "LE" -> AtMost(s, x, y, t)
                  [] pred = "GE" -> AtMost(s, y, x, t)

(* The number before the smallest one is the largest. *)
AssumeNumberFaulty(pred, s, x, n, t) ==
  CASE s.bottom \/ (t.d = "congruence" /\ pred # "EQ") -> s
    [] ~s.bottom /\ pred = "EQ" -> S!Put(s, x, VMeet(S!Get(s, x, t), VConstant(n, t), t), t)
    [] OTHER -> CASE pred = "NE" -> S!Put(s, x, Trim(S!Get(s, x, t), n, t), t)
                  [] pred = "LT" -> UpTo(s, x, WrapTo(n - 1, t), t)
                  [] pred = "GT" -> From(s, x, WrapTo(n + 1, t), t)
                  [] pred = "LE" -> UpTo(s, x, n, t)
                  [] pred = "GE" -> From(s, x, n, t)

AssumeNumber(pred, s, x, n, t) ==
  CASE s.bottom \/ (t.d = "congruence" /\ pred # "EQ") -> s
    [] ~s.bottom /\ pred = "EQ" -> S!Put(s, x, VMeet(S!Get(s, x, t), VConstant(n, t), t), t)
    [] OTHER -> CASE pred = "NE" -> S!Put(s, x, Trim(S!Get(s, x, t), n, t), t)
                  [] pred = "LT" -> IF n = Lo(t) THEN S!Bottom ELSE UpTo(s, x, n - 1, t)
                  [] pred = "GT" -> IF n = Hi(t) THEN S!Bottom ELSE From(s, x, n + 1, t)
                  [] pred = "LE" -> UpTo(s, x, n, t)
                  [] pred = "GE" -> From(s, x, n, t)

(* The sum of products of a linear expression, with variables cast to its   *)
(* type and numbers that wrap.                                              *)
Linear(s, factor, x, n, t, u) ==
  VAbstract("add", VConstant(n, u),
            VAbstract("mul", VConstant(factor, u), VCast(S!Get(s, x, t), t, u), u), u)
==============================================================================
