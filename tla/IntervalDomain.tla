---------------------------- MODULE IntervalDomain ----------------------------
(****************************************************************************)
(* Intervals of machine integers                                            *)
(* (core/include/ikos/core/value/machine_int/interval.hpp).  An interval    *)
(* [lb, ub] is bottom when lb > ub; its type is an argument.  Arithmetic    *)
(* goes through intervals of unlimited integers, which are then wrapped or  *)
(* truncated to the type.                                                   *)
(****************************************************************************)
EXTENDS MachineValue

Interval(lb, ub) == [lb |-> lb, ub |-> ub]
Constant(n)      == Interval(n, n)
Top(t)           == Interval(Lo(t), Hi(t))
Bottom(t)        == Interval(Hi(t), Lo(t))

IsBottom(i)    == i.lb > i.ub
IsConstant(i)  == i.lb = i.ub
Contains(i, n) == i.lb <= n /\ n <= i.ub

Leq(i, j) == IsBottom(i) \/ (~IsBottom(j) /\ j.lb <= i.lb /\ i.ub <= j.ub)

Join(i, j, t) ==
  IF IsBottom(i) THEN j ELSE IF IsBottom(j) THEN i
  ELSE Interval(Min({i.lb, j.lb}), Max({i.ub, j.ub}))

Meet(i, j, t) ==
  IF IsBottom(i) THEN i ELSE IF IsBottom(j) THEN j
  ELSE Interval(Max({i.lb, j.lb}), Min({i.ub, j.ub}))

(* Takes the other bound, as a join does. *)
WidenFaulty(i, j, t) == Join(i, j, t)

Widen(i, j, t) ==
  IF IsBottom(i) THEN j ELSE IF IsBottom(j) THEN i
  ELSE Interval(IF j.lb < i.lb THEN Lo(t) ELSE i.lb, IF i.ub < j.ub THEN Hi(t) ELSE i.ub)

WidenThreshold(i, j, n, t) ==
  IF IsBottom(i) THEN j ELSE IF IsBottom(j) THEN i
  ELSE Interval(IF j.lb >= i.lb THEN i.lb ELSE IF n <= j.lb THEN n ELSE Lo(t),
                IF j.ub <= i.ub THEN i.ub ELSE IF n >= j.ub THEN n ELSE Hi(t))

Narrow(i, j, t) ==
  IF IsBottom(i) THEN i ELSE IF IsBottom(j) THEN j
  ELSE Interval(IF i.lb = Lo(t) /\ j.lb # Lo(t) THEN j.lb ELSE i.lb,
                IF i.ub = Hi(t) /\ j.ub # Hi(t) THEN j.ub ELSE i.ub)

(* Without a number that is one of the bounds. *)
TrimBound(i, n, t) ==
  CASE i.lb = n              -> IF n = Hi(t) THEN Bottom(t) ELSE Interval(n + 1, i.ub)
    [] i.lb # n /\ i.ub = n  -> Interval(i.lb, n - 1)
    [] OTHER                 -> i

------------------------------------------------------------------------------
(* Casts.                                                                   *)

TruncTo(i, t, u) ==
  LET kept == IF t.s THEN u.w - 1 ELSE u.w IN
  IF IsConstant(i) \/ Pattern(i.lb, t) \div Pow2(kept) = Pattern(i.ub, t) \div Pow2(kept)
  THEN Interval(WrapTo(i.lb, u), WrapTo(i.ub, u)) ELSE Top(u)

SignCast(i, t) ==
  LET ends == {WrapTo(i.lb, Flip(t)), WrapTo(i.ub, Flip(t))} IN
  CASE IsBottom(i) -> Bottom(Flip(t))
    [] ~IsBottom(i) /\ HighBit(i.lb, t) = HighBit(i.ub, t) -> Interval(Min(ends), Max(ends))
    [] OTHER -> Top(Flip(t))

Ext(i, t, u) == IF IsBottom(i) THEN Bottom(u) ELSE i

Resize(i, t, u) ==
  CASE u.w = t.w -> i
    [] u.w > t.w -> Ext(i, t, u)
    [] u.w < t.w -> IF IsBottom(i) THEN Bottom(u) ELSE TruncTo(i, t, u)

Cast(i, t, u) ==
  LET resized == Resize(i, t, [u EXCEPT !.s = t.s])
  IN  IF t.s = u.s THEN resized ELSE SignCast(resized, [u EXCEPT !.s = t.s])

------------------------------------------------------------------------------
(* From unlimited integers.                                                 *)

Hull(S, t) == IF S = {} THEN Bottom(t) ELSE Interval(Min(S), Max(S))

(* Looks at the ends only. *)
FromZWrapFaulty(i, t) ==
  IF WrapTo(i.lb, t) <= WrapTo(i.ub, t) THEN Interval(WrapTo(i.lb, t), WrapTo(i.ub, t)) ELSE Top(t)

FromZWrap(i, t) ==
  IF WrapTo(i.ub, t) - WrapTo(i.lb, t) = i.ub - i.lb
  THEN Interval(WrapTo(i.lb, t), WrapTo(i.ub, t)) ELSE Top(t)

FromZTrunc(i, t) ==
  LET j == Meet(i, Top(t), t) IN IF IsBottom(j) THEN Bottom(t) ELSE j

Plus(i, j)  == Interval(i.lb + j.lb, i.ub + j.ub)
Minus(i, j) == Interval(i.lb - j.ub, i.ub - j.lb)
Times(i, j) == LET ends == {a * b : a \in {i.lb, i.ub}, b \in {j.lb, j.ub}}
               IN  Interval(Min(ends), Max(ends))

(* What is left of an interval without zero. *)
WithoutZero(i) ==
  IF Contains(i, 0)
  THEN {k \in {Interval(i.lb, -1), Interval(1, i.ub)} : ~IsBottom(k)} ELSE {i}

Ends(i) == UNION {{k.lb, k.ub} : k \in WithoutZero(i)}

Quotient(i, j, t) ==
  Hull({ZDiv(a, b) : a \in Ends(i), b \in Ends(j)}
         \cup {n \in {0} : Contains(i, 0) /\ Ends(j) # {}}, t)

------------------------------------------------------------------------------
(* Remainder, shifts and bitwise operations.                                *)

RemSigned(i, j, t) ==
  LET n == IF i.lb = Lo(t) THEN Hi(t) ELSE Max({AbsOf(i.lb), AbsOf(i.ub)})
      d == IF j.lb = Lo(t) THEN Hi(t) ELSE Max({AbsOf(j.lb), AbsOf(j.ub)}) - 1
      m == Min({n, d})
  IN  IF i.lb >= 0 THEN Interval(0, m)
      ELSE Interval(-m, IF i.ub > 0 THEN m ELSE 0)

RemainderFaulty(i, j, t) ==
  IF j = Constant(0) THEN Bottom(t)
  ELSE IF t.s THEN RemSigned(i, j, t) ELSE Interval(0, Min({i.ub, j.ub - 1}))

Remainder(i, j, t) ==
  CASE j = Constant(0)                 -> Bottom(t)
    [] j # Constant(0) /\ IsConstant(i) /\ IsConstant(j) -> Constant(ZRem(i.lb, j.lb))
    [] OTHER -> IF t.s THEN RemSigned(i, j, t) ELSE Interval(0, Min({i.ub, j.ub - 1}))

Shift(j, t) == Meet(j, Interval(0, t.w - 1), t)

(* On unsigned integers, and cast back. *)
AsUnsigned(Op(_, _, _), i, j, t) ==
  IF t.s THEN SignCast(Op(SignCast(i, t), SignCast(j, t), Flip(t)), Flip(t)) ELSE Op(i, j, t)

ShiftLeft(i, j) == Times(i, Interval(Pow2(j.lb), Pow2(j.ub)))

LogicalShift(i, j, t) ==
  Interval(LogicalRight(i.lb, j.ub, t), LogicalRight(i.ub, j.lb, t))

ArithShiftSigned(i, j, t) ==
  Hull({ArithRight(a, b, t) : a \in Ends(i), b \in {j.lb, j.ub}}
         \cup {n \in {0} : Contains(i, 0)}, t)

ArithShift(i, j, t) ==
  IF t.s THEN ArithShiftSigned(i, j, t)
  ELSE SignCast(ArithShiftSigned(SignCast(i, t), SignCast(j, t), Flip(t)), Flip(t))

SmallerMask(i, j, t) == Interval(0, Min({i.ub, j.ub}))

LongerMask(i, j, t) ==
  Interval(0, Pow2(t.w - Min({LeadingZeros(i.ub, t), LeadingZeros(j.ub, t)})) - 1)

Is(P(_, _), i, t) == IsConstant(i) /\ P(i.lb, t)
Zero(n, t)        == n = 0

Conjunction(i, j, t) ==
  CASE IsConstant(i) /\ IsConstant(j)    -> Constant(BitAnd(i.lb, j.lb, t))
    [] Is(Zero, i, t) \/ Is(Zero, j, t)  -> Constant(0)
    [] Is(AllOnes, i, t)                 -> j
    [] Is(AllOnes, j, t)                 -> i
    [] OTHER                             -> AsUnsigned(SmallerMask, i, j, t)

Disjunction(i, j, t) ==
  CASE IsConstant(i) /\ IsConstant(j)          -> Constant(BitOr(i.lb, j.lb, t))
    [] Is(AllOnes, i, t) \/ Is(AllOnes, j, t)  -> Constant(WrapTo(-1, t))
    [] Is(Zero, i, t)                          -> j
    [] Is(Zero, j, t)                          -> i
    [] OTHER                                   -> AsUnsigned(LongerMask, i, j, t)

ExclusiveOr(i, j, t) ==
  CASE IsConstant(i) /\ IsConstant(j) -> Constant(BitXor(i.lb, j.lb, t))
    [] Is(Zero, i, t)                 -> j
    [] Is(Zero, j, t)                 -> i
    [] OTHER                          -> AsUnsigned(LongerMask, i, j, t)

Abstract(op, i, j, t) ==
  CASE IsBottom(i) -> i
    [] ~IsBottom(i) /\ IsBottom(j) -> j
    [] op = "add"          -> FromZWrap(Plus(i, j), t)
    [] op = "add_no_wrap"  -> FromZTrunc(Plus(i, j), t)
    [] op = "sub"          -> FromZWrap(Minus(i, j), t)
    [] op = "sub_no_wrap"  -> FromZTrunc(Minus(i, j), t)
    [] op = "mul"          -> FromZWrap(Times(i, j), t)
    [] op = "mul_no_wrap"  -> FromZTrunc(Times(i, j), t)
    [] op = "div"          -> FromZTrunc(Quotient(i, j, t), t)
    [] op = "rem"          -> Remainder(i, j, t)
    [] op = "and"          -> Conjunction(i, j, t)
    [] op = "or"           -> Disjunction(i, j, t)
    [] op = "xor"          -> ExclusiveOr(i, j, t)
    [] IsBottom(Shift(j, t)) -> Shift(j, t)
    [] op = "shl"          -> FromZWrap(ShiftLeft(i, Shift(j, t)), t)
    [] op = "shl_no_wrap"  -> FromZTrunc(ShiftLeft(i, Shift(j, t)), t)
    [] op = "lshr"         -> AsUnsigned(LogicalShift, i, Shift(j, t), t)
    [] op = "ashr"         -> ArithShift(i, Shift(j, t), t)

------------------------------------------------------------------------------
Gamma(i, t)      == i.lb..i.ub
WellFormed(i, t) == i.lb \in Numbers(t) /\ i.ub \in Numbers(t)
Elements(t)      == [lb : Numbers(t), ub : Numbers(t)]
==============================================================================
