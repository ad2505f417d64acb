--------------------------- MODULE CongruenceDomain ---------------------------
(****************************************************************************)
(* Congruences of machine integers                                          *)
(* (core/include/ikos/core/value/machine_int/congruence.hpp) over those of  *)
(* unlimited integers (value/numeric/congruence.hpp).  A congruence is      *)
(* aZ + b: the single number b when a = 0, everything when a = 1.           *)
(****************************************************************************)
EXTENDS MachineValue

RECURSIVE Gcd(_, _)
Gcd(a, b) == IF b = 0 THEN AbsOf(a) ELSE Gcd(b, a % AbsOf(b))
Mod(n, a) == n % AbsOf(a)
Lcm(a, b) == (a * b) \div Gcd(a, b)

(* Bezout: u such that a * u + b * v = gcd(a, b) for some v. *)
Bezout(a, b) == CHOOSE u \in 0..(b - 1) : (a * u - Gcd(a, b)) % b = 0

------------------------------------------------------------------------------
(* Unlimited integers.                                                      *)

Empty        == [bottom |-> TRUE, a |-> 0, b |-> 0]
Classes(a, b) == [bottom |-> FALSE, a |-> a, b |-> IF a = 0 THEN b ELSE Mod(b, a)]
Constant(n)  == Classes(0, n)
Everything   == Classes(1, 0)

IsSingle(c)    == ~c.bottom /\ c.a = 0
Contains(c, n) == ~c.bottom /\ (IF c.a = 0 THEN n = c.b ELSE Mod(n, c.a) = c.b)

LeqFaulty(c, d) == c.bottom \/ (~d.bottom /\ Contains(d, c.b))

Leq(c, d) ==
  \/ c.bottom
  \/ /\ ~d.bottom /\ Contains(d, c.b)
     /\ IF d.a = 0 THEN c.a = 0 ELSE Mod(c.a, d.a) = 0

ZJoin(c, d) ==
  IF c.bottom THEN d ELSE IF d.bottom THEN c
  ELSE Classes(Gcd(Gcd(c.a, d.a), c.b - d.b), Min({c.b, d.b}))

(* The first number of both, by Bezout. *)
Solution(c, d) == c.b - c.a * Bezout(c.a, d.a) * ZDiv(c.b - d.b, Gcd(c.a, d.a))

ZMeet(c, d) ==
  CASE c.bottom \/ d.bottom                      -> Empty
    [] IsSingle(c)                               -> IF Contains(d, c.b) THEN c ELSE Empty
    [] IsSingle(d) /\ ~c.bottom /\ c.a # 0       -> IF Contains(c, d.b) THEN d ELSE Empty
    [] ~c.bottom /\ c.a # 0 /\ ~d.bottom /\ d.a # 0 ->
         LET x == Gcd(c.a, d.a) IN
         IF Mod(c.b, x) = Mod(d.b, x) THEN Classes(Lcm(c.a, d.a), Solution(c, d)) ELSE Empty

ZPlus(c, d)  == Classes(Gcd(c.a, d.a), c.b + d.b)
ZMinus(c, d) == Classes(Gcd(c.a, d.a), c.b - d.b)
ZTimes(c, d) == Classes(Gcd(Gcd(c.a * d.a, c.a * d.b), d.a * c.b), c.b * d.b)

Divides(d, c) == Mod(c.a, d.b) = 0 /\ Mod(c.b, d.b) = 0

ZQuotient(c, d) ==
  CASE d = Constant(0)                -> Empty
    [] d # Constant(0) /\ c = Constant(0) -> Constant(0)
    [] d # Constant(0) /\ c # Constant(0) /\ IsSingle(c) /\ IsSingle(d) -> Constant(ZDiv(c.b, d.b))
    [] d # Constant(0) /\ c.a # 0 /\ IsSingle(d) /\ Divides(d, c) ->
         Classes(AbsOf(ZDiv(c.a, d.b)), ZDiv(c.b, d.b))
    [] OTHER                          -> Everything

(* The constant b is smaller than every divisor. *)
IsSmaller(c, d) ==
  IsSingle(c) /\ d.a # 0 /\ d.a * ZDiv(AbsOf(c.b) - d.b, d.a) + d.b <= 0

AnyRest(c, d) == Classes(Gcd(Gcd(c.a, d.a), d.b), c.b)

ZRemainder(c, d) ==
  CASE d = Constant(0)                -> Empty
    [] d # Constant(0) /\ c = Constant(0) -> Constant(0)
    [] d # Constant(0) /\ c # Constant(0) /\ IsSingle(c) /\ IsSingle(d) -> Constant(ZRem(c.b, d.b))
    [] IsSingle(d) /\ d.b # 0 /\ c.a # 0 /\ Mod(c.a, d.b) = 0 ->
         ZJoin(Constant(ZRem(c.b, d.b)), Constant(ZRem(c.b - c.a, d.b)))
    [] c # Constant(0) /\ IsSmaller(c, d) -> c
    [] OTHER                          -> AnyRest(c, d)

ZModulo(c, d) ==
  CASE d = Constant(0)                -> Empty
    [] d # Constant(0) /\ c = Constant(0) -> Constant(0)
    [] c # Constant(0) /\ IsSingle(d) /\ d.b # 0 /\ Mod(c.a, d.b) = 0 -> Constant(Mod(c.b, d.b))
    [] c # Constant(0) /\ c.b >= 0 /\ IsSmaller(c, d) -> c
    [] OTHER                          -> AnyRest(c, d)

------------------------------------------------------------------------------
(* Machine integers.                                                        *)

FirstFrom(c, n) == n + Mod(c.b - n, c.a)         \* R
LastUpTo(c, n)  == n - Mod(n - c.b, c.a)         \* L

Top(t) == Everything

Normalize(c, t) ==
  CASE c.bottom \/ c.a = 1          -> c
    [] ~c.bottom /\ c.a = 0         -> IF c.b \in Numbers(t) THEN c ELSE Empty
    [] ~c.bottom /\ c.a \notin {0, 1} ->
         LET x == FirstFrom(c, Lo(t))  y == LastUpTo(c, Hi(t)) IN
         IF x > y THEN Empty ELSE IF x = y THEN Constant(x) ELSE c

(* wrap: the classes modulo the width, moved into the range of the type. *)
Wrap(c, t) ==
  LET m == Constant(IF t.s THEN Pow2(t.w - 1) ELSE 0) IN
  IF c.bottom THEN Empty
  ELSE ZMinus(ZModulo(ZPlus(c, m), Constant(Pow2(t.w))), m)

Weaken(c, t) == IF c.bottom \/ c.a = 0 THEN c ELSE Classes(Gcd(c.a, Pow2(t.w)), c.b)

Wrapped(c, t) == Normalize(Wrap(c, t), t)

Join(c, d, t)   == Normalize(ZJoin(c, d), t)
Meet(c, d, t)   == Normalize(ZMeet(c, d), t)
Widen(c, d, t)  == Join(c, d, t)
Narrow(c, d, t) == Meet(c, d, t)
WidenThreshold(c, d, n, t) == Join(c, d, t)

Ext(c, t, u)  == c
Cast(c, t, u) == Wrapped(c, u)

Complement(c, t) ==
  IF c.bottom THEN c
  ELSE Normalize(Classes(c.a, (IF t.s THEN 0 ELSE Pow2(t.w)) - c.b - 1), t)

Outside(d, t) == IsSingle(d) /\ d.b \notin 0..(t.w - 1)

ShiftLeft(c, d) ==
  LET x == Pow2(d.b) IN
  IF d.a = 0 THEN Classes(c.a * x, c.b * x)
  ELSE Classes(Gcd(c.a, c.b * (Pow2(d.a) - 1)) * x, c.b * x)

ShiftRight(op, c, d, t) ==
  CASE Outside(d, t) -> Empty
    [] ~Outside(d, t) /\ (c = Constant(0) \/ d = Constant(0)) -> c
    [] c # Constant(0) /\ d # Constant(0) /\ IsSingle(c) /\ IsSingle(d) /\ ~Outside(d, t) ->
         Constant(IF op = "lshr" THEN LogicalRight(c.b, d.b, t) ELSE ArithRight(c.b, d.b, t))
    [] OTHER -> Everything

(* A mask whose bits are all known in d gives a number. *)
Masked(c, d, t) ==
  LET b == Pattern(c.b, t) IN
  IF b < d.a THEN Constant(BitAnd(c.b, d.b, t)) ELSE Normalize(Classes(d.a, b & d.b), t)

Conjunction(c, d, t) ==
  LET x == Weaken(c, t)  y == Weaken(d, t) IN
  CASE c.bottom -> c
    [] ~c.bottom /\ d.bottom -> d
    [] IsSingle(x) /\ IsSingle(y) -> Constant(BitAnd(x.b, y.b, t))
    [] IsSingle(x) /\ ~y.bottom /\ y.a # 0 -> Masked(x, y, t)
    [] IsSingle(y) /\ ~x.bottom /\ x.a # 0 -> Masked(y, x, t)
    [] OTHER -> Normalize(Classes(Min({x.a, y.a}), x.b & y.b), t)

Disjunction(c, d, t) ==
  Complement(Conjunction(Complement(c, t), Complement(d, t), t), t)

ExclusiveOr(c, d, t) ==
  Disjunction(Conjunction(c, Complement(d, t), t), Conjunction(Complement(c, t), d, t), t)

Abstract(op, c, d, t) ==
  CASE c.bottom -> c
    [] ~c.bottom /\ d.bottom -> d
    [] op = "add"         -> Wrapped(ZPlus(c, d), t)
    [] op = "add_no_wrap" -> Normalize(ZPlus(c, d), t)
    [] op = "sub"         -> Wrapped(ZMinus(c, d), t)
    [] op = "sub_no_wrap" -> Normalize(ZMinus(c, d), t)
    [] op = "mul"         -> Wrapped(ZTimes(c, d), t)
    [] op = "mul_no_wrap" -> Normalize(ZTimes(c, d), t)
    [] op = "div"         -> Normalize(ZQuotient(c, d), t)
    [] op = "rem"         -> Normalize(ZRemainder(c, d), t)
    [] op = "shl"         -> IF Outside(d, t) THEN Empty ELSE Wrapped(ShiftLeft(c, d), t)
    [] op = "shl_no_wrap" -> IF Outside(d, t) THEN Empty ELSE Normalize(ShiftLeft(c, d), t)
    [] op \in {"lshr", "ashr"} -> ShiftRight(op, c, d, t)
    [] op = "and"         -> Conjunction(c, d, t)
    [] op = "or"          -> Disjunction(c, d, t)
    [] op = "xor"         -> ExclusiveOr(c, d, t)

------------------------------------------------------------------------------
Gamma(c, t) == {n \in Numbers(t) : Contains(c, n)}

(* No number of the type, or one, or at least two of the same class. *)
WellFormed(c, t) ==
  /\ c.bottom => c = Empty
  /\ IsSingle(c) => c.b \in Numbers(t)
  /\ ~c.bottom /\ c.a # 0 => c.b \in 0..(c.a - 1) /\ Cardinality(Gamma(c, t)) >= 2

Elements(t) ==
  {Empty} \cup {Constant(n) : n \in Numbers(t)}
  \cup {c \in {Classes(a, b) : a \in 1..(Pow2(t.w) - 1), b \in 0..(Pow2(t.w) - 1)} : WellFormed(c, t)}
==============================================================================
