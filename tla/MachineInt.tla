------------------------------ MODULE MachineInt ------------------------------
(****************************************************************************)
(* Machine integers (core/include/ikos/core/number/machine_int.hpp), the    *)
(* numbers of every machine integer domain.  An integer whose bit width     *)
(* fits in a register is a bit pattern in a uint64_t; a wider one is its    *)
(* value in a ZNumber.  Both have to compute what a processor does, and to  *)
(* tell when that is not the mathematical result.                           *)
(*                                                                          *)
(* A number is [raw, width, signed].  RegisterBits is the width of a        *)
(* register, 64 in the code.                                                *)
(****************************************************************************)
EXTENDS Integers, FiniteSets, FiniteSetsExt, Bitwise

CONSTANT RegisterBits

Pow2(n)     == 2^n
IsSmall(w)  == w <= RegisterBits
Register(n) == n % Pow2(RegisterBits)          \* arithmetic on uint64_t

------------------------------------------------------------------------------
(* Construction: a raw number is masked, or brought into range.             *)

Normalize(n, w, s) ==
  IF s /\ ~IsSmall(w) THEN ((n + Pow2(w - 1)) % Pow2(w)) - Pow2(w - 1) ELSE n % Pow2(w)

Normalized(n, w, s) == [raw |-> n, width |-> w, signed |-> s]     \* NormalizedTag

Make(n, w, s) == Normalized(Normalize(IF IsSmall(w) THEN Register(n) ELSE n, w, s), w, s)

Like(x, n) == Make(n, x.width, x.signed)
LikeNormalized(x, n) == Normalized(n, x.width, x.signed)

(* int64_t(n << (64 - w)) >> (64 - w). *)
SignExtend(n, w) ==
  LET up    == Register(n * Pow2(RegisterBits - w))
      value == IF up >= Pow2(RegisterBits - 1) THEN up - Pow2(RegisterBits) ELSE up
  IN  value \div Pow2(RegisterBits - w)

ToZ(x) == IF IsSmall(x.width) /\ x.signed THEN SignExtend(x.raw, x.width) ELSE x.raw

MinOf(w, s) ==
  Normalized(CASE ~s -> 0
               [] s /\ IsSmall(w) -> Pow2(w - 1)
               [] s /\ ~IsSmall(w) -> -Pow2(w - 1), w, s)

HighBit(x) ==
  CASE IsSmall(x.width)               -> x.raw \div Pow2(x.width - 1) # 0
    [] ~IsSmall(x.width) /\ x.signed  -> x.raw < 0
    [] OTHER                          -> x.raw >= Pow2(x.width - 1)

IsNegative(x) == x.signed /\ HighBit(x)
IsZero(x)     == x.raw = 0
IsMin(x)      == x = MinOf(x.width, x.signed)
AllOnes(x)    == x.raw = IF x.signed /\ ~IsSmall(x.width) THEN -1 ELSE Pow2(x.width) - 1
Less(x, y)    == ToZ(x) < ToZ(y)

Neg(x) == Like(x, -x.raw)
Invert(x) == Like(x, -x.raw - 1)
AbsOf(x)  == IF IsNegative(x) THEN Neg(x) ELSE x

------------------------------------------------------------------------------
(* Leading bits, by bisection: zeros |= shift.                              *)

RECURSIVE Bisect(_, _)
Bisect(n, shift) ==
  IF shift = 0 THEN 0
  ELSE IF n \div Pow2(shift) # 0 THEN Bisect(n \div Pow2(shift), shift \div 2)
  ELSE shift | Bisect(n, shift \div 2)

ZerosOf(n, bits) == IF n = 0 THEN bits ELSE IF n < 0 THEN 0 ELSE Bisect(n, bits \div 2)

LeadingZeros(x) ==
  IF IsSmall(x.width) THEN ZerosOf(x.raw, RegisterBits) - (RegisterBits - x.width)
  ELSE ZerosOf(x.raw, x.width)

LeadingOnes(x) ==
  IF IsSmall(x.width)
  THEN ZerosOf(Pow2(RegisterBits) - 1 - Register(x.raw * Pow2(RegisterBits - x.width)), RegisterBits)
  ELSE ZerosOf(Pow2(x.width) - 1 - (x.raw % Pow2(x.width)), x.width)

------------------------------------------------------------------------------
(* Casts, which may go from one representation to the other.                *)

Trunc(x, w)      == Make(x.raw, w, x.signed)
Ext(x, w)        == IF IsSmall(x.width) /\ x.signed
                    THEN Make(SignExtend(x.raw, x.width), w, x.signed)
                    ELSE Normalized(x.raw, w, x.signed)
SignCast(x, s)   == IF IsSmall(x.width) THEN Normalized(x.raw, x.width, s) ELSE Make(x.raw, x.width, s)
CastTo(x, w, s)  == Make(ToZ(x), w, s)

------------------------------------------------------------------------------
(* Integers of the library: division truncates, the remainder has the sign  *)
(* of the dividend, the modulo is not negative.                             *)

ZAbs(a)     == IF a < 0 THEN -a ELSE a
ZSign(a)    == IF a < 0 THEN -1 ELSE 1
ZDiv(a, b)  == ZSign(a) * ZSign(b) * (ZAbs(a) \div ZAbs(b))
ZRem(a, b)  == a - b * ZDiv(a, b)
ZMod(a, b)  == a % ZAbs(b)
ZGcd(a, b)  == IF a = 0 /\ b = 0 THEN 0
               ELSE Max({d \in 1..(ZAbs(a) + ZAbs(b)) : a % d = 0 /\ b % d = 0})

------------------------------------------------------------------------------
(* Arithmetic.                                                              *)

OutOfRange(n, w, s) ==        \* check_overflow, check_underflow
  IF s THEN n >= Pow2(w - 1) \/ n < -Pow2(w - 1) ELSE n >= Pow2(w) \/ n < 0

Add(x, y) == Like(x, x.raw + y.raw)
Sub(x, y) == Like(x, x.raw - y.raw)
Mul(x, y) == Like(x, x.raw * y.raw)

AddOverflow(x, y) ==
  LET r == Add(x, y) IN
  CASE ~IsSmall(x.width) -> OutOfRange(x.raw + y.raw, x.width, x.signed)
    [] IsSmall(x.width) /\ x.signed ->
         IsNegative(x) = IsNegative(y) /\ IsNegative(r) # IsNegative(x)
    [] OTHER -> Less(r, y)

SubOverflow(x, y) ==
  LET r == Sub(x, y) IN
  CASE ~IsSmall(x.width) -> OutOfRange(x.raw - y.raw, x.width, x.signed)
    [] IsSmall(x.width) /\ x.signed ->
         IsNegative(x) # IsNegative(y) /\ IsNegative(r) # IsNegative(x)
    [] OTHER -> Less(x, r)

NegateIf(b, x) == IF b THEN Neg(x) ELSE x

Div(x, y) ==
  IF IsSmall(x.width)
  THEN NegateIf(IsNegative(x) # IsNegative(y),
                LikeNormalized(x, AbsOf(x).raw \div AbsOf(y).raw))
  ELSE Like(x, ZDiv(x.raw, y.raw))

DivOverflow(x, y) ==
  CASE ~IsSmall(x.width) -> OutOfRange(ZDiv(x.raw, y.raw), x.width, x.signed)
    [] IsSmall(x.width) /\ x.signed -> IsMin(x) /\ AllOnes(y)
    [] OTHER -> FALSE

DivExact(x, y) ==
  IF IsSmall(x.width) THEN (AbsOf(x).raw % AbsOf(y).raw) = 0 ELSE ZMod(x.raw, y.raw) = 0

MulOverflow(x, y) ==
  LET r == Mul(x, y) IN
  CASE ~IsSmall(x.width) -> OutOfRange(x.raw * y.raw, x.width, x.signed)
    [] x.width = 1 /\ IsSmall(1) -> x.signed /\ IsMin(x) /\ IsMin(y)
    [] OTHER -> ~IsZero(x) /\ ~IsZero(y) /\ (Div(r, y) # x \/ Div(r, x) # y)

RemFaulty(x, y) == LikeNormalized(x, AbsOf(x).raw % AbsOf(y).raw)

Rem(x, y) ==
  IF IsSmall(x.width)
  THEN NegateIf(IsNegative(x), LikeNormalized(x, AbsOf(x).raw % AbsOf(y).raw))
  ELSE Like(x, ZRem(x.raw, y.raw))

Mod(x, y) ==
  LET r == LikeNormalized(x, AbsOf(x).raw % AbsOf(y).raw) IN
  CASE ~IsSmall(x.width) -> Like(x, ZMod(x.raw, y.raw))
    [] IsSmall(x.width) /\ IsNegative(x) /\ ~IsZero(r) -> Sub(AbsOf(y), r)
    [] OTHER -> r

Gcd(x, y) == IF IsSmall(x.width) THEN Like(x, ZGcd(AbsOf(x).raw, AbsOf(y).raw))
             ELSE Like(x, ZGcd(x.raw, y.raw))

------------------------------------------------------------------------------
(* Shifts, by y.raw in 0 .. width - 1, and bitwise operations.              *)

Shl(x, y) == Like(x, x.raw * Pow2(y.raw))

ShlOverflow(x, y) ==
  CASE IsSmall(x.width) /\ x.signed ->
         y.raw >= IF IsNegative(x) THEN LeadingOnes(x) ELSE LeadingZeros(x)
    [] IsSmall(x.width) /\ ~x.signed -> y.raw > LeadingZeros(x)
    [] ~IsSmall(x.width) /\ x.signed ->
         LET shifted == (x.raw % Pow2(x.width)) \div Pow2(x.width - y.raw)
         IN  shifted # IF Shl(x, y).raw >= 0 THEN 0 ELSE Pow2(y.raw) - 1
    [] OTHER -> x.raw \div Pow2(x.width - y.raw) # 0

Lshr(x, y) ==
  IF IsSmall(x.width) THEN LikeNormalized(x, x.raw \div Pow2(y.raw))
  ELSE Like(x, (x.raw % Pow2(x.width)) \div Pow2(y.raw))

Ashr(x, y) ==
  LET s == IF IsSmall(x.width) THEN SignExtend(x.raw, x.width)
           ELSE Normalize(x.raw, x.width, TRUE)
  IN  Like(x, s \div Pow2(y.raw))

ShrExact(x, y) == y.raw = 0 \/ x.raw % Pow2(y.raw) = 0

(* On values, with as many bits of the sign as it takes. *)
ZBits(a, w) == a % Pow2(w + 1)
BitAnd(x, y)  == Like(x, ZBits(x.raw, x.width) & ZBits(y.raw, y.width))
BitOr(x, y)   == Like(x, ZBits(x.raw, x.width) | ZBits(y.raw, y.width))
BitXor(x, y)  == Like(x, ZBits(x.raw, x.width) ^^ ZBits(y.raw, y.width))

------------------------------------------------------------------------------
(* One operation on two numbers, with its flags.                            *)

IsShift(y) == y.raw \in 0..(y.width - 1)         \* assert_shift

Result(n, overflow, exact) == [n |-> n, overflow |-> overflow, exact |-> exact]

Arithmetic(op, x, y) ==
  CASE op = "add" -> Result(Add(x, y), AddOverflow(x, y), TRUE)
    [] op = "sub" -> Result(Sub(x, y), SubOverflow(x, y), TRUE)
    [] op = "mul" -> Result(Mul(x, y), MulOverflow(x, y), TRUE)
    [] op = "div" -> Result(Div(x, y), DivOverflow(x, y), DivExact(x, y))
    [] op = "rem" -> Result(Rem(x, y), FALSE, TRUE)
    [] op = "mod" -> Result(Mod(x, y), FALSE, TRUE)
    [] op = "neg" -> Result(Neg(x), FALSE, TRUE)
    [] op = "gcd" -> Result(Gcd(x, y), FALSE, TRUE)

Bits(op, x, y) ==
  CASE op = "shl"  -> Result(Shl(x, y), ShlOverflow(x, y), TRUE)
    [] op = "lshr" -> Result(Lshr(x, y), FALSE, ShrExact(x, y))
    [] op = "ashr" -> Result(Ashr(x, y), FALSE, ShrExact(x, y))
    [] op = "and"  -> Result(BitAnd(x, y), FALSE, TRUE)
    [] op = "or"   -> Result(BitOr(x, y), FALSE, TRUE)
    [] op = "xor"  -> Result(BitXor(x, y), FALSE, TRUE)
    [] op = "not"  -> Result(Invert(x), FALSE, TRUE)

ArithmeticOps == {"add", "sub", "mul", "div", "rem", "mod", "neg", "gcd"}
BitOps        == {"shl", "lshr", "ashr", "and", "or", "xor", "not"}

Defined(op, y) ==
  /\ op \in {"div", "rem", "mod"} => ~IsZero(y)
  /\ op \in {"shl", "lshr", "ashr"} => IsShift(y)

Compute(op, x, y) == IF op \in ArithmeticOps THEN Arithmetic(op, x, y) ELSE Bits(op, x, y)

(* The ways to cast x to w bits and sign s.                                 *)
Casts(x, w, s) ==
  {CastTo(x, w, s)}
    \cup (IF s = x.signed /\ w < x.width THEN {Trunc(x, w)} ELSE {})
    \cup (IF s = x.signed /\ w > x.width THEN {Ext(x, w)} ELSE {})
    \cup (IF s # x.signed /\ w = x.width THEN {SignCast(x, s)} ELSE {})
==============================================================================
