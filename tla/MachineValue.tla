----------------------------- MODULE MachineValue -----------------------------
(****************************************************************************)
(* What the abstract values of machine integers stand for: numbers of a     *)
(* type, given by their value, and what a program computes with them.       *)
(*                                                                          *)
(* A type is [w, s]: a bit width and whether it is signed.                  *)
(****************************************************************************)
EXTENDS Integers, Bitwise, FiniteSets, FiniteSetsExt

CONSTANT RegisterBits          \* width of a register, see MachineInt

ASSUME RegisterHasBits == RegisterBits \in Nat \ {0}

Pow2(n) == 2^n

Lo(t) == IF t.s THEN -Pow2(t.w - 1) ELSE 0
Hi(t) == IF t.s THEN Pow2(t.w - 1) - 1 ELSE Pow2(t.w) - 1
Numbers(t) == Lo(t)..Hi(t)

WrapTo(n, t)  == ((n - Lo(t)) % Pow2(t.w)) + Lo(t)
Pattern(n, t) == n % Pow2(t.w)
Flip(t)       == [t EXCEPT !.s = ~t.s]
HighBit(n, t) == Pattern(n, t) >= Pow2(t.w - 1)
AllOnes(n, t) == Pattern(n, t) = Pow2(t.w) - 1

AbsOf(a)   == IF a < 0 THEN -a ELSE a
ZDiv(a, b) == (IF (a < 0) # (b < 0) THEN -1 ELSE 1) * (AbsOf(a) \div AbsOf(b))
ZRem(a, b) == a - b * ZDiv(a, b)

LogicalRight(a, b, t) == WrapTo(Pattern(a, t) \div Pow2(b), t)
ArithRight(a, b, t)   == WrapTo(WrapTo(a, [t EXCEPT !.s = TRUE]) \div Pow2(b), t)
BitAnd(a, b, t)       == WrapTo(Pattern(a, t) & Pattern(b, t), t)
BitOr(a, b, t)        == WrapTo(Pattern(a, t) | Pattern(b, t), t)
BitXor(a, b, t)       == WrapTo(Pattern(a, t) ^^ Pattern(b, t), t)

LeadingZeros(n, t) == CHOOSE k \in 0..t.w : /\ Pattern(n, t) < Pow2(t.w - k)
                                            /\ k < t.w => Pattern(n, t) >= Pow2(t.w - k - 1)

Operations == {"add", "add_no_wrap", "sub", "sub_no_wrap", "mul", "mul_no_wrap", "div", "rem",
               "shl", "shl_no_wrap", "lshr", "ashr", "and", "or", "xor"}

(* The outcomes of an operation: none where it is undefined. *)
Concrete(op, a, b, t) ==
  CASE op = "add"          -> {WrapTo(a + b, t)}
    [] op = "add_no_wrap"  -> {a + b} \cap Numbers(t)
    [] op = "sub"          -> {WrapTo(a - b, t)}
    [] op = "sub_no_wrap"  -> {a - b} \cap Numbers(t)
    [] op = "mul"          -> {WrapTo(a * b, t)}
    [] op = "mul_no_wrap"  -> {a * b} \cap Numbers(t)
    [] op = "div"          -> IF b = 0 THEN {} ELSE {ZDiv(a, b)} \cap Numbers(t)
    [] op = "rem"          -> IF b = 0 THEN {} ELSE {ZRem(a, b)}
    [] b \notin 0..(t.w - 1) /\ op \in {"shl", "shl_no_wrap", "lshr", "ashr"} -> {}
    [] op = "shl"          -> {WrapTo(a * Pow2(b), t)}
    [] op = "shl_no_wrap"  -> {a * Pow2(b)} \cap Numbers(t)
    [] op = "lshr"         -> {LogicalRight(a, b, t)}
    [] op = "ashr"         -> {ArithRight(a, b, t)}
    [] op = "and"          -> {BitAnd(a, b, t)}
    [] op = "or"           -> {BitOr(a, b, t)}
    [] op = "xor"          -> {BitXor(a, b, t)}
==============================================================================
