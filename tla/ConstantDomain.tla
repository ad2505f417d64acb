----------------------------- MODULE ConstantDomain -----------------------------
(****************************************************************************)
(* Constants of machine integers                                            *)
(* (core/include/ikos/core/value/machine_int/constant.hpp): no number, one, *)
(* or all of a type.  Its operations are those of MachineInt.               *)
(*                                                                          *)
(* A value is [kind, n]; n is a number of the type also when the kind is    *)
(* not "integer".                                                           *)
(****************************************************************************)
EXTENDS MachineValue

M == INSTANCE MachineInt

Integer(n)     == [kind |-> "integer", n |-> n]
Constant(n, t) == Integer(M!Make(n, t.w, t.s))
Top(t)         == [kind |-> "top", n |-> M!Make(0, t.w, t.s)]
Bottom(t)      == [kind |-> "bottom", n |-> M!Make(0, t.w, t.s)]

IsBottom(c)  == c.kind = "bottom"
IsTop(c)     == c.kind = "top"
IsInteger(c) == c.kind = "integer"

Leq(c, d) == IsBottom(c) \/ IsTop(d) \/ (IsInteger(c) /\ c = d)

Join(c, d, t) ==
  IF IsBottom(c) \/ IsTop(d) THEN d
  ELSE IF IsTop(c) \/ IsBottom(d) \/ c = d THEN c ELSE Top(t)

Meet(c, d, t) ==
  IF IsBottom(c) \/ IsTop(d) THEN c
  ELSE IF IsTop(c) \/ IsBottom(d) THEN d ELSE IF c = d THEN c ELSE Bottom(t)

(* The domain is flat. *)
Widen(c, d, t)             == Join(c, d, t)
WidenThreshold(c, d, n, t) == Join(c, d, t)
Narrow(c, d, t)            == Meet(c, d, t)

Cast(c, t, u) ==
  CASE IsBottom(c)  -> Bottom(u)
    [] IsTop(c)     -> Top(u)
    [] IsInteger(c) -> Integer(M!CastTo(c.n, u.w, u.s))

Ext(c, t, u) == IF IsInteger(c) THEN Integer(M!Ext(c.n, u.w)) ELSE Cast(c, t, u)

------------------------------------------------------------------------------
IsZero(c)    == IsInteger(c) /\ M!IsZero(c.n)
IsAllOnes(c) == IsInteger(c) /\ M!AllOnes(c.n)

Divisions == {"div", "rem"}
Shifts    == {"shl", "shl_no_wrap", "lshr", "ashr"}

OutOfWidth(d, t) ==
  IsInteger(d) /\ \/ M!Less(d.n, M!Make(0, t.w, t.s))
                  \/ M!Less(M!Make(t.w - 1, t.w, t.s), d.n)

Undefined(op, d, t) ==
  \/ op \in Divisions /\ IsZero(d)
  \/ op \in Shifts /\ OutOfWidth(d, t)

(* One operand decides. *)
IsNought(op, c, d) ==
  \/ op \in {"mul", "mul_no_wrap", "and"} /\ (IsZero(c) \/ IsZero(d))
  \/ op \in Divisions \cup Shifts /\ IsZero(c)

IsFull(op, c, d) == op = "or" /\ (IsAllOnes(c) \/ IsAllOnes(d))

Unchecked(op) ==
  CASE op = "add_no_wrap" -> "add" [] op = "sub_no_wrap" -> "sub"
    [] op = "mul_no_wrap" -> "mul" [] op = "shl_no_wrap" -> "shl"
    [] OTHER -> op

(* An overflow is undefined behaviour where the program must not wrap. *)
Combine(op, c, d, t) ==
  LET r == M!Compute(Unchecked(op), c.n, d.n) IN
  IF r.overflow /\ (op # Unchecked(op) \/ op = "div") THEN Bottom(t) ELSE Integer(r.n)

Abstract(op, c, d, t) ==
  IF IsBottom(c) \/ IsBottom(d) \/ Undefined(op, d, t) THEN Bottom(t)
  ELSE IF IsNought(op, c, d) THEN Constant(0, t)
  ELSE IF IsFull(op, c, d) THEN Constant(-1, t)
  ELSE IF IsTop(c) \/ IsTop(d) THEN Top(t)
  ELSE Combine(op, c, d, t)

------------------------------------------------------------------------------
Gamma(c, t) ==
  CASE IsBottom(c)  -> {}
    [] IsTop(c)     -> Numbers(t)
    [] IsInteger(c) -> {M!ToZ(c.n)}

Elements(t) == {Bottom(t), Top(t)} \cup {Constant(n, t) : n \in Numbers(t)}
==============================================================================
