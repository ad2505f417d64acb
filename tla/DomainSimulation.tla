--------------------------- MODULE DomainSimulation ---------------------------
(****************************************************************************)
(* What a numerical domain of machine integers promises: a variable of a    *)
(* program and the store that the analyzer computes for it walk through the *)
(* same operations, casts, conditions and merges of paths, and through the  *)
(* extrapolations of a loop head; the number stays in the store.            *)
(****************************************************************************)
EXTENDS NumericDomain

M == INSTANCE MachineInt

CONSTANTS
  Types,         \* the domains and types of the variable
  Others(_)      \* the abstract values that another variable may have

VARIABLES
  type,
  store,      \* what the analyzer knows
  number,     \* what the program has in the variable x
  constant    \* all operands were constants so far

vars == <<type, store, number, constant>>

value    == S!Get(store, "x", type)
With(v)  == S!Put(store, "y", v, type)           \* another variable has the value v
Path(v)  == S!Put(S!Top, "x", v, type)           \* the store of another path

Holds(pred, a, b) ==
  CASE pred = "EQ" -> a = b [] pred = "NE" -> a # b
    [] pred = "LT" -> a < b [] pred = "LE" -> a <= b
    [] pred = "GT" -> a > b [] pred = "GE" -> a >= b

Init ==
  /\ type \in Types /\ number \in Numbers(type)
  /\ \/ store = Path(VConstant(number, type)) /\ constant = TRUE
     \/ store = S!Top /\ constant = FALSE

(* x is an operand of an operation. *)
Compute(op) ==
  /\ UNCHANGED type
  /\ \/ \E other \in Others(type) :
           LET result == S!Put(store, "x", VAbstract(op, value, other, type), type) IN
           \E n \in VGamma(other, type) :
              /\ number' \in Concrete(op, number, n, type)
              /\ store' = result
              /\ constant' = (constant /\ other = VConstant(n, type))
     \/ /\ number' \in Concrete(op, number, number, type)
        /\ store' = S!Put(store, "x", VAbstract(op, value, value, type), type)
        /\ UNCHANGED constant

(* The numbers of linear expressions and thresholds: of a wide type, some.  *)
Samples(t) == IF t.w <= 2 THEN Numbers(t) ELSE {Lo(t), -1, 1, Hi(t)} \cap Numbers(t)

Convert ==
  \E t \in Types :
     /\ t.d = type.d /\ type' = t /\ UNCHANGED constant
     /\ \/ /\ number' = WrapTo(number, t)
           /\ store' = S!Put(S!Top, "x", VCast(value, type, t), t)
        \/ /\ t.s = type.s /\ t.w > type.w /\ number' = number
           /\ store' = S!Put(S!Top, "x", VExt(value, type, t), t)
        \/ \E factor, n \in Samples(t) :
             /\ number' = WrapTo(n + factor * WrapTo(number, t), t)
             /\ store' = S!Put(S!Top, "x", Linear(store, factor, "x", n, type, t), t)

(* A branch on the variable and another one, or a number. *)
Branch ==
  /\ type.d # "constant"
  /\ UNCHANGED <<type, number, constant>>
  /\ \E pred \in Predicates :
       \/ \E other \in Others(type) :
            \/ /\ \E n \in VGamma(other, type) : Holds(pred, number, n)
               /\ store' = S!Forget(Assume(pred, With(other), "x", "y", type), "y")
            \/ /\ \E n \in VGamma(other, type) : Holds(pred, n, number)
               /\ store' = S!Forget(Assume(pred, With(other), "y", "x", type), "y")
       \/ Holds(pred, number, number) /\ store' = Assume(pred, store, "x", "x", type)
       \/ \E n \in Numbers(type) :
            Holds(pred, number, n) /\ store' = AssumeNumber(pred, store, "x", n, type)

(* Another path ends here, with a value of its own. *)
Merge ==
  \E other \in Others(type) :
     /\ store' = S!Join(store, Path(other), type)
     /\ number' \in {number} \cup VGamma(other, type)
     /\ constant' = FALSE /\ UNCHANGED type

(* A loop head is refined. *)
Restrain ==
  \E other \in Others(type) :
     /\ number \in VGamma(other, type)
     /\ store' \in {S!Meet(store, Path(other), type), S!Narrow(store, Path(other), type)}
     /\ UNCHANGED <<type, number, constant>>

(* A loop head is extrapolated. *)
Extrapolate ==
  \E other \in Others(type) :
     /\ store' = S!Widen(store, Path(other), type)
     /\ number' \in {number} \cup VGamma(other, type)
     /\ constant' = FALSE /\ UNCHANGED type

ExtrapolateThreshold ==
  \E other \in Others(type), n \in Samples(type) :
     /\ store' = S!WidenThreshold(store, Path(other), n, type)
     /\ number' \in {number} \cup VGamma(other, type)
     /\ constant' = FALSE /\ UNCHANGED type

Next ==
  \/ \E op \in Operations : Compute(op)
  \/ Convert
  \/ Branch
  \/ Merge
  \/ Restrain
  \/ Extrapolate
  \/ ExtrapolateThreshold

Spec == Init /\ [][Next]_vars

------------------------------------------------------------------------------
(* Reference: an operation on integers, before it is wrapped.               *)
Mathematical(op, a, b, t) ==
  CASE op = "add"  -> a + b
    [] op = "sub"  -> a - b
    [] op = "mul"  -> a * b
    [] op = "div"  -> ZDiv(a, b)
    [] op = "rem"  -> ZRem(a, b)
    [] op = "mod"  -> a % AbsOf(b)
    [] op = "neg"  -> -a
    [] op = "not"  -> -a - 1
    [] op = "gcd"  -> IF a = 0 /\ b = 0 THEN 0
                      ELSE Max({d \in 1..Pow2(t.w) : a % d = 0 /\ b % d = 0})
    [] op = "shl"  -> a * Pow2(b)
    [] op = "lshr" -> LogicalRight(a, b, t)
    [] op = "ashr" -> ArithRight(a, b, t)
    [] op = "and"  -> BitAnd(a, b, t)
    [] op = "or"   -> BitOr(a, b, t)
    [] op = "xor"  -> BitXor(a, b, t)

Represented(n, t) == M!Make(n, t.w, t.s)

(* Numbers of up to RegisterBits bits are bit patterns in a register, wider *)
(* ones are integers of the library.  Both compute the number of the        *)
(* program in its one representation; the flags tell when the mathematical  *)
(* result is not a number of the type, and when a division or a shift to    *)
(* the right has lost something; casts go from one to the other (MachineInt *)
(* add, .., xor_, trunc, ext, sign_cast, cast).                             *)
OperationsExact ==
  LET x == Represented(number, type) IN
  /\ \A b \in Numbers(type) :
       LET y == Represented(b, type) IN
       \A op \in {o \in M!ArithmeticOps \cup M!BitOps : M!Defined(o, y)} :
         LET r == M!Compute(op, x, y)
             z == Mathematical(op, number, b, type)
         IN  /\ r.n = Represented(WrapTo(z, type), type) /\ M!ToZ(r.n) = WrapTo(z, type)
             /\ op \in {"add", "sub", "mul", "div", "shl"} => r.overflow = (z \notin Numbers(type))
             /\ op = "div" => r.exact = (b * z = number)
             /\ op \in {"lshr", "ashr"} => r.exact = (number % Pow2(b) = 0)
  /\ \A t \in Types : M!Casts(x, t.w, t.s) = {Represented(WrapTo(number, t), t)}

(* Soundness: no sequence of statements loses the number of the program.    *)
Sound == number \in VGamma(value, type)

(* Constants are propagated exactly: as long as every operand is a          *)
(* constant, so is the result, and it is not lost in a cast.                *)
ConstantsExact == constant => VGamma(value, type) = {number}

(* How often a value can still be widened: a bound goes to its end at once, *)
(* and a modulus is at least halved, which may free both bounds again.      *)
Digits(a, t)    == IF a = 0 THEN t.w + 1 ELSE Cardinality({k \in 0..t.w : Pow2(k) <= a})
Free(i, lo, hi) == Cardinality({lo, i.lb}) + Cardinality({hi, i.ub}) - 2
Rank(v, t) ==
  Choose(t, Free(v, Lo(t), Hi(t)), Digits(v.a, t),
         3 * Digits(v.c.a, t)
           + IF v.c.a = 0 THEN 0 ELSE Free(v.i, C!FirstFrom(v.c, Lo(t)), C!LastUpTo(v.c, Hi(t))),
         IF K!IsTop(v) THEN 0 ELSE IF K!IsInteger(v) THEN 1 ELSE 2)

(* A loop head is extrapolated a number of times that grows with the bits   *)
(* of the type and not with its numbers: each widening that changes the     *)
(* value lowers the rank, the reduction that follows it included.           *)
WideningStops ==
  \A other \in Others(type) :
     LET next == VWiden(value, other, type)
     IN  next # value => Rank(next, type) < Rank(value, type)

(* The inclusion by which the iterators decide that they are done is that   *)
(* of the sets that the values stand for.                                   *)
OrderExact ==
  \A other \in Others(type) :
     LET G == VGamma(value, type)  H == VGamma(other, type) IN
     /\ S!Leq(store, Path(other), type) = (G \subseteq H)
     /\ S!Leq(Path(other), store, type) = (H \subseteq G)

(* A condition is bottom exactly when no values of the store satisfy it: a  *)
(* domain with bounds finds every branch dead that the store rules out.     *)
BranchesExact ==
  type.d \in {"interval", "both"} =>
    \A pred \in Predicates :
       LET G == VGamma(value, type) IN
       /\ \A other \in Others(type) :
            LET H == VGamma(other, type) IN
            Assume(pred, With(other), "x", "y", type).bottom
              <=> ~\E a \in G, b \in H : Holds(pred, a, b)
       /\ \A n \in Numbers(type) :
            AssumeNumber(pred, store, "x", n, type).bottom <=> ~\E a \in G : Holds(pred, a, n)
==============================================================================
