---------------------------- MODULE SeparateDomain ----------------------------
(****************************************************************************)
(* An abstract value for every variable                                     *)
(* (core/include/ikos/core/domain/machine_int/separate_domain.hpp), on top  *)
(* of any domain of values.  A variable without an entry may have every     *)
(* value; one variable without values makes the whole store bottom.         *)
(* The variables of a store have types, which t may tell.                   *)
(****************************************************************************)
EXTENDS Functions

CONSTANTS VTop(_), VBottom(_), VIsBottom(_, _), VLeq(_, _, _),
          VJoin(_, _, _), VMeet(_, _, _), VWiden(_, _, _), VNarrow(_, _, _),
          VWidenThreshold(_, _, _, _),
          TypeOf(_, _)     \* the type of a variable, in a store of type t

EmptyMap == [x \in {} |-> 0]
Top      == [bottom |-> FALSE, at |-> EmptyMap]
Bottom   == [bottom |-> TRUE, at |-> EmptyMap]
Keys(s)  == DOMAIN s.at

Get(s, x, t) ==
  IF s.bottom THEN VBottom(t) ELSE IF x \in Keys(s) THEN s.at[x] ELSE VTop(t)

Forget(s, x) == [s EXCEPT !.at = Restrict(@, Keys(s) \ {x})]

Enter(s, x, v) == [s EXCEPT !.at = [y \in Keys(s) \cup {x} |-> IF y = x THEN v ELSE s.at[y]]]

Put(s, x, v, t) ==
  CASE s.bottom                       -> s
    [] ~s.bottom /\ VIsBottom(v, t)      -> Bottom
    [] ~s.bottom /\ v = VTop(t)       -> Forget(s, x)
    [] OTHER                          -> Enter(s, x, v)

Refine(s, x, v, t) ==
  CASE s.bottom \/ v = VTop(t)        -> s
    [] ~s.bottom /\ VIsBottom(v, t)      -> Bottom
    [] OTHER -> LET w == IF x \in Keys(s) THEN VMeet(s.at[x], v, t) ELSE v
                IN  IF VIsBottom(w, t) THEN Bottom ELSE Enter(s, x, w)

Leq(s, u, t) ==
  \/ s.bottom
  \/ ~u.bottom /\ \A x \in Keys(u) : x \in Keys(s) /\ VLeq(s.at[x], u.at[x], TypeOf(x, t))

(* Only what both know is kept. *)
Intersect(Op(_, _, _), s, u, t) ==
  LET both == Keys(s) \cap Keys(u)
      kept == {x \in both : Op(s.at[x], u.at[x], TypeOf(x, t)) # VTop(TypeOf(x, t))}
  IN  IF u.bottom THEN s ELSE IF s.bottom THEN u
      ELSE [s EXCEPT !.at = [x \in kept |-> Op(s.at[x], u.at[x], TypeOf(x, t))]]

(* What one knows is kept. *)
Union(Op(_, _, _), s, u, t) ==
  LET both == Keys(s) \cap Keys(u)
      At(x) == IF x \in both THEN Op(s.at[x], u.at[x], TypeOf(x, t))
               ELSE IF x \in Keys(s) THEN s.at[x] ELSE u.at[x]
  IN  IF s.bottom \/ u.bottom \/ \E x \in both : VIsBottom(At(x), TypeOf(x, t)) THEN Bottom
      ELSE [s EXCEPT !.at = [x \in Keys(s) \cup Keys(u) |-> At(x)]]

Join(s, u, t)   == Intersect(VJoin, s, u, t)
Widen(s, u, t)  == Intersect(VWiden, s, u, t)
WidenThreshold(s, u, n, t) ==
  LET Extrapolate(v, w, r) == VWidenThreshold(v, w, n, r) IN Intersect(Extrapolate, s, u, t)

Meet(s, u, t)   == Union(VMeet, s, u, t)
Narrow(s, u, t) == Union(VNarrow, s, u, t)
==============================================================================
