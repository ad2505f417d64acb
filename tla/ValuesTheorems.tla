---------------------------- MODULE ValuesTheorems ----------------------------
(****************************************************************************)
(* The values that the concurrent iterator computes, for any number of      *)
(* workers, all functions, orders and domains that obey DomainLaws and      *)
(* JoinsLeast: the iterations of a loop go up, then down, and the result is *)
(* a post-fixpoint when the blocks that are refined have monotone transfer  *)
(* functions.  One lemma per step shows that it uncovers nothing that has   *)
(* run.                                                                     *)
(****************************************************************************)
EXTENDS ConcurrentFixpointTheorems

(* The types of what the rules read and write.                              *)
LEMMA TableTypes ==
  ASSUME TypeInv
  PROVE  /\ prog \in Programs /\ cfg = CfgOf[prog] /\ cfg.entry \in cfg.node
         /\ \A c \in Cell : Block(c) \in cfg.node /\ Type(c) \in {"plain", "head", "exit"}
         /\ \A n : CfgPred(cfg, n) \subseteq cfg.node
         /\ \A n \in cfg.node :
              /\ pre[n] \in Value /\ post[n] \in Value
              /\ AnalyzeNode(prog, n, pre[n]) \in Value
              /\ \A p \in cfg.node : EdgeValue(p, n) \in Value
         /\ \A w \in Workers :
              /\ cur[w] \in Cell /\ unread[w] \subseteq cfg.node
              /\ acc[w] \in [in : Value, back : Value]
              /\ acc[w].in \in Value /\ acc[w].back \in Value
<1>1. TypeOK /\ InputFixed /\ WellFormed(wpo, cfg)
  BY OrderWellFormed DEF TypeInv
<1>2. prog \in Programs /\ cfg = CfgOf[prog] /\ cfg.entry \in cfg.node
  BY <1>1, CellFacts DEF InputFixed
<1>3. \A c \in Cell : Block(c) \in cfg.node /\ Type(c) \in {"plain", "head", "exit"}
  BY <1>1, CellFacts DEF Cell, Block, Type
<1>4. \A n \in cfg.node : pre[n] \in Value /\ post[n] \in Value
  BY <1>1 DEF TypeOK
<1>5. \A n \in cfg.node : /\ AnalyzeNode(prog, n, pre[n]) \in Value
                          /\ \A p \in cfg.node : EdgeValue(p, n) \in Value
  BY <1>2, <1>4, ValuesClosed DEF EdgeValue
<1>6. \A w \in Workers : /\ cur[w] \in Cell /\ unread[w] \subseteq cfg.node
                         /\ acc[w] \in [in : Value, back : Value]
                         /\ acc[w].in \in Value /\ acc[w].back \in Value
  BY <1>1 DEF TypeOK
<1> QED  BY <1>2, <1>3, <1>4, <1>5, <1>6 DEF CfgPred

(* Inclusion, as the proofs use it.                                         *)
LEMMA LeqRefl == ASSUME NEW a \in Value PROVE Leq(a, a)
  BY DomainLaws

LEMMA LeqTrans ==
  ASSUME NEW a \in Value, NEW b \in Value, NEW c \in Value, Leq(a, b), Leq(b, c)
  PROVE  Leq(a, c)
  BY DomainLaws

(* A value that is covered stays covered when more is joined.               *)
LEMMA JoinCovers ==
  ASSUME NEW a \in Value, NEW b \in Value
  PROVE  /\ Join(a, b) \in Value /\ Leq(b, Join(a, b))
         /\ \A c \in Value : Leq(c, a) => Leq(c, Join(a, b))
<1>1. Join(a, b) \in Value
  BY ValuesClosed
<1>2. Leq(a, Join(a, b)) /\ Leq(b, Join(a, b))
  BY DomainLaws
<1> QED  BY <1>1, <1>2, LeqTrans

LEMMA JoinLoopCovers ==
  ASSUME NEW a \in Value, NEW b \in Value
  PROVE  /\ JoinLoop(a, b) \in Value
         /\ \A c \in Value : Leq(c, a) \/ Leq(c, b) => Leq(c, JoinLoop(a, b))
<1>1. JoinLoop(a, b) \in Value
  BY ValuesClosed
<1>2. Leq(a, JoinLoop(a, b)) /\ Leq(b, JoinLoop(a, b))
  BY DomainLaws
<1> QED  BY <1>1, <1>2, LeqTrans

(* A refinement lies between what it refines and what it refines with.      *)
LEMMA NarrowBetween ==
  ASSUME NEW a \in Value, NEW b \in Value, Leq(b, a)
  PROVE  Narrow(a, b) \in Value /\ Leq(b, Narrow(a, b)) /\ Leq(Narrow(a, b), a)
<1>1. Narrow(a, b) \in Value
  BY ValuesClosed
<1>2. Leq(b, Narrow(a, b)) /\ Leq(Narrow(a, b), a)
  BY DomainLaws
<1> QED  BY <1>1, <1>2

------------------------------------------------------------------------------
(* Who writes what the invariant speaks of.                                 *)

(* The only cell that has run and shares its block with a cell that runs is *)
(* the head of an exit that runs.                                           *)
LEMMA WriterAlone ==
  ASSUME SchedulerInv, NEW w \in Workers, pc[w] \in RulePcs,
         NEW c \in done, Block(c) = Block(cur[w])
  PROVE  cur[w] \in Exits(wpo) /\ c = HeadOfExit(cur[w])
<1>1. InputFixed /\ done \in SUBSET Cell
  BY DEF SchedulerInv, TypeOK
<1>2. cur[w] \in Cell /\ cur[w] \notin done
  BY RunsReady
<1>3. \/ c \in Exits(wpo) /\ cur[w] = HeadOfExit(c)
      \/ cur[w] \in Exits(wpo) /\ c = HeadOfExit(cur[w])
  BY <1>1, <1>2, OrderWellFormed, SameBlock DEF Cell, Block
<1>4. c \in Exits(wpo) => HeadOfExit(c) \in done
  BY <1>1, ExitFacts, ExitAlone
<1> QED  BY <1>2, <1>3, <1>4

(* The posts that a cell joins are not written any more once all that it    *)
(* waits for has run.                                                       *)
LEMMA InputsWritten ==
  ASSUME SchedulerInv, NEW w \in Workers, pc[w] = "analyze",
         NEW c \in Cell, Pred(c) \subseteq done, Type(c) # "head",
         NEW p \in CfgPred(cfg, Block(c))
  PROVE  p # Block(cur[w])
<1>1. InputFixed /\ DoneClosed /\ LocalsOK /\ done \in SUBSET Cell
  BY DEF SchedulerInv, TypeOK
<1>2. \A d \in done : wpo.pred[d] \subseteq done
  BY <1>1 DEF DoneClosed, Pred
<1>3. CellOf(wpo, p) \in done
  BY <1>1, <1>2, OrderWellFormed, InputsBefore DEF Pred, Cell, Block, Type
<1>4. cur[w] \in Cell /\ cur[w] \notin done
  BY RunsReady DEF RulePcs
<1>5. CellOf(wpo, Block(cur[w])) = cur[w]
  BY <1>1, <1>4, OrderWellFormed, CellOfBlock DEF Cell, Block, Type, LocalsOK, LocalOK
<1> QED  BY <1>3, <1>4, <1>5

(* What the invariant says of the places of the rules.                      *)
ValuePcs == {"read", "analyze", "reset", "unstable"}

(* A step that leaves the values, and the places of the rules, alone.       *)
LEMMA Undisturbed ==
  ASSUME ValuesInv,
         UNCHANGED <<prog, cfg, wpo, pre, post, kind, count, unread, acc, done>>,
         \A v \in Workers :
           pc[v] \in ValuePcs \/ pc'[v] \in ValuePcs => pc'[v] = pc[v] /\ cur'[v] = cur[v]
  PROVE  ValuesInv'
<1>1. /\ \A n : /\ EdgesCovered(n)' <=> EdgesCovered(n)
               /\ NodeCovered(n)' <=> NodeCovered(n)
      /\ \A n, p : EdgeValue(p, n)' = EdgeValue(p, n)
      /\ \A c : Type(c)' = Type(c) /\ Block(c)' = Block(c) /\ Comp(c)' = Comp(c) /\ Pred(c)' = Pred(c)
      /\ \A x : Innermost(x)' <=> Innermost(x)
  BY DEF EdgesCovered, NodeCovered, EdgeValue, Type, Block, Comp, Pred, Innermost
<1>2. EntryCovered'
  BY <1>1 DEF ValuesInv, EntryCovered, ValuePcs
<1>3. ReadsCovered'
  BY <1>1 DEF ValuesInv, ReadsCovered, ValuePcs, Inputs, Outside
<1>4. InputsCovered'
  <2>1. \A v \in Workers : HasJoined(v)' => HasJoined(v) /\ Block(cur[v])' = Block(cur[v])
    BY <1>1 DEF HasJoined, ValuePcs
  <2> QED  BY <1>1, <2>1 DEF ValuesInv, InputsCovered, EdgesCovered, EdgeValue
<1>5. NodesCovered'
  BY <1>1 DEF ValuesInv, NodesCovered, ValuePcs
<1>7. LoopsDescend'
  BY <1>1 DEF ValuesInv, LoopsDescend, ValuePcs
<1> QED  BY <1>2, <1>3, <1>4, <1>5, <1>7 DEF ValuesInv

(* A rule that begins has joined nothing yet.                               *)
LEMMA BeginRuleValues ==
  ASSUME TypeInv, ValuesInv, NEW w \in Workers, NEW c \in Cell, BeginRule(w, c),
         pc[w] \notin ValuePcs,
         UNCHANGED <<prog, cfg, wpo, pre, post, kind, count, done>>
  PROVE  ValuesInv'
<1> DEFINE start == IF Type(c) = "plain" /\ Block(c) = cfg.entry THEN pre[Block(c)] ELSE Bottom
<1>1. /\ \A n : /\ EdgesCovered(n)' <=> EdgesCovered(n)
               /\ NodeCovered(n)' <=> NodeCovered(n)
      /\ \A n, p : EdgeValue(p, n)' = EdgeValue(p, n)
      /\ \A d : Type(d)' = Type(d) /\ Block(d)' = Block(d) /\ Comp(d)' = Comp(d) /\ Pred(d)' = Pred(d)
      /\ \A x : Innermost(x)' <=> Innermost(x)
  BY DEF EdgesCovered, NodeCovered, EdgeValue, Type, Block, Comp, Pred, Innermost
<1>t. /\ pc \in [Workers -> RulePcs \cup {"idle", "loop"}]
      /\ cur \in [Workers -> Cell]
      /\ unread \in [Workers -> SUBSET cfg.node]
      /\ acc \in [Workers -> [in : Value, back : Value]]
  BY DEF TypeInv, TypeOK
<1>2. /\ cur'[w] = c /\ acc'[w] = [in |-> start, back |-> Bottom]
      /\ \/ pc'[w] = "read" /\ JoinsInputs(c) /\ unread'[w] = Inputs(c)
         \/ pc'[w] = "analyze" /\ ~ JoinsInputs(c)
      /\ \A v \in Workers \ {w} : /\ pc'[v] = pc[v] /\ cur'[v] = cur[v]
                                 /\ acc'[v] = acc[v] /\ unread'[v] = unread[v]
  <2>1. PICK joins \in BOOLEAN :
           /\ joins = JoinsInputs(c)
           /\ pc' = [pc EXCEPT ![w] = IF joins THEN "read" ELSE "analyze"]
           /\ unread' = [unread EXCEPT ![w] = IF joins THEN Inputs(c) ELSE {}]
    BY DEF BeginRule, JoinsInputs
  <2>2. acc' = [acc EXCEPT ![w] = [in |-> start, back |-> Bottom]] /\ cur' = [cur EXCEPT ![w] = c]
    BY DEF BeginRule
  <2>3. cur'[w] = c /\ acc'[w] = [in |-> start, back |-> Bottom]
    BY <1>t, <2>2
  <2>4. pc'[w] = (IF joins THEN "read" ELSE "analyze") /\ unread'[w] = (IF joins THEN Inputs(c) ELSE {})
    BY <1>t, <2>1
  <2>5. \A v \in Workers \ {w} : /\ pc'[v] = pc[v] /\ cur'[v] = cur[v]
                                /\ acc'[v] = acc[v] /\ unread'[v] = unread[v]
    BY <1>t, <2>1, <2>2
  <2>6. \/ pc'[w] = "read" /\ JoinsInputs(c) /\ unread'[w] = Inputs(c)
        \/ pc'[w] = "analyze" /\ ~ JoinsInputs(c)
    <3>1. CASE JoinsInputs(c)
      BY <2>1, <2>4, <3>1
    <3>2. CASE ~ JoinsInputs(c)
      BY <2>1, <2>4, <3>2
    <3> QED  BY <3>1, <3>2
  <2> QED  BY <2>3, <2>5, <2>6
<1> HIDE DEF start
<1>3. pc'[w] # "reset" /\ pc'[w] # "unstable" /\ (pc'[w] = "analyze" => Type(c) = "head")
  BY <1>2 DEF JoinsInputs
<1>4. \A v \in Workers : pc[v] = "unstable" \/ pc'[v] = "unstable" =>
        v # w /\ pc'[v] = pc[v] /\ cur'[v] = cur[v]
  BY <1>2, <1>3 DEF ValuePcs
<1>5. EntryCovered'
  BY <1>1, <1>2 DEF ValuesInv, EntryCovered, start
<1>6. ReadsCovered'
  BY <1>1, <1>2 DEF ValuesInv, ReadsCovered, Inputs, Outside
<1>7. InputsCovered'
  <2>1. \A v \in Workers : HasJoined(v)' =>
          v # w /\ HasJoined(v) /\ Block(cur[v])' = Block(cur[v])
    BY <1>1, <1>2, <1>3 DEF HasJoined
  <2> QED  BY <1>1, <2>1 DEF ValuesInv, InputsCovered, EdgesCovered, EdgeValue
<1>8. NodesCovered'
  BY <1>1, <1>2, <1>3, <1>4 DEF ValuesInv, NodesCovered
<1>10. LoopsDescend'
  <2>1. Leq(start, pre[Block(c)]) /\ Leq(Bottom, pre[Block(c)])
    BY TableTypes, LeqRefl, JoinsLeast DEF start
  <2> QED  BY <1>1, <1>2, <2>1 DEF ValuesInv, LoopsDescend
<1> QED  BY <1>5, <1>6, <1>7, <1>8, <1>10 DEF ValuesInv

(* Joining one more input covers it, and what was joined stays covered.     *)
LEMMA ReadEffect ==
  ASSUME TypeInv, NEW w \in Workers, NEW p \in cfg.node, acc' = [acc EXCEPT ![w] = Joined(w, p)]
  PROVE  LET value == EdgeValue(p, Block(cur[w]))
         IN  /\ value \in Value
             /\ acc'[w].in \in {acc[w].in, Join(acc[w].in, value)}
             /\ acc'[w].back \in {acc[w].back, Join(acc[w].back, value)}
             /\ \A a \in Value : Leq(a, acc[w].in) => Leq(a, acc'[w].in)
             /\ \A a \in Value : Leq(a, acc[w].back) => Leq(a, acc'[w].back)
             /\ Leq(value, acc'[w].in) \/ Leq(value, acc'[w].back)
             /\ Type(cur[w]) # "exit" => Leq(value, acc'[w].in)
<1> DEFINE value == EdgeValue(p, Block(cur[w]))
<1>1. value \in Value /\ acc[w].in \in Value /\ acc[w].back \in Value
      /\ acc[w] \in [in : Value, back : Value] /\ acc \in [Workers -> [in : Value, back : Value]]
  BY TableTypes DEF TypeInv, TypeOK
<1>2. /\ Join(acc[w].in, value) \in Value /\ Leq(value, Join(acc[w].in, value))
      /\ Join(acc[w].back, value) \in Value /\ Leq(value, Join(acc[w].back, value))
      /\ \A a \in Value : Leq(a, acc[w].in) => Leq(a, Join(acc[w].in, value))
      /\ \A a \in Value : Leq(a, acc[w].back) => Leq(a, Join(acc[w].back, value))
  BY <1>1, JoinCovers
<1>3. acc'[w] = Joined(w, p)
  BY <1>1
<1>4. CASE Type(cur[w]) = "exit" /\ ~ Outside(Block(cur[w]), p)
  <2>1. acc'[w].in = acc[w].in /\ acc'[w].back = Join(acc[w].back, value)
    BY <1>1, <1>3, <1>4 DEF Joined, EdgeValue
  <2> QED  BY <1>1, <1>2, <1>4, <2>1
<1>5. CASE ~ (Type(cur[w]) = "exit" /\ ~ Outside(Block(cur[w]), p))
  <2>1. acc'[w].back = acc[w].back /\ acc'[w].in = Join(acc[w].in, value)
    BY <1>1, <1>3, <1>5 DEF Joined, EdgeValue
  <2> QED  BY <1>1, <1>2, <1>5, <2>1
<1> QED  BY <1>4, <1>5

LEMMA ReadValues ==
  ASSUME TypeInv, ValuesInv, NEW w \in Workers, Read(w)
  PROVE  ValuesInv'
<1> DEFINE n == Block(cur[w])
<1>1. /\ UNCHANGED <<prog, cfg, wpo, pre, post, kind, count, pc, cur, done>>
      /\ pc[w] = "read"
  BY DEF Read, input, data, task
<1>2. PICK p \in unread[w] : /\ unread' = [unread EXCEPT ![w] = @ \ {p}]
                             /\ acc' = [acc EXCEPT ![w] = Joined(w, p)]
  BY DEF Read
<1>3. /\ \A m : /\ EdgesCovered(m)' <=> EdgesCovered(m)
               /\ NodeCovered(m)' <=> NodeCovered(m)
      /\ \A m, q : EdgeValue(q, m)' = EdgeValue(q, m)
      /\ \A d : /\ Type(d)' = Type(d) /\ Block(d)' = Block(d) /\ Comp(d)' = Comp(d)
               /\ Pred(d)' = Pred(d) /\ Inputs(d)' = Inputs(d)
      /\ \A x : Innermost(x)' <=> Innermost(x)
  BY <1>1 DEF EdgesCovered, NodeCovered, EdgeValue, Type, Block, Comp, Pred, Inputs, Outside, Innermost
<1>4. /\ acc \in [Workers -> [in : Value, back : Value]]
      /\ unread \in [Workers -> SUBSET cfg.node] /\ p \in cfg.node
      /\ n \in cfg.node /\ cur[w] \in Cell
  BY <1>2, TableTypes DEF TypeInv, TypeOK
<1>5. /\ EdgeValue(p, n) \in Value
      /\ acc'[w].in \in {acc[w].in, Join(acc[w].in, EdgeValue(p, n))}
      /\ acc'[w].back \in {acc[w].back, Join(acc[w].back, EdgeValue(p, n))}
      /\ \A a \in Value : Leq(a, acc[w].in) => Leq(a, acc'[w].in)
      /\ \A a \in Value : Leq(a, acc[w].back) => Leq(a, acc'[w].back)
      /\ Leq(EdgeValue(p, n), acc'[w].in) \/ Leq(EdgeValue(p, n), acc'[w].back)
      /\ Type(cur[w]) # "exit" => Leq(EdgeValue(p, n), acc'[w].in)
  BY <1>2, <1>4, ReadEffect
<1>6. /\ unread'[w] = unread[w] \ {p}
      /\ \A v \in Workers \ {w} : unread'[v] = unread[v] /\ acc'[v] = acc[v]
  BY <1>2, <1>4
<1>7. \A q \in CfgPred(cfg, n) : EdgeValue(q, n) \in Value
  BY <1>4, TableTypes
<1>8. EntryCovered'
  BY <1>1, <1>3, <1>5, <1>6, ValuesClosed DEF ValuesInv, EntryCovered
<1>9. ReadsCovered'
  <2>1. ASSUME NEW v \in Workers, v # w, pc[v] = "read"
        PROVE  /\ unread'[v] \subseteq Inputs(cur[v])
               /\ \A q \in CfgPred(cfg, Block(cur[v])) \ unread'[v] :
                    /\ Type(cur[v]) = "plain" => Leq(EdgeValue(q, Block(cur[v])), acc'[v].in)
                    /\ Type(cur[v]) = "exit" => \/ Leq(EdgeValue(q, Block(cur[v])), acc'[v].in)
                                               \/ Leq(EdgeValue(q, Block(cur[v])), acc'[v].back)
    BY <1>6, <2>1 DEF ValuesInv, ReadsCovered
  <2>2. /\ unread'[w] \subseteq Inputs(cur[w])
        /\ \A q \in CfgPred(cfg, n) \ unread'[w] :
             /\ Type(cur[w]) = "plain" => Leq(EdgeValue(q, n), acc'[w].in)
             /\ Type(cur[w]) = "exit" => \/ Leq(EdgeValue(q, n), acc'[w].in)
                                        \/ Leq(EdgeValue(q, n), acc'[w].back)
    <3>1. \A q \in CfgPred(cfg, n) \ unread'[w] : q = p \/ q \in CfgPred(cfg, n) \ unread[w]
      BY <1>6
    <3> QED  BY <1>1, <1>5, <1>6, <1>7, <3>1 DEF ValuesInv, ReadsCovered
  <2> QED  BY <1>1, <1>3, <2>1, <2>2 DEF ReadsCovered, Inputs, Block, Type, EdgeValue, Outside
<1>10. InputsCovered'
  BY <1>1, <1>3 DEF ValuesInv, InputsCovered, HasJoined, EdgesCovered, EdgeValue, Block, Type
<1>11. NodesCovered'
  BY <1>1, <1>3 DEF ValuesInv, NodesCovered, NodeCovered, Block, Type
<1>13. LoopsDescend'
  <2>1. ASSUME NEW x \in Exits(wpo), Innermost(x), kind[HeadOfExit(x)] = "decreasing",
               cur[w] \in Comp(x)
        PROVE  Leq(acc'[w].in, pre[n]) /\ Leq(acc'[w].back, pre[n])
    <3>1. p \in CfgPred(cfg, n)
      BY <1>1 DEF ValuesInv, ReadsCovered, Inputs
    <3>2. EdgesCovered(n)
      <4>1. CASE cur[w] # x
        BY <2>1, <4>1 DEF ValuesInv, LoopsDescend
      <4>2. CASE cur[w] = x
        <5>1. HeadOfExit(x) \in Comp(x) \ {x}
          BY <2>1, ExitFacts DEF TypeInv
        <5>2. Block(HeadOfExit(x)) = n
          BY <4>2, OrderWellFormed, ComponentFacts DEF TypeInv, Block
        <5> QED  BY <2>1, <5>1, <5>2 DEF ValuesInv, LoopsDescend
      <4> QED  BY <4>1, <4>2
    <3>3. Leq(EdgeValue(p, n), pre[n])
      BY <3>1, <3>2 DEF EdgesCovered
    <3>4. Leq(acc[w].in, pre[n]) /\ Leq(acc[w].back, pre[n])
      BY <1>1, <2>1 DEF ValuesInv, LoopsDescend
    <3>5. acc[w].in \in Value /\ acc[w].back \in Value /\ pre[n] \in Value
      BY <1>4, TableTypes
    <3> QED  BY <1>5, <3>3, <3>4, <3>5, JoinsLeast
  <2> QED  BY <1>1, <1>3, <1>6, <2>1 DEF ValuesInv, LoopsDescend, EdgesCovered, EdgeValue, NodeCovered, Block
<1> QED  BY <1>8, <1>9, <1>10, <1>11, <1>13 DEF ValuesInv

(* No step but the restart of a component makes a cell that has run due     *)
(* again.  The rest of the invariant only grows with what has run.          *)
LEMMA ResetValues ==
  ASSUME TypeInv, ValuesInv, NEW w \in Workers, Reset(w)
  PROVE  ValuesInv'
<1>1. /\ UNCHANGED <<prog, cfg, wpo, pre, post, kind, count, cur, unread, acc>>
      /\ pc[w] = "reset" /\ pc' = [pc EXCEPT ![w] = "loop"]
      /\ done' = done \cup {cur[w]}
  BY DEF Reset, input, data, task
<1>2. pc'[w] = "loop" /\ \A v \in Workers \ {w} : pc'[v] = pc[v]
  BY <1>1 DEF TypeInv, TypeOK
<1>3. /\ \A n : /\ EdgesCovered(n)' <=> EdgesCovered(n)
               /\ NodeCovered(n)' <=> NodeCovered(n)
      /\ \A n, p : EdgeValue(p, n)' = EdgeValue(p, n)
      /\ \A c : Type(c)' = Type(c) /\ Block(c)' = Block(c) /\ Comp(c)' = Comp(c)
               /\ Pred(c)' = Pred(c) /\ Inputs(c)' = Inputs(c)
      /\ \A x : Innermost(x)' <=> Innermost(x)
  BY <1>1 DEF EdgesCovered, NodeCovered, EdgeValue, Type, Block, Comp, Pred, Inputs, Outside, Innermost
<1>4. EntryCovered'
  BY <1>1, <1>2, <1>3 DEF ValuesInv, EntryCovered
<1>5. ReadsCovered'
  BY <1>1, <1>2, <1>3 DEF ValuesInv, ReadsCovered, Inputs, Outside
<1>6. InputsCovered'
  <2>1. \A v \in Workers : HasJoined(v)' => HasJoined(v)
    BY <1>1, <1>2, <1>3 DEF HasJoined
  <2>2. Type(cur[w]) # "head" => HasJoined(w)
    BY <1>1 DEF HasJoined
  <2> QED  BY <1>1, <1>3, <2>1, <2>2 DEF ValuesInv, InputsCovered, EdgesCovered, EdgeValue, Block, Type
<1>7. NodesCovered'
  BY <1>1, <1>2, <1>3 DEF ValuesInv, NodesCovered, NodeCovered
<1>9. LoopsDescend'
  BY <1>1, <1>2, <1>3 DEF ValuesInv, LoopsDescend, EdgesCovered, NodeCovered, EdgeValue
<1> QED  BY <1>4, <1>5, <1>6, <1>7, <1>9 DEF ValuesInv

(* The cell of a block that neither starts a loop nor ends one is the only  *)
(* one of its block in an innermost loop.                                   *)
LEMMA LoopBlocks ==
  ASSUME InputFixed, NEW x \in Exits(wpo), Innermost(x)
  PROVE  /\ HeadOfExit(x) \in Comp(x) \ {x} /\ Block(HeadOfExit(x)) = Block(x)
         /\ x \in Cell /\ Comp(x) \subseteq Cell /\ Type(HeadOfExit(x)) = "head" /\ Type(x) = "exit"
         /\ \A c \in Comp(x) \ {x} : /\ Type(c) # "exit"
                                   /\ Type(c) = "head" => c = HeadOfExit(x)
         /\ \A c \in Comp(x) \ {x} : \A d \in Cell :
              Type(d) # "exit" /\ Block(d) = Block(c) => d = c
<1>1. /\ HeadOfExit(x) \in Comp(x) \ {x} /\ x \in Comp(x) /\ Comp(x) \subseteq Cell
      /\ Type(HeadOfExit(x)) = "head" /\ Type(x) = "exit"
  BY ExitFacts
<1>2. Block(HeadOfExit(x)) = Block(x)
  BY OrderWellFormed, ComponentFacts DEF Block
<1>3. \A c \in Comp(x) \ {x} : Type(c) # "exit" /\ (Type(c) = "head" => c = HeadOfExit(x))
  BY <1>1 DEF Innermost
<1>4. \A c, d \in Cell : Type(c) # "exit" /\ Type(d) # "exit" /\ Block(c) = Block(d) => c = d
  BY OrderWellFormed, CellOfBlock DEF Cell, Type, Block
<1> QED  BY <1>1, <1>2, <1>3, <1>4

(* The entry block is no loop head.                                         *)
LEMMA EntryPlain ==
  ASSUME InputFixed, NEW c \in Cell, Block(c) = cfg.entry
  PROVE  Type(c) = "plain"
<1>1. GetEntry(wpo) \in Cell /\ Type(GetEntry(wpo)) = "plain" /\ Block(GetEntry(wpo)) = cfg.entry
  BY OrderWellFormed, CellFacts DEF Cell, Type, Block
<1>2. \/ c = GetEntry(wpo)
      \/ c \in Exits(wpo) /\ GetEntry(wpo) = HeadOfExit(c)
      \/ GetEntry(wpo) \in Exits(wpo) /\ c = HeadOfExit(GetEntry(wpo))
  BY <1>1, OrderWellFormed, SameBlock DEF Cell, Block
<1> QED  BY <1>1, <1>2, ExitFacts DEF Exits, Type

LEMMA SetPreValues ==
  ASSUME SchedulerInv, DecreasesLater, RefinedMonotone, ValuesInv,
         NEW w \in Workers, SetPre(w)
  PROVE  ValuesInv'
<1> DEFINE n == Block(cur[w])
<1>1. /\ UNCHANGED <<prog, cfg, wpo, post, kind, cur, unread, done>>
      /\ pc[w] = "read" /\ pc' = [pc EXCEPT ![w] = "analyze"]
      /\ unread[w] = {} /\ Type(cur[w]) # "exit"
      /\ pre' = [pre EXCEPT ![n] = acc[w].in]
      /\ count' = [count EXCEPT ![cur[w]] = IF Type(cur[w]) = "head" THEN 1 ELSE @]
      /\ acc' = [acc EXCEPT ![w] = NoValue]
  BY DEF SetPre, input, task
<1>t. TypeInv /\ InputFixed /\ TypeOK /\ n \in cfg.node /\ cur[w] \in Cell /\ acc[w].in \in Value
      /\ pre[n] \in Value /\ post[n] \in Value /\ done \subseteq Cell
  BY TableTypes, InvParts DEF TypeInv, TypeOK
<1>2. /\ pc'[w] = "analyze" /\ pre'[n] = acc[w].in
      /\ \A v \in Workers \ {w} : pc'[v] = pc[v] /\ acc'[v] = acc[v]
      /\ \A m \in cfg.node \ {n} : pre'[m] = pre[m]
      /\ Type(cur[w]) = "head" => count'[cur[w]] = 1
      /\ Type(cur[w]) # "head" => count' = count
      /\ \A c \in Cell \ {cur[w]} : count'[c] = count[c]
  BY <1>1, <1>t DEF TypeOK
<1>3. /\ \A m \in cfg.node \ {n} : /\ EdgesCovered(m)' <=> EdgesCovered(m)
                                /\ NodeCovered(m)' <=> NodeCovered(m)
      /\ \A m, p : EdgeValue(p, m)' = EdgeValue(p, m)
      /\ \A c : Type(c)' = Type(c) /\ Block(c)' = Block(c) /\ Comp(c)' = Comp(c)
               /\ Pred(c)' = Pred(c) /\ Inputs(c)' = Inputs(c)
      /\ \A x : Innermost(x)' <=> Innermost(x)
  BY <1>1, <1>2 DEF EdgesCovered, NodeCovered, EdgeValue, Type, Block, Comp, Pred, Inputs, Outside, Innermost
<1>4. \A v \in Workers \ {w} : pc[v] \in RulePcs => Block(cur[v]) # n /\ cur[v] # cur[w]
  BY <1>1, NoSharedBlock DEF RulePcs
<1>5. \A c \in done : Block(c) \in cfg.node \ {n}
  BY <1>1, WriterAlone, ExitFacts, TableTypes, <1>t DEF RulePcs
<1>6. \A c \in Cell : Block(c) \in cfg.node
  BY <1>t, TableTypes
<1>7. Type(cur[w]) = "plain" =>
        \A p \in CfgPred(cfg, n) : Leq(EdgeValue(p, n), acc[w].in)
  BY <1>1 DEF ValuesInv, ReadsCovered
<1>8. EntryCovered'
  <2>1. n = cfg.entry => Leq(InitValue, acc[w].in)
    BY <1>1, <1>t, EntryPlain DEF ValuesInv, EntryCovered
  <2>2. Leq(InitValue, pre'[cfg.entry])
    BY <1>2, <2>1, <1>t, TableTypes DEF ValuesInv, EntryCovered
  <2> QED  BY <1>1, <1>2, <1>3, <2>2 DEF ValuesInv, EntryCovered
<1>9. ReadsCovered'
  BY <1>1, <1>2, <1>3 DEF ValuesInv, ReadsCovered, EdgeValue, Inputs, Outside
<1>10. InputsCovered'
  <2>1. ASSUME NEW c \in done, Type(c) # "head" PROVE EdgesCovered(Block(c))'
    <3>1. EdgesCovered(Block(c)) /\ Block(c) \in cfg.node \ {n}
      BY <1>5, <2>1 DEF ValuesInv, InputsCovered
    <3> QED  BY <1>1, <1>3, <3>1 DEF EdgesCovered, EdgeValue, Block
  <2>2. ASSUME NEW v \in Workers, v # w, HasJoined(v)' PROVE EdgesCovered(Block(cur[v]))'
    <3>1. HasJoined(v) /\ Block(cur[v]) # n /\ Block(cur[v]) \in cfg.node
      BY <1>1, <1>2, <1>3, <1>4, <1>t, <2>2, TableTypes DEF HasJoined, RulePcs
    <3> QED  BY <1>1, <1>3, <3>1 DEF ValuesInv, InputsCovered, EdgesCovered, EdgeValue, Block
  <2>3. HasJoined(w)' => EdgesCovered(Block(cur[w]))'
    BY <1>1, <1>2, <1>3, <1>7 DEF HasJoined, EdgesCovered, EdgeValue, Block
  <2> QED  BY <1>1, <1>3, <2>1, <2>2, <2>3 DEF InputsCovered
<1>11. NodesCovered'
  <2>1. ASSUME NEW c \in done PROVE NodeCovered(Block(c))' <=> NodeCovered(Block(c))
    BY <1>1, <1>2, <1>5, <2>1 DEF NodeCovered, Block
  <2>2. \A v \in Workers : pc'[v] \in {"reset", "unstable"} \/ pc[v] \in {"reset", "unstable"} =>
          v # w /\ pc'[v] = pc[v]
    BY <1>1, <1>2
  <2>3. \A v \in Workers : pc[v] = "reset" => (NodeCovered(Block(cur[v]))' <=> NodeCovered(Block(cur[v])))
    BY <1>1, <1>2, <1>3, <1>4, <1>t, TableTypes DEF NodeCovered, Block, RulePcs
  <2> QED  BY <1>1, <1>3, <2>1, <2>2, <2>3 DEF ValuesInv, NodesCovered
<1>13. LoopsDescend'
  <2> SUFFICES ASSUME NEW x \in Exits(wpo), Innermost(x), kind[HeadOfExit(x)] = "decreasing"
      PROVE  /\ \A c \in Comp(x) : Pred(c) \ Comp(x) \subseteq done
             /\ \A c \in Comp(x) \ {x} : NodeCovered(Block(c))' /\ EdgesCovered(Block(c))'
             /\ \A v \in Workers : pc'[v] = "read" /\ cur[v] \in Comp(x) =>
                  Leq(acc'[v].in, pre'[Block(cur[v])]) /\ Leq(acc'[v].back, pre'[Block(cur[v])])
    BY <1>1, <1>3 DEF LoopsDescend, NodeCovered, EdgesCovered, EdgeValue, Block
  <2>1. /\ \A c \in Comp(x) : Pred(c) \ Comp(x) \subseteq done
        /\ \A c \in Comp(x) \ {x} : NodeCovered(Block(c)) /\ EdgesCovered(Block(c))
        /\ \A v \in Workers : pc[v] = "read" /\ cur[v] \in Comp(x) =>
             Leq(acc[v].in, pre[Block(cur[v])]) /\ Leq(acc[v].back, pre[Block(cur[v])])
    BY DEF ValuesInv, LoopsDescend
  <2>2. cur[w] # HeadOfExit(x)
    BY <1>1, <1>t, ExitFacts DEF DecreasesLater
  <2>3. ASSUME NEW c \in Comp(x) \ {x} PROVE NodeCovered(Block(c))' /\ EdgesCovered(Block(c))'
    <3>1. CASE Block(c) # n
      BY <1>3, <1>6, <1>t, <2>1, <3>1, LoopBlocks DEF NodeCovered, EdgesCovered, EdgeValue, Block
    <3>2. CASE Block(c) = n
      <4>1. c = cur[w] /\ Type(cur[w]) = "plain"
        BY <1>1, <1>t, <2>2, <3>2, LoopBlocks, TableTypes
      <4>2. Leq(acc[w].in, pre[n]) /\ NodeCovered(n)
        BY <1>1, <2>1, <4>1
      <4>3. Leq(AnalyzeNode(prog, n, acc[w].in), AnalyzeNode(prog, n, pre[n]))
        <5>1. NodeMonotone(n)
          BY <3>2 DEF RefinedMonotone, DecreasesLater
        <5> QED  BY <1>t, <4>2, <5>1 DEF NodeMonotone
      <4>4. Leq(AnalyzeNode(prog, n, acc[w].in), post[n])
        BY <1>t, <4>2, <4>3, LeqTrans, ValuesClosed DEF NodeCovered, InputFixed
      <4> QED  BY <1>1, <1>2, <1>3, <1>7, <3>2, <4>1, <4>4 DEF NodeCovered, EdgesCovered, EdgeValue, Block
    <3> QED  BY <3>1, <3>2
  <2>4. \A v \in Workers : pc'[v] = "read" /\ cur[v] \in Comp(x) =>
          Leq(acc'[v].in, pre'[Block(cur[v])]) /\ Leq(acc'[v].back, pre'[Block(cur[v])])
    BY <1>2, <1>4, <1>6, <1>t, <2>1, TableTypes DEF RulePcs
  <2> QED  BY <2>1, <2>3, <2>4
<1> QED  BY <1>8, <1>9, <1>10, <1>11, <1>13 DEF ValuesInv

(* What a cell of an innermost loop joins is written in the loop, or has    *)
(* been before it.                                                          *)
LEMMA LoopInputs ==
  ASSUME InputFixed, DoneClosed, done \subseteq Cell, NEW x \in Exits(wpo), Innermost(x),
         \A c \in Comp(x) : Pred(c) \ Comp(x) \subseteq done,
         NEW c \in Comp(x), NEW p \in CfgPred(cfg, Block(c))
  PROVE  CellOf(wpo, p) \in done \cup Comp(x)
<1>1. /\ x \in Comp(x) /\ Comp(x) \subseteq Cell /\ Type(x) = "exit"
      /\ Type(c) = "head" => Block(c) = Block(x)
  BY LoopBlocks, ExitFacts DEF Innermost
<1>2. PICK D \in SUBSET Cell : D = done \cup Comp(x)
  BY <1>1
<1>3. \A d \in D : wpo.pred[d] \subseteq D
  BY <1>2 DEF DoneClosed, Pred
<1>4. ASSUME NEW d \in Comp(x), Type(d) # "head", Block(d) = Block(c)
      PROVE  CellOf(wpo, p) \in D
  <2>1. d \in Cell /\ wpo.pred[d] \subseteq D /\ p \in CfgPred(cfg, wpo.node[d]) /\ wpo.type[d] # "head"
    BY <1>1, <1>2, <1>3, <1>4 DEF Block, Type
  <2> QED  BY <1>3, <2>1, OrderWellFormed, InputsBefore DEF Cell
<1>5. CASE Type(c) = "head"
  BY <1>1, <1>2, <1>4, <1>5
<1>6. CASE Type(c) # "head"
  BY <1>2, <1>4, <1>6
<1> QED  BY <1>5, <1>6

LEMMA AnalyzeValues ==
  ASSUME SchedulerInv, ValuesInv, NEW w \in Workers, Analyze(w)
  PROVE  ValuesInv'
<1> DEFINE n == Block(cur[w])
<1>1. /\ UNCHANGED <<prog, cfg, wpo, pre, kind, count, cur, unread, acc, done>>
      /\ pc[w] = "analyze" /\ pc' = [pc EXCEPT ![w] = "reset"]
      /\ post' = [post EXCEPT ![n] = AnalyzeNode(prog, n, pre[n])]
  BY DEF Analyze, input, task
<1>t. /\ TypeInv /\ InputFixed /\ TypeOK /\ DoneClosed /\ n \in cfg.node /\ cur[w] \in Cell
      /\ pre[n] \in Value /\ post[n] \in Value /\ AnalyzeNode(prog, n, pre[n]) \in Value
      /\ done \subseteq Cell /\ Type(cur[w]) # "exit" /\ cur[w] \notin done
  BY <1>1, TableTypes, InvParts, RunsReady DEF TypeInv, TypeOK, LocalsOK, LocalOK, SchedulerInv, RulePcs
<1>2. /\ pc'[w] = "reset" /\ post'[n] = AnalyzeNode(prog, n, pre[n])
      /\ \A v \in Workers \ {w} : pc'[v] = pc[v]
      /\ \A m \in cfg.node \ {n} : post'[m] = post[m]
  BY <1>1, <1>t DEF TypeOK
<1>3. /\ \A m \in cfg.node \ {n} : /\ NodeCovered(m)' <=> NodeCovered(m)
                                /\ \A k : EdgeValue(m, k)' = EdgeValue(m, k)
      /\ \A c : Type(c)' = Type(c) /\ Block(c)' = Block(c) /\ Comp(c)' = Comp(c)
               /\ Pred(c)' = Pred(c) /\ Inputs(c)' = Inputs(c)
      /\ \A x : Innermost(x)' <=> Innermost(x)
  BY <1>1, <1>2 DEF NodeCovered, EdgeValue, Type, Block, Comp, Pred, Inputs, Outside, Innermost
<1>4. \A v \in Workers \ {w} : pc[v] \in RulePcs => Block(cur[v]) \in cfg.node \ {n}
  BY <1>1, NoSharedBlock, TableTypes, <1>t DEF RulePcs
<1>5. \A c \in done : Block(c) \in cfg.node \ {n}
  BY <1>1, WriterAlone, ExitFacts, TableTypes, <1>t DEF RulePcs
<1>6. \A c \in Cell : Type(c) # "head" /\ Pred(c) \subseteq done =>
        \A p \in CfgPred(cfg, Block(c)) : p # n /\ p \in cfg.node /\ EdgeValue(p, Block(c))' = EdgeValue(p, Block(c))
  BY <1>1, <1>3, InputsWritten, TableTypes, <1>t
<1>7. \A v \in Workers : pc[v] \in RulePcs => cur[v] \in Cell /\ Pred(cur[v]) \subseteq done
  BY RunsReady
<1>8. EntryCovered'
  BY <1>1, <1>2, <1>3 DEF ValuesInv, EntryCovered
<1>9. ReadsCovered'
  <2>1. ASSUME NEW v \in Workers, pc'[v] = "read", Type(cur[v]) \in {"plain", "exit"},
               NEW p \in CfgPred(cfg, Block(cur[v]))
        PROVE  EdgeValue(p, Block(cur[v]))' = EdgeValue(p, Block(cur[v]))
    BY <1>1, <1>2, <1>6, <1>7, <2>1 DEF RulePcs
  <2> QED  BY <1>1, <1>2, <1>3, <2>1 DEF ValuesInv, ReadsCovered, EdgeValue, Block, Inputs, Outside
<1>10. InputsCovered'
  <2>1. ASSUME NEW c \in Cell, Type(c) # "head", Pred(c) \subseteq done, EdgesCovered(Block(c))
        PROVE  EdgesCovered(Block(c))'
    BY <1>1, <1>6, <2>1 DEF EdgesCovered, EdgeValue, Block
  <2>2. \A v \in Workers : HasJoined(v)' => HasJoined(v) /\ Type(cur[v]) # "head" /\ pc[v] \in RulePcs
    BY <1>1, <1>2, <1>3, <1>t, TableTypes DEF HasJoined, RulePcs
  <2>3. \A c \in done : c \in Cell /\ Pred(c) \subseteq done
    BY <1>t DEF DoneClosed
  <2>4. ASSUME NEW c \in done, Type(c) # "head" PROVE EdgesCovered(Block(c))'
    BY <2>1, <2>3, <2>4 DEF ValuesInv, InputsCovered
  <2>5. ASSUME NEW v \in Workers, HasJoined(v)' PROVE EdgesCovered(Block(cur[v]))'
    <3>1. PICK c \in Cell : c = cur[v] /\ Type(c) # "head" /\ Pred(c) \subseteq done /\ EdgesCovered(Block(c))
      BY <1>7, <2>2, <2>5 DEF ValuesInv, InputsCovered
    <3>2. EdgesCovered(Block(c))'
      BY <2>1, <3>1
    <3> QED  BY <1>1, <3>1, <3>2 DEF EdgesCovered, EdgeValue, Block
  <2> QED  BY <1>1, <1>3, <2>4, <2>5 DEF InputsCovered
<1>11. NodesCovered'
  <2>1. ASSUME NEW c \in done PROVE NodeCovered(Block(c))' <=> NodeCovered(Block(c))
    BY <1>1, <1>2, <1>5, <2>1 DEF NodeCovered, Block
  <2>2. NodeCovered(n)'
    BY <1>1, <1>2, <1>t, LeqRefl DEF NodeCovered, Block
  <2>3. \A v \in Workers \ {w} : pc[v] = "reset" => (NodeCovered(Block(cur[v]))' <=> NodeCovered(Block(cur[v])))
    BY <1>1, <1>2, <1>4 DEF NodeCovered, Block, RulePcs
  <2>4. \A v \in Workers : pc'[v] = "unstable" \/ pc[v] = "unstable" => v # w /\ pc'[v] = pc[v]
    BY <1>1, <1>2
  <2> QED  BY <1>1, <1>2, <1>3, <2>1, <2>2, <2>3, <2>4 DEF ValuesInv, NodesCovered
<1>13. LoopsDescend'
  <2> SUFFICES ASSUME NEW x \in Exits(wpo), Innermost(x), kind[HeadOfExit(x)] = "decreasing"
      PROVE  /\ \A c \in Comp(x) : Pred(c) \ Comp(x) \subseteq done
             /\ \A c \in Comp(x) \ {x} : NodeCovered(Block(c))' /\ EdgesCovered(Block(c))'
             /\ \A v \in Workers : pc'[v] = "read" /\ cur[v] \in Comp(x) =>
                  Leq(acc[v].in, pre[Block(cur[v])]) /\ Leq(acc[v].back, pre[Block(cur[v])])
    BY <1>1, <1>3 DEF LoopsDescend, NodeCovered, EdgesCovered, EdgeValue, Block
  <2>1. /\ \A c \in Comp(x) : Pred(c) \ Comp(x) \subseteq done
        /\ \A c \in Comp(x) \ {x} : NodeCovered(Block(c)) /\ EdgesCovered(Block(c))
        /\ \A v \in Workers : pc'[v] = "read" /\ cur[v] \in Comp(x) =>
             Leq(acc[v].in, pre[Block(cur[v])]) /\ Leq(acc[v].back, pre[Block(cur[v])])
    BY <1>1, <1>2 DEF ValuesInv, LoopsDescend
  <2>2. ASSUME NEW c \in Comp(x) \ {x} PROVE NodeCovered(Block(c))'
    <3>1. Block(c) \in cfg.node
      BY <1>t, LoopBlocks, TableTypes
    <3>2. CASE Block(c) # n
      BY <1>1, <1>2, <2>1, <3>1, <3>2 DEF NodeCovered, Block
    <3>3. CASE Block(c) = n
      BY <1>1, <1>2, <1>t, <3>3, LeqRefl DEF NodeCovered, Block
    <3> QED  BY <3>2, <3>3
  <2>3. ASSUME NEW c \in Comp(x) \ {x}, NEW p \in CfgPred(cfg, Block(c))
        PROVE  Leq(AnalyzeEdge(prog, p, Block(c), post'[p]), pre[Block(c)])
    <3>1. Leq(EdgeValue(p, Block(c)), pre[Block(c)]) /\ p \in cfg.node /\ Block(c) \in cfg.node
      BY <2>1, <1>t, LoopBlocks, TableTypes DEF EdgesCovered
    <3>2. CASE p # n
      BY <1>2, <3>1, <3>2 DEF EdgeValue
    <3>3. CASE p = n
      <4>1. CellOf(wpo, n) \in done \cup Comp(x)
        BY <1>t, <2>1, <3>3, LoopInputs
      <4>2. CellOf(wpo, n) = cur[w]
        BY <1>t, OrderWellFormed, CellOfBlock DEF Cell, Block, Type
      <4>3. cur[w] \in Comp(x) \ {x}
        BY <1>t, <4>1, <4>2, LoopBlocks
      <4>4. Leq(post'[n], post[n])
        BY <1>2, <2>1, <4>3 DEF NodeCovered
      <4>5. Leq(AnalyzeEdge(prog, n, Block(c), post'[n]), AnalyzeEdge(prog, n, Block(c), post[n]))
        BY <1>2, <1>t, <3>1, <4>4, EdgesMonotone DEF InputFixed
      <4>6. /\ AnalyzeEdge(prog, n, Block(c), post'[n]) \in Value
            /\ AnalyzeEdge(prog, n, Block(c), post[n]) \in Value
            /\ pre[Block(c)] \in Value
        BY <1>2, <1>t, <3>1, ValuesClosed, TableTypes DEF InputFixed
      <4> QED  BY <3>1, <3>3, <4>5, <4>6, LeqTrans DEF EdgeValue
    <3> QED  BY <3>2, <3>3
  <2>4. ASSUME NEW c \in Comp(x) \ {x} PROVE EdgesCovered(Block(c))'
    BY <1>1, <2>3 DEF EdgesCovered, EdgeValue, Block
  <2> QED  BY <2>1, <2>2, <2>4
<1> QED  BY <1>8, <1>9, <1>10, <1>11, <1>13 DEF ValuesInv

(* No other loop that is repeated holds what has run before a loop that     *)
(* decreases: it would hold the whole of it, which would have been left.    *)
LEMMA OuterStays ==
  ASSUME SchedulerInv, NEW x \in Exits(wpo), NEW y \in Exits(wpo), x # y,
         Innermost(x), kind[HeadOfExit(x)] = "decreasing", Active(y),
         NEW c \in Comp(x), NEW e \in (Pred(c) \ Comp(x)) \cap done
  PROVE  e \notin Comp(y)
<1> SUFFICES ASSUME e \in Comp(y) PROVE FALSE
  OBVIOUS
<1>1. InputFixed /\ LoopsFresh /\ ActiveReady
  BY DEF SchedulerInv
<1>2. /\ Comp(x) \subseteq Cell /\ Comp(y) \subseteq Cell /\ x \in Cell /\ y \in Cell
      /\ \A d \in Comp(x) \ {x} : \A s \in Cell : d \in Pred(s) => s \in Comp(x)
      /\ \A d \in Comp(y) \ {y} : \A s \in Cell : d \in Pred(s) => s \in Comp(y)
      /\ Type(y) = "exit"
  BY <1>1, ExitFacts
<1>3. Comp(y) \ {y} \subseteq done /\ y \notin done
  BY <1>1, <1>2, ExitAlone DEF ActiveReady
<1>4. y \notin Comp(x)
  BY <1>1, <1>2, ExitFacts DEF Innermost
<1>5. c \in Comp(y)
  BY <1>2, <1>3
<1>6. x \notin Comp(y)
  BY <1>1, <1>3 DEF LoopsFresh
<1>7. PICK S \in SUBSET Cell : S = Cell \ (Comp(x) \cap Comp(y))
  OBVIOUS
<1>8. ASSUME NEW s \in S, NEW d \in Pred(s) PROVE d \in S
  <2>1. d \in Cell
    BY <1>1, <1>8, PredFacts
  <2>2. d \in Comp(x) /\ d \in Comp(y) => s \in Comp(x) /\ s \in Comp(y)
    BY <1>2, <1>4, <1>6, <1>7, <1>8
  <2> QED  BY <1>7, <2>1, <2>2
<1>9. x \in S
  BY <1>2, <1>6, <1>7
<1>10. Comp(x) \ {x} \subseteq S
  BY <1>1, <1>8, <1>9, OrderWellFormed, ComponentBeforeExit DEF Pred, Comp, Cell
<1> QED  BY <1>5, <1>6, <1>7, <1>10

LEMMA ResetComponentValues ==
  ASSUME SchedulerInv, ValuesInv, NEW w \in Workers, ResetComponent(w)
  PROVE  ValuesInv'
<1> DEFINE x == cur[w]
<1>1. /\ UNCHANGED <<prog, cfg, wpo, pre, post, kind, count, unread, acc>>
      /\ pc[w] = "unstable" /\ pc' = [pc EXCEPT ![w] = "restore"]
      /\ done' = done \ Comp(x) /\ cur' = [cur EXCEPT ![w] = HeadOfExit(x)]
  BY DEF ResetComponent, input, data
<1>t. TypeInv /\ InputFixed /\ TypeOK /\ x \in Exits(wpo) /\ Active(x) /\ done \subseteq Cell
  BY <1>1, RunsReady, InvParts DEF TypeInv, TypeOK, LocalsOK, LocalOK, RulePcs, Exits, Cell, Type
<1>2. /\ pc'[w] = "restore"
      /\ \A v \in Workers \ {w} : pc'[v] = pc[v] /\ cur'[v] = cur[v]
  BY <1>1, <1>t DEF TypeOK
<1>3. /\ \A n : /\ EdgesCovered(n)' <=> EdgesCovered(n)
               /\ NodeCovered(n)' <=> NodeCovered(n)
      /\ \A n, p : EdgeValue(p, n)' = EdgeValue(p, n)
      /\ \A c : Type(c)' = Type(c) /\ Block(c)' = Block(c) /\ Comp(c)' = Comp(c)
               /\ Pred(c)' = Pred(c) /\ Inputs(c)' = Inputs(c)
      /\ \A y : Innermost(y)' <=> Innermost(y)
  BY <1>1 DEF EdgesCovered, NodeCovered, EdgeValue, Type, Block, Comp, Pred, Inputs, Outside, Innermost
<1>4. EntryCovered'
  BY <1>1, <1>2, <1>3 DEF ValuesInv, EntryCovered
<1>5. ReadsCovered'
  BY <1>1, <1>2, <1>3 DEF ValuesInv, ReadsCovered, Inputs, Outside
<1>6. InputsCovered'
  <2>1. \A v \in Workers : HasJoined(v)' => HasJoined(v) /\ cur'[v] = cur[v]
    BY <1>1, <1>2, <1>3 DEF HasJoined
  <2> QED  BY <1>1, <1>3, <2>1 DEF ValuesInv, InputsCovered, EdgesCovered, EdgeValue, Block, Type
<1>7. NodesCovered'
  <2>1. ASSUME NEW c \in done, c \notin Comp(x), Type(c) # "exit",
               \A v \in Workers : ~ (pc'[v] = "unstable" /\ Block(cur'[v]) = Block(c))
        PROVE  NodeCovered(Block(c))
    <3>1. Block(x) # Block(c)
      BY <1>1, <1>t, <2>1, WriterAlone, ExitFacts DEF RulePcs
    <3> QED  BY <1>2, <2>1, <3>1 DEF ValuesInv, NodesCovered
  <2>2. \A v \in Workers : pc'[v] = "reset" => pc[v] = "reset" /\ cur'[v] = cur[v]
    BY <1>2
  <2> QED  BY <1>1, <1>3, <2>1, <2>2 DEF ValuesInv, NodesCovered, NodeCovered, Block, Type
<1>9. LoopsDescend'
  <2>1. ASSUME NEW y \in Exits(wpo), Innermost(y), kind[HeadOfExit(y)] = "decreasing",
               NEW c \in Comp(y)
        PROVE  Pred(c) \ Comp(y) \subseteq done \ Comp(x)
    <3>1. Pred(c) \ Comp(y) \subseteq done
      BY <2>1 DEF ValuesInv, LoopsDescend
    <3> QED  BY <1>t, <2>1, <3>1, OuterStays
  <2> QED  BY <1>1, <1>2, <1>3, <2>1 DEF ValuesInv, LoopsDescend, EdgesCovered, NodeCovered, EdgeValue
<1> QED  BY <1>4, <1>5, <1>6, <1>7, <1>9 DEF ValuesInv

------------------------------------------------------------------------------
(* The check of an exit.                                                    *)

(* What has been joined covers every edge into the head, and is below its   *)
(* invariant whenever that is refined.                                      *)
LEMMA Rechecked ==
  ASSUME SchedulerInv, ValuesInv, OuterRefinementsDescend, NEW w \in Workers,
         pc[w] = "read", unread[w] = {}, cur[w] \in Exits(wpo)
  PROVE  LET n == Block(cur[w])  new == JoinLoop(acc[w].in, acc[w].back)
         IN  /\ new \in Value
             /\ \A p \in CfgPred(cfg, n) : Leq(EdgeValue(p, n), new)
             /\ kind[HeadOfExit(cur[w])] = "decreasing" => Leq(new, pre[n])
<1> DEFINE n == Block(cur[w])
           new == JoinLoop(acc[w].in, acc[w].back)
<1>1. /\ acc[w].in \in Value /\ acc[w].back \in Value /\ n \in cfg.node /\ pre[n] \in Value
      /\ \A p \in CfgPred(cfg, n) : EdgeValue(p, n) \in Value
      /\ InputFixed
  BY InvParts, TableTypes DEF TypeInv
<1>2. new \in Value /\ \A a \in Value : Leq(a, acc[w].in) \/ Leq(a, acc[w].back) => Leq(a, new)
  BY <1>1, JoinLoopCovers
<1>3. Type(cur[w]) = "exit" /\ cur[w] \in Comp(cur[w])
  BY <1>1, ExitFacts
<1>4. \A p \in CfgPred(cfg, n) : Leq(EdgeValue(p, n), new)
  BY <1>1, <1>2, <1>3 DEF ValuesInv, ReadsCovered
<1>5. ASSUME kind[HeadOfExit(cur[w])] = "decreasing" PROVE Leq(new, pre[n])
  <2>1. CASE Innermost(cur[w])
    <3>1. Leq(acc[w].in, pre[n]) /\ Leq(acc[w].back, pre[n])
      BY <1>3, <1>5, <2>1 DEF ValuesInv, LoopsDescend
    <3> QED  BY <1>1, <3>1, JoinsLeast
  <2>2. CASE ~ Innermost(cur[w])
    BY <1>5, <2>2 DEF OuterRefinementsDescend, Refines, Descends
  <2> QED  BY <2>1, <2>2
<1> QED  BY <1>2, <1>4, <1>5

(* The three outcomes of the check, for the invariant of the head.          *)
LEMMA CheckOutcome ==
  ASSUME SchedulerInv, DecreasesLater, ValuesInv, OuterRefinementsDescend,
         NEW w \in Workers, Check(w)
  PROVE  LET x == cur[w]  h == HeadOfExit(x)  n == Block(x)
             new == JoinLoop(acc[w].in, acc[w].back)
         IN  /\ pre' = [pre EXCEPT ![n] = pre'[n]]
             /\ kind' = [kind EXCEPT ![h] = kind'[h]] /\ count' = [count EXCEPT ![h] = count'[h]]
             /\ pc'[w] \in {"reset", "unstable"}
             /\ pc'[w] = "reset" \/ kind'[h] = "decreasing" =>
                  /\ pre'[n] = Narrow(pre[n], new)
                  /\ Leq(new, pre[n])
             /\ kind'[h] = "decreasing" => count'[h] # 0 /\ HasNarrowing(prog)
<1> DEFINE x == cur[w]
           h == HeadOfExit(x)
           n == Block(x)
           new == JoinLoop(acc[w].in, acc[w].back)
           widening == kind[h] = "increasing" /\ ~ Leq(new, pre[n])
           refined == Narrow(pre[n], new)
           stable == ~ widening /\ DecreasingFixpoint(pre[n], refined)
<1>1. /\ pc[w] = "read" /\ unread[w] = {} /\ Type(x) = "exit"
      /\ pc' = [pc EXCEPT ![w] = IF stable THEN "reset" ELSE "unstable"]
  BY DEF Check
<1>2. InputFixed /\ TypeOK /\ x \in Exits(wpo) /\ n \in cfg.node /\ h \in Cell
  BY <1>1, InvParts, TableTypes, ExitFacts DEF TypeInv, Exits, Cell, Type
<1>3. ~ widening => Leq(new, pre[n])
  BY <1>1, <1>2, Rechecked DEF TypeOK
<1>4. kind[h] = "decreasing" => count[h] # 0 /\ HasNarrowing(prog)
  BY <1>2 DEF DecreasesLater
<1>5. CASE widening
  <2>1. /\ pre' = [pre EXCEPT ![n] = Extrapolate(n, count[h], @, new)]
        /\ count' = [count EXCEPT ![h] = NextIteration(@)]
        /\ kind' = kind
        /\ pc' = [pc EXCEPT ![w] = "unstable"]
    BY <1>1, <1>5 DEF Check
  <2>2. kind'[h] = "increasing"
    BY <1>5, <2>1
  <2> HIDE DEF new
  <2> QED  BY <1>2, <2>1, <2>2 DEF TypeOK
<1>6. CASE ~ widening /\ ~ stable
  <2>1. /\ pre' = [pre EXCEPT ![n] = refined]
        /\ kind' = [kind EXCEPT ![h] = "decreasing"]
        /\ count' = [count EXCEPT ![h] = NextIteration(IF kind[h] = "increasing" THEN 1 ELSE count[h])]
        /\ pc' = [pc EXCEPT ![w] = "unstable"]
    BY <1>1, <1>6 DEF Check
  <2>2. HasNarrowing(prog)
    BY <1>6 DEF DecreasingFixpoint
  <2>3. \A i \in 0..LaterIteration : i # 0 => NextIteration(i) # 0
    BY DEF NextIteration, LaterIteration
  <2>4. /\ kind[h] \in {"increasing", "decreasing"} /\ count[h] \in 0..LaterIteration
        /\ 1 \in 0..LaterIteration
    BY <1>2 DEF TypeOK, LaterIteration
  <2>5. count'[h] # 0
    BY <1>2, <1>4, <2>1, <2>3, <2>4 DEF TypeOK
  <2>6. pre'[n] = refined /\ pc'[w] = "unstable" /\ kind'[h] = "decreasing"
    BY <1>2, <2>1 DEF TypeOK
  <2> QED  BY <1>2, <1>3, <1>6, <2>1, <2>2, <2>5, <2>6 DEF TypeOK
<1>7. CASE stable
  <2>1. /\ pre' = [pre EXCEPT ![n] = refined]
        /\ kind' = [kind EXCEPT ![h] = "increasing"]
        /\ count' = [count EXCEPT ![h] = 0]
        /\ pc' = [pc EXCEPT ![w] = "reset"]
    BY <1>1, <1>7 DEF Check, LeaveLoop
  <2>2. pre'[n] = refined /\ pc'[w] = "reset" /\ kind'[h] = "increasing"
    BY <1>2, <2>1 DEF TypeOK
  <2> QED  BY <1>2, <1>3, <1>7, <2>1, <2>2 DEF TypeOK
<1> QED  BY <1>5, <1>6, <1>7

LEMMA CheckValues ==
  ASSUME SchedulerInv, DecreasesLater, RefinedMonotone, ValuesInv, OuterRefinementsDescend,
         NEW w \in Workers, Check(w)
  PROVE  ValuesInv'
<1> DEFINE x == cur[w]
           h == HeadOfExit(x)
           n == Block(x)
           new == JoinLoop(acc[w].in, acc[w].back)
<1>1. /\ UNCHANGED <<prog, cfg, wpo, post, cur, unread, done>>
      /\ pc[w] = "read" /\ unread[w] = {} /\ Type(x) = "exit"
      /\ acc' = [acc EXCEPT ![w] = NoValue]
      /\ \A v \in Workers \ {w} : pc'[v] = pc[v]
  BY InvParts DEF Check, input, task, TypeInv, TypeOK
<1>t. /\ TypeInv /\ InputFixed /\ TypeOK /\ DoneClosed /\ n \in cfg.node /\ x \in Cell
      /\ pre[n] \in Value /\ post[n] \in Value /\ done \subseteq Cell
      /\ x \in Exits(wpo) /\ Active(x) /\ x \notin done
  BY <1>1, TableTypes, InvParts, RunsReady DEF TypeInv, TypeOK, SchedulerInv, RulePcs, Exits, Cell, Type
<1>h. /\ h \in Comp(x) /\ h # x /\ h \in Cell /\ Type(h) = "head" /\ Block(h) = n /\ Comp(x) \subseteq Cell
      /\ \A y \in Exits(wpo) : HeadOfExit(y) = h => y = x
  BY <1>t, ExitFacts, HeadsDiffer, OrderWellFormed, ComponentFacts DEF Block
<1>2. /\ pre' = [pre EXCEPT ![n] = pre'[n]]
      /\ kind' = [kind EXCEPT ![h] = kind'[h]] /\ count' = [count EXCEPT ![h] = count'[h]]
      /\ pc'[w] \in {"reset", "unstable"}
      /\ pc'[w] = "reset" \/ kind'[h] = "decreasing" => pre'[n] = Narrow(pre[n], new) /\ Leq(new, pre[n])
  BY CheckOutcome
<1>3. /\ new \in Value
      /\ \A p \in CfgPred(cfg, n) : Leq(EdgeValue(p, n), new) /\ EdgeValue(p, n) \in Value
  BY <1>1, <1>t, Rechecked, TableTypes
<1> HIDE DEF new
<1>4. /\ \A m \in cfg.node \ {n} : pre'[m] = pre[m]
      /\ \A c \in Cell \ {h} : kind'[c] = kind[c]
      /\ \A v \in Workers \ {w} : acc'[v] = acc[v]
  BY <1>1, <1>2, <1>t DEF TypeOK
<1>5. /\ \A m \in cfg.node \ {n} : /\ EdgesCovered(m)' <=> EdgesCovered(m)
                                /\ NodeCovered(m)' <=> NodeCovered(m)
      /\ \A m, p : EdgeValue(p, m)' = EdgeValue(p, m)
      /\ \A c : Type(c)' = Type(c) /\ Block(c)' = Block(c) /\ Comp(c)' = Comp(c)
               /\ Pred(c)' = Pred(c) /\ Inputs(c)' = Inputs(c)
      /\ \A y : Innermost(y)' <=> Innermost(y)
  BY <1>1, <1>4 DEF EdgesCovered, NodeCovered, EdgeValue, Type, Block, Comp, Pred, Inputs, Outside, Innermost
<1>6. \A v \in Workers \ {w} : pc[v] \in RulePcs => Block(cur[v]) \in cfg.node \ {n}
  BY <1>1, <1>t, NoSharedBlock, TableTypes DEF RulePcs
<1>7. \A c \in done : Block(c) = n => c = h
  BY <1>1, WriterAlone DEF RulePcs
<1>8. Comp(x) \ {x} \subseteq done
  BY <1>t, ExitAlone
<1>9. ASSUME NEW c \in done, Type(c) # "exit",
             c # h => Type(c) = "plain"
      PROVE  NodeCovered(Block(c))
  <2>1. ASSUME NEW v \in Workers, pc[v] = "unstable", Block(cur[v]) = Block(c) PROVE FALSE
    <3>1. cur[v] \in Exits(wpo) /\ c = HeadOfExit(cur[v])
      BY <2>1, WriterAlone DEF RulePcs
    <3>2. c = h /\ cur[v] = x
      BY <1>9, <1>h, <1>t, <3>1, ExitFacts
    <3>3. v # w
      BY <1>1, <2>1
    <3> QED  BY <1>6, <2>1, <3>2, <3>3 DEF RulePcs
  <2> QED  BY <1>9, <2>1 DEF ValuesInv, NodesCovered
<1>10. pc'[w] = "reset" \/ kind'[h] = "decreasing" =>
         /\ NodeCovered(n)'
         /\ EdgesCovered(n)'
  <2> SUFFICES ASSUME pre'[n] = Narrow(pre[n], new), Leq(new, pre[n])
      PROVE  NodeCovered(n)' /\ EdgesCovered(n)'
    BY <1>2
  <2>1. pre'[n] \in Value /\ Leq(new, pre'[n]) /\ Leq(pre'[n], pre[n])
    BY <1>t, <1>3, NarrowBetween
  <2>2. NodeCovered(n)
    BY <1>8, <1>9, <1>h
  <2>3. Leq(AnalyzeNode(prog, n, pre'[n]), AnalyzeNode(prog, n, pre[n]))
    BY <1>t, <1>h, <2>1 DEF RefinedMonotone, NodeMonotone
  <2>4. AnalyzeNode(prog, n, pre'[n]) \in Value /\ AnalyzeNode(prog, n, pre[n]) \in Value
    BY <1>t, <2>1, ValuesClosed DEF InputFixed
  <2>5. Leq(AnalyzeNode(prog, n, pre'[n]), post[n])
    BY <1>t, <2>2, <2>3, <2>4, LeqTrans DEF NodeCovered
  <2>6. \A p \in CfgPred(cfg, n) : Leq(EdgeValue(p, n), pre'[n])
    BY <1>3, <2>1, LeqTrans
  <2> QED  BY <1>1, <2>5, <2>6 DEF NodeCovered, EdgesCovered, EdgeValue, Block
<1>11. EntryCovered'
  <2>1. cfg.entry \in cfg.node \ {n}
    BY <1>t, <1>1, EntryPlain, TableTypes
  <2> QED  BY <1>1, <1>2, <1>4, <1>5, <2>1 DEF ValuesInv, EntryCovered
<1>12. ReadsCovered'
  BY <1>1, <1>2, <1>4, <1>5 DEF ValuesInv, ReadsCovered, EdgeValue, Inputs, Outside
<1>13. InputsCovered'
  <2>1. ASSUME NEW c \in done, Type(c) # "head" PROVE EdgesCovered(Block(c))'
    <3>1. EdgesCovered(Block(c)) /\ Block(c) \in cfg.node \ {n}
      BY <1>7, <1>h, <1>t, <2>1, TableTypes DEF ValuesInv, InputsCovered
    <3> QED  BY <1>1, <1>4, <1>5, <3>1 DEF EdgesCovered, EdgeValue, Block
  <2>2. ASSUME NEW v \in Workers, v # w, HasJoined(v)' PROVE EdgesCovered(Block(cur[v]))'
    <3>1. HasJoined(v) /\ Block(cur[v]) \in cfg.node \ {n}
      BY <1>1, <1>5, <1>6, <2>2 DEF HasJoined, RulePcs
    <3>2. EdgesCovered(Block(cur[v]))
      BY <3>1 DEF ValuesInv, InputsCovered
    <3> QED  BY <1>1, <1>4, <1>5, <3>1, <3>2 DEF EdgesCovered, EdgeValue, Block
  <2>3. HasJoined(w)' => EdgesCovered(Block(cur[w]))'
    BY <1>1, <1>2, <1>10 DEF HasJoined, EdgesCovered, EdgeValue, Block
  <2> QED  BY <1>1, <1>5, <2>1, <2>2, <2>3 DEF InputsCovered
<1>14. NodesCovered'
  <2>1. ASSUME NEW c \in done, Block(c) # n PROVE NodeCovered(Block(c))' <=> NodeCovered(Block(c))
    <3>1. Block(c) \in cfg.node \ {n}
      BY <1>t, <2>1, TableTypes
    <3> QED  BY <1>1, <1>4, <3>1 DEF NodeCovered, Block
  <2>2. ASSUME NEW c \in done, Block(c) = n, pc'[w] = "reset" PROVE NodeCovered(Block(c))'
    BY <1>1, <1>10, <2>2 DEF NodeCovered, Block
  <2>3. \A v \in Workers \ {w} : pc[v] = "reset" => (NodeCovered(Block(cur[v]))' <=> NodeCovered(Block(cur[v])))
    BY <1>1, <1>4, <1>6 DEF NodeCovered, Block, RulePcs
  <2>4. ASSUME NEW c \in done, Type(c) # "exit", ~ NodeCovered(Block(c))'
        PROVE  \E v \in Workers : pc'[v] = "unstable" /\ Block(cur[v]) = Block(c)
    <3>1. CASE Block(c) = n
      BY <1>2, <2>2, <2>4, <3>1
    <3>2. CASE Block(c) # n
      <4>1. PICK v \in Workers : pc[v] = "unstable" /\ Block(cur[v]) = Block(c)
        BY <2>1, <2>4, <3>2 DEF ValuesInv, NodesCovered
      <4> QED  BY <1>1, <4>1
    <3> QED  BY <3>1, <3>2
  <2> QED  BY <1>1, <1>2, <1>5, <2>3, <2>4 DEF ValuesInv, NodesCovered, Block, Type
<1>15. LoopsDescend'
  <2> SUFFICES ASSUME NEW y \in Exits(wpo), Innermost(y), kind'[HeadOfExit(y)] = "decreasing"
      PROVE  /\ \A c \in Comp(y) : Pred(c) \ Comp(y) \subseteq done
             /\ \A c \in Comp(y) \ {y} : NodeCovered(Block(c))' /\ EdgesCovered(Block(c))'
             /\ \A v \in Workers : pc'[v] = "read" /\ cur[v] \in Comp(y) =>
                  Leq(acc'[v].in, pre'[Block(cur[v])]) /\ Leq(acc'[v].back, pre'[Block(cur[v])])
    BY <1>1, <1>5 DEF LoopsDescend, NodeCovered, EdgesCovered, EdgeValue, Block
  <2>1. CASE y = x
    <3>1. \A c \in Comp(x) : Pred(c) \subseteq done
      BY <1>t, <1>8, ExitAlone DEF DoneClosed
    <3>2. ASSUME NEW c \in Comp(x) \ {x} PROVE NodeCovered(Block(c))' /\ EdgesCovered(Block(c))'
      <4>1. CASE c = h
        BY <1>1, <1>10, <1>h, <2>1, <4>1 DEF NodeCovered, EdgesCovered, EdgeValue, Block
      <4>2. CASE c # h
        <5>1. c \in done /\ Type(c) = "plain" /\ Block(c) \in cfg.node \ {n}
          BY <1>7, <1>8, <1>t, <2>1, <4>2, TableTypes DEF Innermost
        <5>2. NodeCovered(Block(c)) /\ EdgesCovered(Block(c))
          BY <1>9, <5>1 DEF ValuesInv, InputsCovered
        <5> QED  BY <1>1, <1>5, <5>1, <5>2 DEF NodeCovered, EdgesCovered, EdgeValue, Block
      <4> QED  BY <4>1, <4>2
    <3>3. \A v \in Workers : pc'[v] = "read" => cur[v] \notin Comp(x)
      BY <1>1, <1>2, <1>6, <1>8, RunsReady DEF RulePcs
    <3> QED  BY <2>1, <3>1, <3>2, <3>3
  <2>2. CASE y # x
    <3>1. kind[HeadOfExit(y)] = "decreasing"
      BY <1>4, <1>h, <1>t, <2>2, ExitFacts
    <3>2. /\ \A c \in Comp(y) : Pred(c) \ Comp(y) \subseteq done
          /\ \A c \in Comp(y) \ {y} : NodeCovered(Block(c)) /\ EdgesCovered(Block(c))
          /\ \A v \in Workers : pc[v] = "read" /\ cur[v] \in Comp(y) =>
               Leq(acc[v].in, pre[Block(cur[v])]) /\ Leq(acc[v].back, pre[Block(cur[v])])
      BY <3>1 DEF ValuesInv, LoopsDescend
    <3>3. ASSUME NEW c \in Comp(y) \ {y} PROVE Block(c) \in cfg.node \ {n}
      <4>0. /\ Comp(y) \subseteq Cell
            /\ \A d \in Comp(y) \ {y} : Type(d) # "exit" /\ (Type(d) = "head" => d = HeadOfExit(y))
        <5>1. Comp(y) \subseteq Cell
          BY <1>t, ExitFacts
        <5>2. \A d \in Comp(y) \ {y} : d # HeadOfExit(y) => Type(d) = "plain"
          BY DEF Innermost
        <5>3. Type(HeadOfExit(y)) = "head"
          BY <1>t, ExitFacts
        <5> QED  BY <5>1, <5>2, <5>3
      <4>1. c \in Cell /\ Type(c) # "exit" /\ (Type(c) = "head" => c = HeadOfExit(y))
        BY <4>0
      <4>2. h \notin Comp(y) \ {y}
        BY <1>h, <2>2, <4>0
      <4>3. Block(c) # n
        BY <1>h, <1>t, <4>1, <4>2, LoopBlocks
      <4> QED  BY <1>t, <4>1, <4>3, TableTypes
    <3>4. ASSUME NEW c \in Comp(y) \ {y} PROVE NodeCovered(Block(c))' /\ EdgesCovered(Block(c))'
      BY <1>1, <1>5, <3>2, <3>3 DEF NodeCovered, EdgesCovered, EdgeValue, Block
    <3>5. \A v \in Workers : pc'[v] = "read" /\ cur[v] \in Comp(y) =>
            Leq(acc'[v].in, pre'[Block(cur[v])]) /\ Leq(acc'[v].back, pre'[Block(cur[v])])
      BY <1>1, <1>2, <1>4, <1>6, <3>2 DEF RulePcs
    <3> QED  BY <3>2, <3>4, <3>5
  <2> QED  BY <2>1, <2>2
<1> QED  BY <1>11, <1>12, <1>13, <1>14, <1>15 DEF ValuesInv

------------------------------------------------------------------------------
(* The phases of an iteration.                                              *)

(* An extrapolation covers what it extrapolates.                            *)
LEMMA ExtrapolateCovers ==
  ASSUME InputFixed, NEW n \in cfg.node, NEW i \in Nat, NEW a \in Value, NEW b \in Value
  PROVE  Leq(a, Extrapolate(n, i, a, b)) /\ Leq(b, Extrapolate(n, i, a, b))
<1>1. /\ Leq(a, JoinIter(a, b)) /\ Leq(b, JoinIter(a, b))
      /\ Leq(a, Widen(a, b)) /\ Leq(b, Widen(a, b))
  BY DomainLaws
<1>2. Leq(a, WidenThreshold(prog, n, a, b)) /\ Leq(b, WidenThreshold(prog, n, a, b))
  BY DomainLaws DEF InputFixed
<1> QED  BY <1>1, <1>2 DEF Extrapolate

(* What a check does to the phase of its loop.                              *)
LEMMA CheckPhase ==
  ASSUME TypeInv, NEW w \in Workers, Check(w)
  PROVE  LET x == cur[w]  h == HeadOfExit(x)  n == Block(x)
         IN  /\ pc[w] = "read" /\ Type(x) = "exit" /\ \A v \in Workers \ {w} : pc'[v] = pc[v]
             /\ \A m \in cfg.node \ {n} : pre'[m] = pre[m]
             /\ \A c \in Cell \ {h} : kind'[c] = kind[c] /\ count'[c] = count[c]
             /\ pc'[w] = "unstable" /\ kind'[h] = "increasing" =>
                  Leq(pre[n], pre'[n]) /\ pre[n] # pre'[n]
             /\ kind[h] = "decreasing" =>
                  Leq(pre'[n], pre[n]) /\ (kind'[h] = "increasing" => count'[h] = 0)
             /\ kind'[h] = "decreasing" =>
                  /\ HasNarrowing(prog) \/ kind[h] = "decreasing"
                  /\ count[h] # 0 \/ kind[h] = "increasing" => count'[h] # 0
<1> DEFINE x == cur[w]
           h == HeadOfExit(x)
           n == Block(x)
           new == JoinLoop(acc[w].in, acc[w].back)
           widening == kind[h] = "increasing" /\ ~ Leq(new, pre[n])
           refined == Narrow(pre[n], new)
           stable == ~ widening /\ DecreasingFixpoint(pre[n], refined)
<1>1. /\ pc[w] = "read" /\ Type(x) = "exit"
      /\ pc' = [pc EXCEPT ![w] = IF stable THEN "reset" ELSE "unstable"]
  BY DEF Check
<1>2. /\ InputFixed /\ TypeOK /\ n \in cfg.node /\ x \in Cell /\ h \in Cell
      /\ acc[w].in \in Value /\ acc[w].back \in Value /\ pre[n] \in Value
  BY <1>1, TableTypes, ExitFacts DEF TypeInv, Exits, Cell, Type
<1>3. new \in Value
  BY <1>2, ValuesClosed
<1>4. /\ kind[h] \in {"increasing", "decreasing"} /\ count[h] \in 0..LaterIteration
      /\ 1 \in 0..LaterIteration
      /\ \A i \in 0..LaterIteration : i # 0 => NextIteration(i) # 0
  BY <1>2 DEF TypeOK, NextIteration, LaterIteration
<1>5. /\ Leq(refined, pre[n])
      /\ Leq(pre[n], Extrapolate(n, count[h], pre[n], new))
      /\ Leq(new, Extrapolate(n, count[h], pre[n], new))
  <2>1. count[h] \in Nat
    BY <1>4 DEF LaterIteration
  <2> QED  BY <1>2, <1>3, <2>1, DomainLaws, ExtrapolateCovers
<1> HIDE DEF new
<1>6. CASE widening
  <2>1. /\ pre' = [pre EXCEPT ![n] = Extrapolate(n, count[h], @, new)]
        /\ count' = [count EXCEPT ![h] = NextIteration(@)]
        /\ kind' = kind
        /\ pc' = [pc EXCEPT ![w] = "unstable"]
    BY <1>1, <1>6 DEF Check, new
  <2>2. pre'[n] = Extrapolate(n, count[h], pre[n], new) /\ kind'[h] = "increasing"
    BY <1>2, <1>6, <2>1 DEF TypeOK
  <2> QED  BY <1>1, <1>2, <1>5, <1>6, <2>1, <2>2 DEF TypeOK
<1>7. CASE ~ widening /\ ~ stable
  <2>1. /\ pre' = [pre EXCEPT ![n] = refined]
        /\ kind' = [kind EXCEPT ![h] = "decreasing"]
        /\ count' = [count EXCEPT ![h] = NextIteration(IF kind[h] = "increasing" THEN 1 ELSE count[h])]
        /\ pc' = [pc EXCEPT ![w] = "unstable"]
    BY <1>1, <1>7 DEF Check, new
  <2>2. HasNarrowing(prog)
    BY <1>7 DEF DecreasingFixpoint
  <2>3. pre'[n] = refined /\ kind'[h] = "decreasing"
    BY <1>2, <2>1 DEF TypeOK
  <2>4. count[h] # 0 \/ kind[h] = "increasing" => count'[h] # 0
    BY <1>2, <1>4, <2>1 DEF TypeOK
  <2> QED  BY <1>1, <1>2, <1>5, <2>1, <2>2, <2>3, <2>4 DEF TypeOK
<1>8. CASE stable
  <2>1. /\ pre' = [pre EXCEPT ![n] = refined]
        /\ kind' = [kind EXCEPT ![h] = "increasing"]
        /\ count' = [count EXCEPT ![h] = 0]
        /\ pc' = [pc EXCEPT ![w] = "reset"]
    BY <1>1, <1>8 DEF Check, LeaveLoop, new
  <2>2. pre'[n] = refined /\ pc'[w] = "reset" /\ kind'[h] = "increasing" /\ count'[h] = 0
    BY <1>2, <2>1 DEF TypeOK
  <2> QED  BY <1>1, <1>2, <1>5, <2>1, <2>2 DEF TypeOK
<1> QED  BY <1>6, <1>7, <1>8

(* A step that leaves the tables of the iterations alone.                   *)
LEMMA PhaseSame ==
  ASSUME DecreasesLater, UNCHANGED <<prog, wpo, kind, count>>,
         \A v \in Workers : pc'[v] = "read" /\ Type(cur'[v]) = "head" =>
           (pc[v] = "read" /\ cur'[v] = cur[v]) \/ count[cur'[v]] = 0
  PROVE  DecreasesLater'
  BY DEF DecreasesLater, Type

LEMMA PhaseStep ==
  ASSUME SchedulerInv, DecreasesLater, [Next]_vars
  PROVE  DecreasesLater'
<1>1. TypeInv /\ InputFixed /\ TypeOK /\ prog' = prog /\ cfg' = cfg /\ wpo' = wpo /\ Cell' = Cell
  BY InvParts, InputSame DEF TypeInv
<1>2. /\ pc \in [Workers -> RulePcs \cup {"idle", "loop"}] /\ cur \in [Workers -> Cell]
      /\ kind \in [Cell -> {"increasing", "decreasing"}] /\ count \in [Cell -> 0..LaterIteration]
  BY <1>1 DEF TypeOK
<1>3. \A x \in Exits(wpo) : HeadOfExit(x) \in Cell
  BY <1>1, ExitFacts
<1>4. CASE Finish \/ UNCHANGED vars
  BY <1>1, <1>4, PhaseSame DEF Finish, vars, input, data, task
<1>5. ASSUME NEW w \in Workers, Take(w) \/ EndTask(w) \/ Notify(w) \/ Read(w) \/ Analyze(w)
                              \/ Reset(w) \/ ResetComponent(w) \/ Restore(w)
      PROVE  DecreasesLater'
  <2>1. UNCHANGED <<kind, count>>
    BY <1>5 DEF Take, EndTask, Notify, Read, Analyze, Reset, ResetComponent, Restore, data
  <2>2. \A v \in Workers : pc'[v] = "read" => pc[v] = "read" /\ cur'[v] = cur[v]
    BY <1>2, <1>5
       DEF Take, EndTask, Notify, Read, Analyze, Reset, ResetComponent, Restore, task
  <2> QED  BY <1>1, <2>1, <2>2, PhaseSame
<1>6. ASSUME NEW w \in Workers, NEW c \in Cell, BeginRule(w, c), UNCHANGED <<kind, count>>
      PROVE  DecreasesLater'
  <2>1. \A v \in Workers : pc'[v] = "read" /\ Type(cur'[v]) = "head" =>
          (pc[v] = "read" /\ cur'[v] = cur[v]) \/ count[cur'[v]] = 0
    BY <1>2, <1>6 DEF BeginRule, JoinsInputs
  <2> QED  BY <1>1, <1>6, <2>1, PhaseSame
<1>7. ASSUME NEW w \in Workers, Pop(w) \/ RunHead(w) PROVE DecreasesLater'
  <2>1. PICK c \in Cell : BeginRule(w, c)
    <3>1. CASE Pop(w)
      BY <1>1, <3>1, HeadTailProperties DEF Pop, TypeOK
    <3>2. CASE RunHead(w)
      BY <1>2, <3>2 DEF RunHead
    <3> QED  BY <1>7, <3>1, <3>2
  <2> QED  BY <1>6, <1>7, <2>1 DEF Pop, RunHead, data
<1>8. ASSUME NEW w \in Workers, SetPre(w) PROVE DecreasesLater'
  <2>1. /\ pc[w] = "read" /\ pc' = [pc EXCEPT ![w] = "analyze"] /\ cur' = cur /\ kind' = kind
        /\ count' = [count EXCEPT ![cur[w]] = IF Type(cur[w]) = "head" THEN 1 ELSE @]
    BY <1>8 DEF SetPre, task
  <2>2. /\ \A c \in Cell : count'[c] = count[c] \/ count'[c] = 1
        /\ \A c \in Cell \ {cur[w]} : count'[c] = count[c]
        /\ \A v \in Workers : pc'[v] = "read" => v # w /\ pc[v] = "read"
    BY <1>2, <2>1
  <2>3. \A x \in Exits(wpo) : kind[HeadOfExit(x)] = "decreasing" =>
          count'[HeadOfExit(x)] # 0 /\ HasNarrowing(prog)
    BY <1>3, <2>2 DEF DecreasesLater
  <2>4. \A v \in Workers : pc'[v] = "read" => pc[v] = "read" /\ count'[cur[v]] = count[cur[v]]
    BY <1>2, <2>1, <2>2, NoSharedBlock DEF RulePcs
  <2> QED  BY <1>1, <2>1, <2>3, <2>4 DEF DecreasesLater, Type
<1>9. ASSUME NEW w \in Workers, Check(w) PROVE DecreasesLater'
  <2> DEFINE h == HeadOfExit(cur[w])
  <2>1. /\ pc[w] = "read" /\ Type(cur[w]) = "exit"
        /\ \A v \in Workers \ {w} : pc'[v] = pc[v]
        /\ \A c \in Cell \ {h} : kind'[c] = kind[c] /\ count'[c] = count[c]
        /\ kind'[h] = "decreasing" =>
             /\ HasNarrowing(prog) \/ kind[h] = "decreasing"
             /\ count[h] # 0 \/ kind[h] = "increasing" => count'[h] # 0
    BY <1>1, <1>9, CheckPhase
  <2>2. pc'[w] \in {"reset", "unstable"} /\ cur' = cur
    BY <1>2, <1>9 DEF Check, task
  <2>3. /\ cur[w] \in Exits(wpo) /\ Block(h) = Block(cur[w])
        /\ kind[h] \in {"increasing", "decreasing"}
    <3>1. cur[w] \in Exits(wpo)
      BY <1>2, <2>1 DEF Exits, Cell, Type
    <3> QED  BY <1>1, <1>2, <1>3, <3>1, OrderWellFormed, ComponentFacts DEF Block
  <2>4. \A x \in Exits(wpo) : kind'[HeadOfExit(x)] = "decreasing" =>
          count'[HeadOfExit(x)] # 0 /\ HasNarrowing(prog)
    BY <1>3, <2>1, <2>3 DEF DecreasesLater
  <2>5. \A v \in Workers : pc'[v] = "read" => pc[v] = "read" /\ count'[cur[v]] = count[cur[v]]
    BY <1>2, <2>1, <2>2, <2>3, NoSharedBlock DEF RulePcs
  <2> QED  BY <1>1, <2>2, <2>4, <2>5 DEF DecreasesLater, Type
<1> QED  BY <1>4, <1>5, <1>7, <1>8, <1>9 DEF Next, Work
------------------------------------------------------------------------------
(* The steps of the iterator.                                               *)

(* At first nothing has run, and no loop is entered.                        *)
LEMMA InitValues == Init => DecreasesLater /\ ValuesInv
<1> SUFFICES ASSUME Init PROVE DecreasesLater /\ ValuesInv
  OBVIOUS
<1>1. /\ TypeInv /\ InputFixed /\ done = {}
      /\ \A w \in Workers : pc[w] = "idle"
      /\ \A c \in Cell : kind[c] = "increasing"
      /\ \A n \in cfg.node : pre[n] = IF n = cfg.entry THEN InitValue ELSE Bottom
  BY InitTypeInv DEF Init, TypeInv
<1>2. cfg.entry \in cfg.node /\ pre[cfg.entry] = InitValue /\ Leq(InitValue, InitValue)
  BY <1>1, TableTypes, LeqRefl, ValuesClosed
<1>3. \A x \in Exits(wpo) : kind[HeadOfExit(x)] = "increasing"
  BY <1>1, ExitFacts
<1>4. DecreasesLater
  BY <1>1, <1>3 DEF DecreasesLater
<1>5. EntryCovered /\ ReadsCovered /\ NodesCovered
  BY <1>1, <1>2 DEF EntryCovered, ReadsCovered, NodesCovered
<1>6. InputsCovered
  BY <1>1 DEF InputsCovered, HasJoined
<1>7. LoopsDescend
  BY <1>3 DEF LoopsDescend
<1> QED  BY <1>4, <1>5, <1>6, <1>7 DEF ValuesInv

(* No step uncovers a value, as long as the refinements of outer loops      *)
(* descend.                                                                 *)
LEMMA ValuesStep ==
  ASSUME SchedulerInv, DecreasesLater, RefinedMonotone, ValuesInv, OuterRefinementsDescend,
         [Next]_vars
  PROVE  ValuesInv'
<1>1. TypeInv /\ InputFixed /\ TypeOK /\ prog' = prog /\ cfg' = cfg /\ wpo' = wpo /\ Cell' = Cell
  BY InvParts, InputSame DEF TypeInv
<1>2. /\ pc \in [Workers -> RulePcs \cup {"idle", "loop"}] /\ cur \in [Workers -> Cell]
      /\ wl \in [Workers -> Seq(Cell)]
  BY <1>1 DEF TypeOK
<1>3. CASE Finish \/ UNCHANGED vars
  BY <1>1, <1>3, Undisturbed DEF Finish, vars, input, data, task
<1>4. ASSUME NEW w \in Workers, Take(w) \/ EndTask(w) \/ Notify(w) \/ Restore(w)
      PROVE  ValuesInv'
  <2>1. UNCHANGED <<pre, post, kind, count, unread, acc, done>>
    BY <1>4 DEF Take, EndTask, Notify, Restore, data
  <2>2. \A v \in Workers :
          pc[v] \in ValuePcs \/ pc'[v] \in ValuePcs => pc'[v] = pc[v] /\ cur'[v] = cur[v]
    BY <1>2, <1>4 DEF Take, EndTask, Notify, Restore, task, ValuePcs
  <2> QED  BY <1>1, <2>1, <2>2, Undisturbed
<1>5. ASSUME NEW w \in Workers, Pop(w) \/ RunHead(w) PROVE ValuesInv'
  <2>1. PICK c \in Cell : BeginRule(w, c)
    <3>1. CASE Pop(w)
      BY <1>2, <3>1, HeadTailProperties DEF Pop
    <3>2. CASE RunHead(w)
      BY <1>2, <3>2 DEF RunHead
    <3> QED  BY <1>5, <3>1, <3>2
  <2>2. pc[w] \notin ValuePcs /\ UNCHANGED <<pre, post, kind, count, done>>
    BY <1>5 DEF Pop, RunHead, data, ValuePcs
  <2> QED  BY <1>1, <2>1, <2>2, BeginRuleValues
<1> QED  BY <1>1, <1>3, <1>4, <1>5, ReadValues, SetPreValues, AnalyzeValues, ResetValues,
            CheckValues, ResetComponentValues
       DEF Next, Work

(* What is covered when nothing runs any more is a post-fixpoint.           *)
LEMMA FinishedCovered ==
  ASSUME SchedulerInv, CompleteWhenFinished, ValuesInv
  PROVE  PostFixpoint
<1> SUFFICES ASSUME finished PROVE PostFixpoint
  BY DEF PostFixpoint
<1>1. InputFixed /\ done = Cell /\ \A w \in Workers : pc[w] = "idle"
  BY DEF SchedulerInv, CompleteWhenFinished, FinishedQuiet
<1>2. ASSUME NEW n \in cfg.node PROVE NodeCovered(n) /\ EdgesCovered(n)
  <2>1. PICK c \in Cell : Type(c) # "exit" /\ Block(c) = n
    BY <1>1, OrderWellFormed DEF WellFormed, BlocksCovered, Cell, Type, Block, Exits
  <2>2. NodeCovered(n)
    BY <1>1, <2>1 DEF ValuesInv, NodesCovered
  <2>3. CASE Type(c) # "head"
    BY <1>1, <2>1, <2>2, <2>3 DEF ValuesInv, InputsCovered
  <2>4. CASE Type(c) = "head"
    <3>1. c \in Heads(wpo)
      BY <2>1, <2>4 DEF Heads, Cell, Type
    <3>2. ExitOfHead(c) \in Exits(wpo) /\ c \in Nat
      BY <1>1, <3>1, OrderWellFormed, CellFacts DEF WellFormed, ComponentsNested, Heads
    <3>3. HeadOfExit(ExitOfHead(c)) = c
      BY <3>2 DEF HeadOfExit, ExitOfHead
    <3>4. ExitOfHead(c) \in done /\ Type(ExitOfHead(c)) = "exit"
      BY <1>1, <3>2 DEF Exits, Cell, Type
    <3>5. Block(ExitOfHead(c)) = n
      BY <1>1, <2>1, <3>2, <3>3, OrderWellFormed, ComponentFacts DEF Block
    <3> QED  BY <2>2, <3>4, <3>5 DEF ValuesInv, InputsCovered
  <2> QED  BY <2>3, <2>4
<1>3. Leq(InitValue, pre[cfg.entry])
  BY DEF ValuesInv, EntryCovered
<1> QED  BY <1>2, <1>3 DEF PostFixpoint, NodeCovered, EdgesCovered, EdgeValue

------------------------------------------------------------------------------
(* The theorems.                                                            *)

(* A loop decreases only after its first iteration, and only in a domain    *)
(* that iterates its narrowing.                                             *)
THEOREM DecreasesCorrect == Spec => [](SchedulerInv /\ DecreasesLater)
<1>1. Init => DecreasesLater
  BY InitValues
<1>2. SchedulerInv /\ DecreasesLater /\ [Next]_vars => DecreasesLater'
  BY PhaseStep
<1> QED  BY <1>1, <1>2, SchedulerCorrect, PTL DEF Spec

(* A domain that does not iterate its narrowing, or a function without      *)
(* nested loops: no loop that is refined has a loop inside.                 *)
OnlyInnermostRefined == ~ HasNarrowing(prog) \/ \A x \in Exits(wpo) : Innermost(x)

(* While the iterator runs the invariants cover what has run: for domains   *)
(* that do not iterate their narrowing when the heads of the loops have     *)
(* monotone transfer functions, and for functions without nested loops when *)
(* all blocks of the loops have, whatever the domain (process_pre,          *)
(* process_post, refine).                                                   *)
THEOREM CoveredIfInnermost ==
  Spec => [](OnlyInnermostRefined /\ RefinedMonotone => InvariantsCover)
<1> DEFINE Refinable == OnlyInnermostRefined /\ RefinedMonotone
<1>1. Init => ValuesInv
  BY InitValues
<1>2. DecreasesLater /\ OnlyInnermostRefined => OuterRefinementsDescend
  BY DEF DecreasesLater, OnlyInnermostRefined, OuterRefinementsDescend, Refines
<1>3. [Next]_vars => (Refinable' <=> Refinable)
  BY InputSame DEF OnlyInnermostRefined, Innermost, Comp, Type, RefinedMonotone, NodeMonotone, Block
<1>4. SchedulerInv /\ DecreasesLater /\ (Refinable => ValuesInv) /\ [Next]_vars
        => (Refinable => ValuesInv)'
  BY <1>2, <1>3, ValuesStep
<1>5. DecreasesLater /\ (Refinable => ValuesInv) => (Refinable => InvariantsCover)
  BY <1>2 DEF InvariantsCover
<1> HIDE DEF Refinable
<1>6. Spec => [](Refinable => InvariantsCover)
  BY <1>1, <1>4, <1>5, DecreasesCorrect, PTL DEF Spec
<1> QED  BY <1>6 DEF Refinable

(* The result covers the initial state, every edge and every block, under   *)
(* the same conditions.                                                     *)
THEOREM PostFixpointReached ==
  Spec => [](OnlyInnermostRefined /\ RefinedMonotone => PostFixpoint)
<1>1. SchedulerInv /\ CompleteWhenFinished /\ InvariantsCover => PostFixpoint
  BY FinishedCovered DEF InvariantsCover
<1>2. (OnlyInnermostRefined /\ RefinedMonotone => InvariantsCover) /\ SchedulerInv /\ CompleteWhenFinished
        => (OnlyInnermostRefined /\ RefinedMonotone => PostFixpoint)
  BY <1>1
<1> QED  BY <1>2, CoveredIfInnermost, SchedulerCorrect, FinishedComplete, PTL

(* What a step does to the invariant of a head, and to its phase.           *)
LEMMA HeadStep ==
  ASSUME SchedulerInv, DecreasesLater, [Next]_vars, NEW x \in Exits(wpo)
  PROVE  LET h == HeadOfExit(x)  n == Block(h)
         IN  /\ (\E w \in Workers : Runs(w, x) /\ pc[w] # pc'[w] /\ pc'[w] = "unstable")
                  /\ kind'[h] = "increasing" => Leq(pre[n], pre'[n]) /\ pre[n] # pre'[n]
             /\ kind[h] = "decreasing" =>
                  /\ Leq(pre'[n], pre[n])
                  /\ kind'[h] = "increasing" => count'[h] = 0
<1> DEFINE h == HeadOfExit(x)
           n == Block(h)
           repeats == \E w \in Workers : Runs(w, x) /\ pc[w] # pc'[w] /\ pc'[w] = "unstable"
<1>1. /\ TypeInv /\ InputFixed /\ TypeOK
      /\ x \in Cell /\ h \in Cell /\ n \in cfg.node /\ n = Block(x) /\ Type(h) = "head"
      /\ Leq(pre[n], pre[n])
  <2>1. TypeInv /\ InputFixed /\ TypeOK
    BY InvParts DEF TypeInv
  <2>2. x \in Cell /\ h \in Cell /\ n = Block(x) /\ Type(h) = "head"
    BY <2>1, ExitFacts, OrderWellFormed, ComponentFacts DEF Block
  <2> QED  BY <2>1, <2>2, TableTypes, LeqRefl
<1>2. /\ pc \in [Workers -> RulePcs \cup {"idle", "loop"}]
      /\ pre \in [cfg.node -> Value] /\ kind \in [Cell -> {"increasing", "decreasing"}]
  BY <1>1 DEF TypeOK
<1> SUFFICES /\ repeats /\ kind'[h] = "increasing" => Leq(pre[n], pre'[n]) /\ pre[n] # pre'[n]
             /\ kind[h] = "decreasing" =>
                  /\ Leq(pre'[n], pre[n])
                  /\ kind'[h] = "increasing" => count'[h] = 0
  OBVIOUS
<1>3. CASE ~ \E w \in Workers : Check(w) \/ SetPre(w)
  <2>1. pre' = pre /\ kind' = kind
    BY <1>3 DEF Next, Work, Take, Pop, EndTask, Notify, Read, Analyze, Reset, ResetComponent,
                Restore, RunHead, Finish, vars, data
  <2>2. ~ repeats
    BY <1>2, <1>3 DEF Next, Work, Take, Pop, EndTask, Notify, Read, Analyze, Reset,
                      ResetComponent, Restore, RunHead, BeginRule, Finish, vars
  <2> QED  BY <1>1, <2>1, <2>2
<1>4. ASSUME NEW w \in Workers, SetPre(w)
      PROVE  /\ ~ repeats
             /\ kind[h] = "decreasing" => pre'[n] = pre[n] /\ kind'[h] = kind[h]
  <2>1. /\ pc[w] = "read" /\ pc' = [pc EXCEPT ![w] = "analyze"] /\ kind' = kind
        /\ Type(cur[w]) # "exit" /\ pre' = [pre EXCEPT ![Block(cur[w])] = acc[w].in]
    BY <1>4 DEF SetPre
  <2>2. ~ repeats
    BY <1>2, <2>1
  <2>3. ASSUME kind[h] = "decreasing" PROVE Block(cur[w]) # n
    <3>1. cur[w] # h
      BY <1>1, <2>1, <2>3 DEF DecreasesLater
    <3>2. cur[w] \in Cell
      BY <1>1, TableTypes
    <3> QED  BY <1>1, <2>1, <3>1, <3>2, OrderWellFormed, CellOfBlock DEF Cell, Type, Block
  <2> QED  BY <1>1, <1>2, <2>1, <2>2, <2>3
<1>5. ASSUME NEW w \in Workers, Check(w)
      PROVE  /\ repeats /\ kind'[h] = "increasing" => Leq(pre[n], pre'[n]) /\ pre[n] # pre'[n]
             /\ kind[h] = "decreasing" =>
                  /\ Leq(pre'[n], pre[n])
                  /\ kind'[h] = "increasing" => count'[h] = 0
  <2> DEFINE y == cur[w]
  <2>1. /\ pc[w] = "read" /\ Type(y) = "exit" /\ \A v \in Workers \ {w} : pc'[v] = pc[v]
        /\ \A m \in cfg.node \ {Block(y)} : pre'[m] = pre[m]
        /\ \A c \in Cell \ {HeadOfExit(y)} : kind'[c] = kind[c] /\ count'[c] = count[c]
        /\ pc'[w] = "unstable" /\ kind'[HeadOfExit(y)] = "increasing" =>
             Leq(pre[Block(y)], pre'[Block(y)]) /\ pre[Block(y)] # pre'[Block(y)]
        /\ kind[HeadOfExit(y)] = "decreasing" =>
             /\ Leq(pre'[Block(y)], pre[Block(y)])
             /\ kind'[HeadOfExit(y)] = "increasing" => count'[HeadOfExit(y)] = 0
    BY <1>1, <1>5, CheckPhase
  <2>2. y \in Exits(wpo)
    BY <1>1, <2>1, TableTypes DEF Exits, Cell, Type
  <2>3. CASE y = x
    BY <1>1, <2>1, <2>3
  <2>4. CASE y # x
    <3>1. h # HeadOfExit(y)
      BY <1>1, <2>2, <2>4, HeadsDiffer
    <3>2. n # Block(y)
      <4>1. /\ HeadOfExit(y) \in Cell /\ Type(HeadOfExit(y)) = "head"
            /\ Block(HeadOfExit(y)) = Block(y)
        BY <1>1, <2>2, ExitFacts, OrderWellFormed, ComponentFacts DEF Block
      <4> QED  BY <1>1, <3>1, <4>1, OrderWellFormed, CellOfBlock DEF Cell, Type, Block
    <3>3. ~ repeats
      BY <2>1, <2>4 DEF Runs
    <3> QED  BY <1>1, <2>1, <3>1, <3>2, <3>3
  <2> QED  BY <2>3, <2>4
<1> QED  BY <1>1, <1>3, <1>4, <1>5

(* The iterations of a loop go strictly up, then down until the loop is     *)
(* left (check_stabilization_and_widen_in_join_node).                       *)
THEOREM PhasesCorrect == Spec => IterationPhases
<1>1. SchedulerInv /\ DecreasesLater /\ [Next]_vars =>
        [\A x \in Exits(wpo) :
           LET h == HeadOfExit(x)
               n == Block(h)
               repeats == \E w \in Workers : Runs(w, x) /\ pc[w] # pc'[w] /\ pc'[w] = "unstable"
           IN  /\ repeats /\ kind'[h] = "increasing" => Leq(pre[n], pre'[n]) /\ pre[n] # pre'[n]
               /\ kind[h] = "decreasing" =>
                    /\ Leq(pre'[n], pre[n])
                    /\ kind'[h] = "increasing" => count'[h] = 0]_vars
  BY HeadStep
<1> QED  BY <1>1, DecreasesCorrect, PTL DEF Spec, IterationPhases
==============================================================================
