---------------------- MODULE ConcurrentFixpointTheorems ----------------------
(****************************************************************************)
(* What is proved of the concurrent fixpoint iterator, for every program,   *)
(* every weak partial order that is well formed, every abstract domain      *)
(* closed under its operators, every partition and every set of workers.    *)
(* All follows from the inductive invariant SchedulerInv: it holds at       *)
(* first, and every step of a worker keeps it.  There is one lemma per      *)
(* action; it also says how the step changes the cells that are scheduled   *)
(* or run, which the refinement of WpoSchedule needs.                       *)
(****************************************************************************)
EXTENDS ConcurrentFixpointInv, WpoTheorems, SequenceTheorems

(* The part of the invariant that concerns each worker alone.               *)
TypeInv == InputFixed /\ TypeOK /\ LocalsOK

(* The order under analysis is one that the construction yields.           *)
LEMMA OrderWellFormed ==
  ASSUME InputFixed
  PROVE  WellFormed(wpo, cfg)
  BY OrdersWellFormed DEF InputFixed

(* No step changes the graph and its order.                                 *)
LEMMA InputSame ==
  ASSUME Next \/ UNCHANGED vars
  PROVE  /\ prog' = prog /\ cfg' = cfg /\ wpo' = wpo
         /\ Cell' = Cell
  BY DEF Next, Work, Take, Pop, EndTask, Notify, Read, SetPre, Analyze, Reset, Check,
         ResetComponent, Restore, RunHead, Finish, vars, input, Cell

(* The cells as run makes them are of the right types.                      *)
LEMMA InitTypeInv == Init => TypeInv
<1> SUFFICES ASSUME Init PROVE TypeInv
  OBVIOUS
<1>1. InputFixed
  BY DEF Init, InputFixed
<1>2. WellFormed(wpo, cfg)
  BY <1>1, OrderWellFormed
<1>3. TypeOK
  <2>1. cfg.entry \in cfg.node /\ NoCell \in Cell /\ NoValue \in [in : Value, back : Value]
    BY <1>2, CellFacts, ValuesClosed DEF Cell, NoCell, NoValue
  <2>2. pre \in [cfg.node -> Value] /\ post \in [cfg.node -> Value]
    BY ValuesClosed DEF Init
  <2>3. acc \in [Workers -> [in : Value, back : Value]]
    BY <2>1 DEF Init
  <2>4. /\ wl \in [Workers -> Seq(Cell)]
        /\ cell \in [Workers -> Cell] /\ cur \in [Workers -> Cell]
    BY <2>1 DEF Init
  <2>5. /\ kind \in [Cell -> {"increasing", "decreasing"}]
        /\ count \in [Cell -> 0..LaterIteration]
        /\ executed \in [Cell -> Nat] /\ pool \in [Cell -> Nat]
    BY DEF Init, LaterIteration
  <2>6. /\ pc \in [Workers -> RulePcs \cup {"idle", "loop"}]
        /\ unread \in [Workers -> SUBSET cfg.node]
        /\ todo \in [Workers -> SUBSET Cell]
        /\ finished \in BOOLEAN /\ done \in SUBSET Cell
    BY DEF Init, RulePcs
  <2>7. prog \in Programs
    BY DEF Init
  <2> QED  BY <2>2, <2>3, <2>4, <2>5, <2>6, <2>7 DEF TypeOK
<1>4. LocalsOK
  BY DEF Init, LocalsOK, LocalOK
<1> QED  BY <1>1, <1>3, <1>4 DEF TypeInv

(* A rule that begins reads, or analyzes the head of a loop.                *)
LEMMA BeginRuleEffect ==
  ASSUME TypeOK, NEW w \in Workers, NEW c \in Cell, Block(c) \in cfg.node, BeginRule(w, c)
  PROVE  /\ pc' \in [Workers -> RulePcs \cup {"idle", "loop"}]
         /\ unread' \in [Workers -> SUBSET cfg.node]
         /\ acc' \in [Workers -> [in : Value, back : Value]]
         /\ cur' \in [Workers -> Cell]
         /\ cur'[w] = c
         /\ pc'[w] \in {"read", "analyze"}
         /\ pc'[w] = "analyze" => Type(c) = "head"
         /\ \A v \in Workers \ {w} : pc'[v] = pc[v] /\ cur'[v] = cur[v]
<1>1. Inputs(c) \subseteq cfg.node
  BY DEF Inputs, CfgPred
<1>2. {"read", "analyze"} \subseteq RulePcs
  BY DEF RulePcs
<1>3. cur' \in [Workers -> Cell] /\ cur'[w] = c /\ \A v \in Workers \ {w} : cur'[v] = cur[v]
  BY DEF BeginRule, TypeOK
<1>4. PICK joins \in BOOLEAN :
         /\ joins = JoinsInputs(c)
         /\ pc' = [pc EXCEPT ![w] = IF joins THEN "read" ELSE "analyze"]
         /\ unread' = [unread EXCEPT ![w] = IF joins THEN Inputs(c) ELSE {}]
  BY DEF BeginRule, JoinsInputs
<1>5. /\ pc' \in [Workers -> RulePcs \cup {"idle", "loop"}]
      /\ pc'[w] \in {"read", "analyze"}
      /\ pc'[w] = "analyze" => ~ joins
      /\ \A v \in Workers \ {w} : pc'[v] = pc[v]
  BY <1>2, <1>4 DEF TypeOK
<1>6. unread' \in [Workers -> SUBSET cfg.node]
  BY <1>1, <1>4 DEF TypeOK
<1> DEFINE start == IF Type(c) = "plain" /\ Block(c) = cfg.entry
                    THEN pre[Block(c)] ELSE Bottom
<1>7. acc' = [acc EXCEPT ![w] = [in |-> start, back |-> Bottom]]
  BY DEF BeginRule
<1>8. start \in Value /\ Bottom \in Value
  BY ValuesClosed DEF TypeOK
<1>9. acc' \in [Workers -> [in : Value, back : Value]]
  BY <1>7, <1>8 DEF TypeOK
<1> QED  BY <1>3, <1>4, <1>5, <1>6, <1>9 DEF JoinsInputs

(* Every step of a worker keeps them so: one step of the proof per action.  *)
LEMMA TypeInvStep == TypeInv /\ [Next]_vars => TypeInv'
<1> SUFFICES ASSUME TypeInv, [Next]_vars PROVE TypeInv'
  OBVIOUS
<1>w. InputFixed /\ TypeOK /\ LocalsOK /\ WellFormed(wpo, cfg)
  BY OrderWellFormed DEF TypeInv
<1>i. prog' = prog /\ cfg' = cfg /\ wpo' = wpo /\ Cell' = Cell
  BY InputSame
<1>k. InputFixed /\ TypeOK /\ LocalsOK /\ prog' = prog /\ cfg' = cfg /\ wpo' = wpo /\ Cell' = Cell
  BY <1>w, <1>i
<1>f. InputFixed'
  BY <1>k DEF InputFixed
<1>r. {"read", "analyze", "reset", "unstable", "restore"} \subseteq RulePcs
  BY DEF RulePcs
<1>e. GetEntry(wpo) \in Cell /\ Type(GetEntry(wpo)) = "plain"
  BY <1>w, CellFacts DEF Cell, Type
<1>t. \A c \in Cell : Type(c) \in {"plain", "head", "exit"} /\ Block(c) \in cfg.node
  BY <1>w, CellFacts DEF Cell, Type, Block
<1>v. Bottom \in Value
  BY ValuesClosed
<1>d. /\ pc \in [Workers -> RulePcs \cup {"idle", "loop"}] /\ wl \in [Workers -> Seq(Cell)]
      /\ todo \in [Workers -> SUBSET Cell]
      /\ cell \in [Workers -> Cell] /\ cur \in [Workers -> Cell]
  BY <1>w DEF TypeOK
<1>s. \A c \in Cell : Succ(c) \subseteq Cell
  BY <1>w, ConstraintFacts DEF Succ, Cell
<1>o. \A x \in Cell : Type(x) = "exit" =>
         /\ x \in Exits(wpo)
         /\ HeadOfExit(x) \in Cell /\ Type(HeadOfExit(x)) = "head"
         /\ DOMAIN wpo.outer[x] \subseteq Cell
         /\ \A c \in DOMAIN wpo.outer[x] : wpo.outer[x][c] \in Nat
  BY <1>w, ComponentFacts, OuterFacts DEF Exits, Cell, Type
<1>1. ASSUME NEW w \in Workers, Take(w) PROVE TypeOK' /\ LocalsOK'
  <2>1. TypeOK'
    BY <1>1, <1>k DEF Take, TypeOK, LocalsOK, LocalOK, input, data, task
  <2>2. ASSUME NEW v \in Workers, v # w PROVE LocalOK(v)'
    BY <1>1, <1>k, <1>d, <2>2 DEF Take, LocalsOK, LocalOK, task, Type, Succ
  <2>3. LocalOK(w)'
    BY <1>1, <1>k, <1>d DEF Take, LocalsOK, LocalOK, task, Type, Succ
  <2> QED  BY <2>1, <2>2, <2>3 DEF LocalsOK
<1>2. ASSUME NEW w \in Workers, EndTask(w) PROVE TypeOK' /\ LocalsOK'
  <2>1. TypeOK'
    BY <1>2, <1>k, <1>e DEF EndTask, TypeOK, LocalsOK, LocalOK, input, data, task, NoCell
  <2>2. ASSUME NEW v \in Workers, v # w PROVE LocalOK(v)'
    BY <1>2, <1>k, <1>d, <2>2 DEF EndTask, LocalsOK, LocalOK, task, Type, Succ
  <2>3. LocalOK(w)'
    BY <1>2, <1>k, <1>e, <1>d DEF EndTask, LocalsOK, LocalOK, task, Type, Succ, NoCell
  <2> QED  BY <2>1, <2>2, <2>3 DEF LocalsOK
<1>3. ASSUME NEW w \in Workers, Pop(w) PROVE TypeOK' /\ LocalsOK'
  <2>1. TypeOK'
    <3>1. Head(wl[w]) \in Cell /\ Tail(wl[w]) \in Seq(Cell)
      BY <1>3, <1>d, HeadTailProperties DEF Pop
    <3>2. wl' \in [Workers -> Seq(Cell)] /\ cell' \in [Workers -> Cell]
      BY <1>3, <1>d, <3>1 DEF Pop
    <3>3. BeginRule(w, Head(wl[w]))
      BY <1>3 DEF Pop
    <3> QED  BY <1>3, <1>k, <1>t, <3>1, <3>2, <3>3, BeginRuleEffect DEF Pop, TypeOK, input, data
  <2>2. Head(wl[w]) \in Cell /\ BeginRule(w, Head(wl[w]))
    BY <1>3, <1>d, HeadTailProperties DEF Pop
  <2>3. ASSUME NEW v \in Workers, v # w PROVE LocalOK(v)'
    BY <1>3, <1>k, <1>d, <1>t, <2>2, <2>3, BeginRuleEffect DEF Pop, LocalsOK, LocalOK, Type, Succ
  <2>4. /\ cell'[w] = cur'[w] /\ todo'[w] = {}
        /\ pc'[w] \in {"read", "analyze"}
        /\ pc'[w] = "analyze" => Type(cur'[w]) = "head"
    BY <1>3, <1>d, <1>t, <1>k, <2>2, BeginRuleEffect DEF Pop
  <2>5. LocalOK(w)'
    BY <1>k, <2>4 DEF LocalOK, Type, Succ
  <2> QED  BY <2>1, <2>3, <2>5 DEF LocalsOK
<1>4. ASSUME NEW w \in Workers, Notify(w) PROVE TypeOK' /\ LocalsOK'
  <2>1. TypeOK'
    <3>1. PICK s \in todo[w] :
             /\ todo' = [todo EXCEPT ![w] = @ \ {s}]
             /\ executed' = [executed EXCEPT ![s] = @ + 1]
             /\ wl' = wl \/ wl' = [wl EXCEPT ![w] = Append(@, s)]
             /\ pool' = pool \/ pool' = [pool EXCEPT ![s] = @ + 1]
      BY <1>4 DEF Notify
    <3>2. s \in Cell
      BY <1>d
    <3>3. wl' \in [Workers -> Seq(Cell)]
      <4>1. Append(wl[w], s) \in Seq(Cell)
        BY <1>d, <3>2, AppendProperties
      <4> QED  BY <1>d, <3>1, <4>1
    <3>4. pool' \in [Cell -> Nat]
      BY <1>w, <3>1, <3>2 DEF TypeOK
    <3>5. executed' \in [Cell -> Nat] /\ todo' \in [Workers -> SUBSET Cell]
      BY <1>w, <3>1, <3>2 DEF TypeOK
    <3> QED  BY <1>4, <1>k, <3>3, <3>4, <3>5 DEF Notify, TypeOK, input, data
  <2>2. ASSUME NEW v \in Workers, v # w PROVE LocalOK(v)'
    BY <1>4, <1>k, <1>d, <2>2 DEF Notify, LocalsOK, LocalOK, task, Type, Succ
  <2>3. LocalOK(w)'
    BY <1>4, <1>k, <1>d DEF Notify, LocalsOK, LocalOK, task, Type, Succ
  <2> QED  BY <2>1, <2>2, <2>3 DEF LocalsOK
<1>5. ASSUME NEW w \in Workers, Read(w) PROVE TypeOK' /\ LocalsOK'
  <2>1. TypeOK'
    <3>1. PICK p \in unread[w] : /\ unread' = [unread EXCEPT ![w] = @ \ {p}]
                                 /\ acc' = [acc EXCEPT ![w] = Joined(w, p)]
      BY <1>5 DEF Read
    <3> DEFINE value == AnalyzeEdge(prog, p, Block(cur[w]), post[p])
    <3>2. p \in cfg.node /\ Block(cur[w]) \in cfg.node /\ post[p] \in Value
      BY <1>w, <1>t DEF TypeOK
    <3>3. value \in Value
      BY <1>w, <3>2, ValuesClosed DEF InputFixed
    <3>4. acc[w] \in [in : Value, back : Value] /\ acc[w].in \in Value /\ acc[w].back \in Value
      BY <1>w DEF TypeOK
    <3>5. Join(acc[w].in, value) \in Value /\ Join(acc[w].back, value) \in Value
      BY <3>3, <3>4, ValuesClosed
    <3>6. acc' \in [Workers -> [in : Value, back : Value]]
      <4>1. Joined(w, p) \in [in : Value, back : Value]
        BY <3>4, <3>5 DEF Joined
      <4> QED  BY <1>w, <3>1, <4>1 DEF TypeOK
    <3>7. unread' \in [Workers -> SUBSET cfg.node]
      BY <1>w, <3>1 DEF TypeOK
    <3> QED  BY <1>5, <1>k, <3>6, <3>7 DEF Read, TypeOK, input, data, task
  <2>2. ASSUME NEW v \in Workers, v # w PROVE LocalOK(v)'
    BY <1>5, <1>k, <1>d, <2>2 DEF Read, LocalsOK, LocalOK, task, Type, Succ
  <2>3. LocalOK(w)'
    BY <1>5, <1>k, <1>r, <1>t, ValuesClosed, <1>d DEF Read, LocalsOK, LocalOK, task, Type, Succ, InputFixed
  <2> QED  BY <2>1, <2>2, <2>3 DEF LocalsOK
<1>6. ASSUME NEW w \in Workers, SetPre(w) PROVE TypeOK' /\ LocalsOK'
  <2>1. TypeOK'
    BY <1>6, <1>k, <1>r, <1>t, <1>v DEF SetPre, TypeOK, LocalsOK, LocalOK, input, data, task, NoValue, LaterIteration
  <2>2. ASSUME NEW v \in Workers, v # w PROVE LocalOK(v)'
    BY <1>6, <1>k, <1>d, <2>2 DEF SetPre, LocalsOK, LocalOK, task, Type, Succ
  <2>3. LocalOK(w)'
    BY <1>6, <1>k, <1>r, <1>t, <1>v, <1>d DEF SetPre, LocalsOK, LocalOK, task, Type, Succ, NoValue, LaterIteration
  <2> QED  BY <2>1, <2>2, <2>3 DEF LocalsOK
<1>7. ASSUME NEW w \in Workers, Analyze(w) PROVE TypeOK' /\ LocalsOK'
  <2>1. TypeOK'
    BY <1>7, <1>k, <1>r, <1>t, ValuesClosed DEF Analyze, TypeOK, LocalsOK, LocalOK, input, data, task, InputFixed
  <2>2. ASSUME NEW v \in Workers, v # w PROVE LocalOK(v)'
    BY <1>7, <1>k, <1>d, <2>2 DEF Analyze, LocalsOK, LocalOK, task, Type, Succ
  <2>3. LocalOK(w)'
    BY <1>7, <1>k, <1>r, <1>t, ValuesClosed, <1>d DEF Analyze, LocalsOK, LocalOK, task, Type, Succ, InputFixed
  <2> QED  BY <2>1, <2>2, <2>3 DEF LocalsOK
<1>8. ASSUME NEW w \in Workers, Reset(w) PROVE TypeOK' /\ LocalsOK'
  <2>1. TypeOK'
    BY <1>8, <1>k, <1>s DEF Reset, TypeOK, LocalsOK, LocalOK, input, data, task, Restart, Cell
  <2>2. ASSUME NEW v \in Workers, v # w PROVE LocalOK(v)'
    BY <1>8, <1>k, <1>d, <2>2 DEF Reset, LocalsOK, LocalOK, task, Type, Succ
  <2>3. LocalOK(w)'
    BY <1>8, <1>k, <1>s, <1>d DEF Reset, LocalsOK, LocalOK, task, Type, Succ, Restart, Cell
  <2> QED  BY <2>1, <2>2, <2>3 DEF LocalsOK
<1>9. ASSUME NEW w \in Workers, Check(w) PROVE TypeOK' /\ LocalsOK'
  <2>1. TypeOK'
    <3> DEFINE x == cur[w]
               h == HeadOfExit(x)
               n == Block(x)
               new == JoinLoop(acc[w].in, acc[w].back)
               refined == Narrow(pre[n], new)
    <3>1. n \in cfg.node /\ x \in Cell
      BY <1>d, <1>t
    <3>2. acc[w].in \in Value /\ acc[w].back \in Value /\ pre[n] \in Value
      BY <1>w, <3>1 DEF TypeOK
    <3>3. new \in Value
      BY <3>2, ValuesClosed
    <3>4. refined \in Value
      BY <3>2, <3>3, ValuesClosed
    <3>5. Extrapolate(n, count[h], pre[n], new) \in Value
      BY <1>w, <3>1, <3>2, <3>3, ValuesClosed DEF Extrapolate, InputFixed
    <3>6. /\ \/ pre' = [pre EXCEPT ![n] = Extrapolate(n, count[h], pre[n], new)]
             \/ pre' = [pre EXCEPT ![n] = refined]
          /\ \/ kind' = kind
             \/ kind' = [kind EXCEPT ![h] = "increasing"]
             \/ kind' = [kind EXCEPT ![h] = "decreasing"]
          /\ \/ count' = [count EXCEPT ![h] = 0]
             \/ count' = [count EXCEPT ![h] = NextIteration(count[h])]
             \/ count' = [count EXCEPT ![h] = NextIteration(1)]
          /\ pc' = [pc EXCEPT ![w] = "reset"] \/ pc' = [pc EXCEPT ![w] = "unstable"]
          /\ acc' = [acc EXCEPT ![w] = NoValue]
      BY <1>9, <1>w DEF Check, LeaveLoop, TypeOK
    <3> HIDE DEF refined, new, h, n
    <3>t. /\ pre \in [cfg.node -> Value]
          /\ kind \in [Cell -> {"increasing", "decreasing"}]
          /\ count \in [Cell -> 0..LaterIteration]
      BY <1>w DEF TypeOK
    <3>7. pre' \in [cfg.node -> Value]
      BY <3>t, <3>4, <3>5, <3>6
    <3>8. kind' \in [Cell -> {"increasing", "decreasing"}]
      BY <3>t, <3>6
    <3>9. count' \in [Cell -> 0..LaterIteration]
      <4>1. \A i \in 0..LaterIteration : NextIteration(i) \in 0..LaterIteration
        BY DEF NextIteration, LaterIteration
      <4>2. 1 \in 0..LaterIteration /\ 0 \in 0..LaterIteration
        BY DEF LaterIteration
      <4>3. h \in Cell
        BY <1>9, <1>o, <3>1 DEF Check, h
      <4>4. NextIteration(count[h]) \in 0..LaterIteration /\ NextIteration(1) \in 0..LaterIteration
        BY <3>t, <4>1, <4>2, <4>3
      <4> QED  BY <3>t, <3>6, <4>2, <4>4
    <3>10. pc' \in [Workers -> RulePcs \cup {"idle", "loop"}]
      BY <1>d, <1>r, <3>6
    <3>11. acc' \in [Workers -> [in : Value, back : Value]]
      BY <1>w, <1>v, <3>6 DEF TypeOK, NoValue
    <3> QED  BY <1>9, <1>k, <3>7, <3>8, <3>9, <3>10, <3>11 DEF Check, TypeOK, input, task
  <2>2. ASSUME NEW v \in Workers, v # w PROVE LocalOK(v)'
    BY <1>9, <1>k, <1>d, <2>2 DEF Check, LocalsOK, LocalOK, task, Type, Succ
  <2>3. LocalOK(w)'
    BY <1>9, <1>k, <1>r, <1>t, <1>v, ValuesClosed, <1>d DEF Check, LocalsOK, LocalOK, task, Type, Succ, NoValue
  <2> QED  BY <2>1, <2>2, <2>3 DEF LocalsOK
<1>10. ASSUME NEW w \in Workers, ResetComponent(w) PROVE TypeOK' /\ LocalsOK'
  <2>1. TypeOK'
    BY <1>10, <1>k, <1>r, <1>o DEF ResetComponent, TypeOK, LocalsOK, LocalOK, input, data, task, Restart, Comp
  <2>2. ASSUME NEW v \in Workers, v # w PROVE LocalOK(v)'
    BY <1>10, <1>k, <1>d, <2>2 DEF ResetComponent, LocalsOK, LocalOK, task, Type, Succ
  <2>3. LocalOK(w)'
    BY <1>10, <1>k, <1>r, <1>o, <1>d DEF ResetComponent, LocalsOK, LocalOK, task, Type, Succ, Restart, Comp
  <2> QED  BY <2>1, <2>2, <2>3 DEF LocalsOK
<1>11. ASSUME NEW w \in Workers, Restore(w) PROVE TypeOK' /\ LocalsOK'
  <2>1. TypeOK'
    <3>1. PICK c \in todo[w] : /\ executed' = [executed EXCEPT ![c] = Restored(cell[w], c)]
                               /\ todo' = [todo EXCEPT ![w] = @ \ {c}]
      BY <1>11 DEF Restore
    <3>2. cell[w] \in Exits(wpo) /\ c \in DOMAIN wpo.outer[cell[w]]
      BY <1>11, <1>w DEF Restore, LocalsOK, LocalOK
    <3>3. Restored(cell[w], c) \in Nat
      BY <1>w, <3>2, OuterFacts DEF Restored
    <3>4. executed' \in [Cell -> Nat] /\ todo' \in [Workers -> SUBSET Cell]
      BY <1>w, <3>1, <3>3 DEF TypeOK
    <3> QED  BY <1>11, <1>k, <3>4 DEF Restore, TypeOK, input, data, task
  <2>2. ASSUME NEW v \in Workers, v # w PROVE LocalOK(v)'
    BY <1>11, <1>k, <1>d, <2>2 DEF Restore, LocalsOK, LocalOK, task, Type, Succ
  <2>3. LocalOK(w)'
    BY <1>11, <1>k, <1>o, <1>d DEF Restore, LocalsOK, LocalOK, task, Type, Succ, Restored
  <2> QED  BY <2>1, <2>2, <2>3 DEF LocalsOK
<1>12. ASSUME NEW w \in Workers, RunHead(w) PROVE TypeOK' /\ LocalsOK'
  <2>1. TypeOK'
    <3>1. cur[w] \in Cell /\ BeginRule(w, cur[w])
      BY <1>12, <1>d DEF RunHead
    <3> QED  BY <1>12, <1>k, <1>t, <3>1, BeginRuleEffect DEF RunHead, TypeOK, input, data
  <2>2. cur[w] \in Cell /\ BeginRule(w, cur[w])
    BY <1>12, <1>d DEF RunHead
  <2>3. ASSUME NEW v \in Workers, v # w PROVE LocalOK(v)'
    BY <1>12, <1>k, <1>d, <1>t, <2>2, <2>3, BeginRuleEffect DEF RunHead, LocalsOK, LocalOK, Type, Succ
  <2>4. Type(cur[w]) = "head"
    BY <1>12, <1>k, <1>d, <1>o DEF RunHead, LocalsOK, LocalOK, Exits, Type
  <2>5. /\ cur'[w] = cur[w] /\ todo'[w] = {}
        /\ pc'[w] \in {"read", "analyze"}
    BY <1>12, <1>d, <1>t, <1>k, <2>2, BeginRuleEffect DEF RunHead
  <2>6. LocalOK(w)'
    BY <1>k, <2>4, <2>5 DEF LocalOK, Type, Succ
  <2> QED  BY <2>1, <2>3, <2>6 DEF LocalsOK
<1>13. ASSUME Finish PROVE TypeOK' /\ LocalsOK'
  BY <1>13, <1>k DEF Finish, TypeOK, LocalsOK, LocalOK, input, data, task, Succ, Type
<1>14. ASSUME UNCHANGED vars PROVE TypeOK' /\ LocalsOK'
  BY <1>14, <1>k DEF vars, TypeOK, LocalsOK, LocalOK, input, data, task, Succ, Type
<1> QED
  BY <1>f, <1>1, <1>2, <1>3, <1>4, <1>5, <1>6, <1>7, <1>8, <1>9, <1>10, <1>11, <1>12, <1>13, <1>14
     DEF TypeInv, Next, Work

(* Type correctness of the concurrent iterator: every value in the tables,  *)
(* in the cells and in the locals of the workers is of its type, and the    *)
(* counter that set_executed_control_preds_for_component restores is one    *)
(* that the exit knows.                                                     *)
THEOREM TypeCorrect == Spec => []TypeOK
<1>1. Init => TypeInv
  BY InitTypeInv
<1>2. TypeInv /\ [Next]_vars => TypeInv'
  BY TypeInvStep
<1>3. TypeInv => TypeOK
  BY DEF TypeInv
<1> QED  BY <1>1, <1>2, <1>3, PTL DEF Spec
------------------------------------------------------------------------------

(* The shape of a component, in the terms of the iterator.                  *)
LEMMA ExitFacts ==
  ASSUME InputFixed, NEW x \in Exits(wpo)
  PROVE  /\ Comp(x) \subseteq Cell /\ x \in Comp(x)
         /\ HeadOfExit(x) \in Comp(x) /\ HeadOfExit(x) # x
         /\ Type(x) = "exit" /\ Type(HeadOfExit(x)) = "head"
         /\ Pred(HeadOfExit(x)) \cap Comp(x) = {}
         /\ \A c \in Comp(x) \ {HeadOfExit(x)} : Pred(c) \cap Comp(x) # {}
         /\ \A c \in Comp(x) \ {x} : Succ(c) \subseteq Comp(x)
         /\ \A c \in Comp(x) \ {x} : \A d \in Cell : c \in Pred(d) => d \in Comp(x)
<1>1. WellFormed(wpo, cfg)
  BY OrderWellFormed
<1>2. \A c, d \in Cell : c \in Pred(d) => d \in Succ(c)
  BY <1>1, ConstraintFacts DEF Cell, Pred, Succ
<1>3. Comp(x) \subseteq Cell
  BY <1>1, ComponentFacts DEF Comp, Cell
<1>4. \A c \in Comp(x) \ {x} : Succ(c) \subseteq Comp(x)
  BY <1>1, ComponentFacts DEF Comp, Succ
<1>5. \A c \in Comp(x) \ {x} : \A d \in Cell : c \in Pred(d) => d \in Comp(x)
  BY <1>2, <1>3, <1>4
<1> QED  BY <1>1, <1>3, <1>4, <1>5, ComponentFacts DEF Comp, Cell, Type, Pred

(* The counters that a repeated component restores.                         *)
LEMMA RestoredFacts ==
  ASSUME InputFixed, NEW x \in Exits(wpo)
  PROVE  /\ DOMAIN wpo.outer[x] \subseteq Comp(x)
         /\ \A c \in Comp(x) \ DOMAIN wpo.outer[x] : Pred(c) \subseteq Comp(x)
         /\ \A c \in DOMAIN wpo.outer[x] : Restored(x, c) = Cardinality(Pred(c) \ Comp(x))
  BY OrderWellFormed, OuterFacts DEF Comp, Pred, Restored

(* The constraints link cells.                                              *)
LEMMA PredFacts ==
  ASSUME InputFixed
  PROVE  /\ \A c \in Cell : Pred(c) \subseteq Cell /\ Succ(c) \subseteq Cell
         /\ \A c, s \in Cell : s \in Succ(c) <=> c \in Pred(s)
         /\ \A c \in Cell : /\ IsFiniteSet(Pred(c))
                            /\ NumPreds(wpo, c) = Cardinality(Pred(c))
                            /\ NumPreds(wpo, c) \in Nat
  BY OrderWellFormed, ConstraintFacts, PredsFinite DEF Cell, Pred, Succ, NumPreds

(* When an exit may run, the rest of its component has run and is at rest:  *)
(* nobody has any of its cells, or is to tell one of them, or is to tell    *)
(* something on behalf of one of them.                                      *)
LEMMA ExitAlone ==
  ASSUME SchedulerInv, NEW x \in Exits(wpo), Active(x) \/ x \in done
  PROVE  /\ Pred(x) \subseteq done
         /\ Comp(x) \ {x} \subseteq done
         /\ \A c \in Comp(x) \ {x} : ~ Active(c)
         /\ \A v \in Workers : \A c \in Comp(x) \ {x} : pc[v] = "loop" => c \notin todo[v]
         /\ Active(x) => \A v \in Workers : pc[v] = "loop" /\ cur[v] \in Comp(x) => todo[v] = {}
<1>1. InputFixed /\ DoneClosed /\ ActiveReady /\ PendingOnce /\ LocalsOK /\ done \in SUBSET Cell
  BY DEF SchedulerInv, TypeOK
<1>2. x \in Cell
  BY DEF Exits, Cell
<1>3. Pred(x) \subseteq done
  <2>1. CASE Active(x)
    BY <2>1, <1>1, <1>2 DEF ActiveReady, Notified
  <2>2. CASE x \in done
    BY <2>2, <1>1 DEF DoneClosed
  <2> QED  BY <2>1, <2>2
<1>4. Comp(x) \ {x} \subseteq done
  <2>1. \A c \in done : wpo.pred[c] \subseteq done
    BY <1>1 DEF DoneClosed, Pred
  <2> QED  BY <1>1, <1>3, <2>1, OrderWellFormed, ComponentBeforeExit DEF Pred, Comp, Cell
<1>5. \A c \in Comp(x) \ {x} : ~ Active(c)
  BY <1>1, <1>4 DEF ActiveReady
<1>6. \A v \in Workers : \A c \in Comp(x) \ {x} : pc[v] = "loop" => c \notin todo[v]
  BY <1>1, <1>4 DEF PendingOnce
<1>7. ASSUME Active(x), NEW v \in Workers, pc[v] = "loop", cur[v] \in Comp(x) PROVE todo[v] = {}
  <2>1. SUFFICES ASSUME todo[v] # {} PROVE FALSE
    OBVIOUS
  <2>2. cur[v] \in done /\ \A s \in todo[v] : s \notin done /\ ~ Active(s)
    BY <2>1, <1>1, <1>7 DEF PendingOnce
  <2>3. x \notin done
    BY <1>1, <1>2, <1>7 DEF ActiveReady
  <2>4. todo[v] \subseteq Succ(cur[v])
    BY <1>1, <1>7 DEF LocalsOK, LocalOK
  <2>5. todo[v] \subseteq Comp(x)
    BY <1>1, <1>7, <2>2, <2>3, <2>4, ExitFacts
  <2>6. todo[v] \subseteq {x}
    BY <1>4, <2>2, <2>5
  <2> QED  BY <1>7, <2>1, <2>2, <2>6
<1> QED  BY <1>3, <1>4, <1>5, <1>6, <1>7

(* The part of the invariant that relates what runs, what has run and the   *)
(* counters.                                                                *)
OrderInv == DoneClosed /\ ActiveReady /\ PendingOnce /\ ComponentQuiet /\ CountersExact

(* A step that neither schedules nor completes a cell, and that tells or    *)
(* restores nothing, keeps it.                                              *)
LEMMA SameSchedule ==
  ASSUME TypeInv, OrderInv, wpo' = wpo, Cell' = Cell,
         done' = done, executed' = executed,
         \A c \in Cell : Active(c)' <=> Active(c),
         \A v \in Workers :
           /\ pc'[v] = "loop" /\ todo'[v] # {} <=> pc[v] = "loop" /\ todo[v] # {}
           /\ pc[v] = "loop" /\ todo[v] # {} => todo'[v] = todo[v] /\ cur'[v] = cur[v]
           /\ pc'[v] = "restore" => pc[v] = "restore" /\ cell'[v] = cell[v],
         \A c \in Cell : Restoring(c)' <=> Restoring(c)
  PROVE  OrderInv'
<1>1. \A c \in Cell : Pred(c)' = Pred(c) /\ Succ(c)' = Succ(c)
  BY DEF Pred, Succ
<1>2. \A x : Comp(x)' = Comp(x)
  BY DEF Comp
<1>3. \A v \in Workers : \A u, c : Pending(v, u, c)' <=> Pending(v, u, c)
  BY DEF Pending
<1>4. \A c \in Cell : Notified(c)' = Notified(c)
  BY <1>1, <1>3 DEF Notified
<1>5. DoneClosed'
  BY DEF OrderInv, DoneClosed, Pred
<1>6. ActiveReady'
  BY <1>1, <1>4 DEF OrderInv, ActiveReady
<1>7. PendingOnce'
  <2>1. ASSUME NEW v \in Workers, pc'[v] = "loop", NEW s \in todo'[v]
        PROVE  s \notin done' /\ ~ Active(s)'
    <3>1. pc[v] = "loop" /\ s \in todo[v]
      BY <2>1
    <3>2. s \in Cell
      BY <3>1 DEF TypeInv, TypeOK
    <3> QED  BY <3>1, <3>2 DEF OrderInv, PendingOnce
  <2> QED  BY <2>1 DEF OrderInv, PendingOnce
<1>8. ComponentQuiet'
  <2> SUFFICES ASSUME NEW w \in Workers, pc'[w] = "restore", NEW c \in Comp(cell'[w])
      PROVE  /\ c \notin done
             /\ c # HeadOfExit(cell'[w]) => ~ Active(c)'
             /\ Pred(c) \ Comp(cell'[w]) \subseteq done
             /\ \A v \in Workers : pc'[v] = "loop" => c \notin todo'[v]
    BY <1>1, <1>2 DEF ComponentQuiet, Pred, Comp
  <2>1. pc[w] = "restore" /\ cell'[w] = cell[w]
    OBVIOUS
  <2>2. c \in Cell
    BY <2>1, ExitFacts DEF TypeInv, LocalsOK, LocalOK
  <2> QED  BY <2>1, <2>2 DEF OrderInv, ComponentQuiet
<1>9. CountersExact'
  BY <1>1, <1>4 DEF OrderInv, CountersExact
<1> QED  BY <1>5, <1>6, <1>7, <1>8, <1>9 DEF OrderInv

(* Sequences without repetition: the worklists.                             *)
Occurs(q, c) == \E i \in 1..Len(q) : q[i] = c
Once(q) == \A i, j \in 1..Len(q) : q[i] = q[j] => i = j

(* An empty worklist holds no cell.                                         *)
LEMMA OccursEmpty ==
  ASSUME NEW c PROVE ~ Occurs(<<>>, c) /\ Once(<<>>)
  BY DEF Occurs, Once

(* A worklist of one cell holds that cell, once.                            *)
LEMMA OccursSingle ==
  ASSUME NEW d PROVE (\A c : Occurs(<<d>>, c) <=> c = d) /\ Once(<<d>>)
  BY DEF Occurs, Once

(* What is popped from a worklist without repetition is gone.               *)
LEMMA OccursTail ==
  ASSUME NEW S, NEW q \in Seq(S), q # <<>>, Once(q)
  PROVE  /\ Occurs(q, Head(q)) /\ ~ Occurs(Tail(q), Head(q))
         /\ \A c : Occurs(q, c) <=> c = Head(q) \/ Occurs(Tail(q), c)
         /\ Once(Tail(q))
<1>1. /\ Len(q) \in Nat /\ Len(q) >= 1 /\ Head(q) = q[1]
      /\ Len(Tail(q)) = Len(q) - 1
      /\ \A i \in 1..Len(Tail(q)) : Tail(q)[i] = q[i + 1]
  BY HeadTailProperties, LenProperties, EmptySeq
<1>2. ~ Occurs(Tail(q), Head(q))
  BY <1>1 DEF Occurs, Once
<1>3. Occurs(q, Head(q))
  BY <1>1 DEF Occurs
<1>4. ASSUME NEW c, Occurs(q, c), c # Head(q) PROVE Occurs(Tail(q), c)
  <2>1. PICK i \in 1..Len(q) : q[i] = c
    BY <1>4 DEF Occurs
  <2>2. i - 1 \in 1..Len(Tail(q)) /\ Tail(q)[i - 1] = q[(i - 1) + 1] /\ (i - 1) + 1 = i
    BY <1>1, <1>4, <2>1
  <2> QED  BY <2>1, <2>2 DEF Occurs
<1>5. ASSUME NEW c, Occurs(Tail(q), c) PROVE Occurs(q, c)
  <2>1. PICK i \in 1..Len(Tail(q)) : Tail(q)[i] = c
    BY <1>5 DEF Occurs
  <2>2. i + 1 \in 1..Len(q) /\ q[i + 1] = c
    BY <1>1, <2>1
  <2> QED  BY <2>2 DEF Occurs
<1>6. Once(Tail(q))
  <2>1. SUFFICES ASSUME NEW i \in 1..Len(Tail(q)), NEW j \in 1..Len(Tail(q)), Tail(q)[i] = Tail(q)[j]
                 PROVE  i = j
    BY DEF Once
  <2>2. i + 1 \in 1..Len(q) /\ j + 1 \in 1..Len(q) /\ q[i + 1] = q[j + 1]
    BY <1>1, <2>1
  <2>3. i + 1 = j + 1
    BY <2>2 DEF Once
  <2> QED  BY <2>3
<1> QED  BY <1>2, <1>3, <1>4, <1>5, <1>6

(* A cell that is not on the worklist can be appended.                      *)
LEMMA OccursAppend ==
  ASSUME NEW S, NEW q \in Seq(S), NEW d \in S, ~ Occurs(q, d), Once(q)
  PROVE  /\ \A c : Occurs(Append(q, d), c) <=> c = d \/ Occurs(q, c)
         /\ Once(Append(q, d))
<1>1. /\ Len(q) \in Nat /\ Len(Append(q, d)) = Len(q) + 1
      /\ \A i \in 1..Len(q) : Append(q, d)[i] = q[i]
      /\ Append(q, d)[Len(q) + 1] = d
  BY AppendProperties, LenProperties
<1>2. \A c : Occurs(Append(q, d), c) <=> c = d \/ Occurs(q, c)
  BY <1>1 DEF Occurs
<1>3. Once(Append(q, d))
  BY <1>1 DEF Occurs, Once
<1> QED  BY <1>2, <1>3

(* A step that moves no cell keeps it so.                                   *)
LEMMA ExclusiveSame ==
  ASSUME Exclusive, Cell' = Cell, wl' = wl, pool' = pool,
         \A v \in Workers : \A c \in Cell : Runs(v, c)' => Runs(v, c)
  PROVE  Exclusive'
<1>1. \A v \in Workers : \A c \in Cell : Waits(v, c)' <=> Waits(v, c)
  BY DEF Waits
<1>2. \A v \in Workers : \A c \in Cell : Holds(v, c)' => Holds(v, c)
  BY <1>1 DEF Holds
<1> QED  BY <1>1, <1>2 DEF Exclusive

(* What concerns the loops and the end changes with few steps.              *)
LEMMA FreshSame ==
  ASSUME LoopsFresh, wpo' = wpo, kind' = kind, count' = count,
         \A x \in Exits(wpo) : x \in done' => x \in done,
         \A v \in Workers : pc'[v] = "reset" /\ cur'[v] \in Exits(wpo) =>
           pc[v] = "reset" /\ cur'[v] = cur[v]
  PROVE  LoopsFresh'
  BY DEF LoopsFresh

(* As long as there is a task or a worker at work, parallel_do goes on.     *)
LEMMA QuietSame ==
  ASSUME TypeOK, FinishedQuiet, finished' = finished,
         \/ \E w \in Workers : pc[w] # "idle"
         \/ \E c \in Cell : pool[c] > 0
  PROVE  FinishedQuiet'
<1>1. ~ finished
  BY DEF FinishedQuiet
<1> QED  BY <1>1 DEF FinishedQuiet

(* The parts of the invariant that relate several workers or cells.         *)
RestInv == OrderInv /\ Exclusive /\ LoopsFresh /\ FinishedQuiet

(* The invariant is about each worker alone, and about their relation.      *)
LEMMA InvParts == SchedulerInv <=> TypeInv /\ RestInv
  BY DEF SchedulerInv, TypeInv, RestInv, OrderInv

(* The steps inside of a rule: Read, SetPre, Analyze and Check.             *)
LEMMA InRule ==
  ASSUME SchedulerInv, TypeInv', NEW w \in Workers, pc[w] \in {"read", "analyze"},
         pc' = [pc EXCEPT ![w] = pc'[w]], pc'[w] \in {"read", "analyze", "reset", "unstable"},
         wpo' = wpo, Cell' = Cell, finished' = finished,
         UNCHANGED <<executed, pool, wl, cell, cur, todo, done>>
  PROVE  /\ OrderInv' /\ Exclusive' /\ FinishedQuiet'
         /\ \A c \in Cell : Active(c)' <=> Active(c)
<1>1. TypeInv /\ OrderInv /\ Exclusive /\ FinishedQuiet /\ TypeOK /\ TypeOK' /\ InputFixed
  BY InvParts DEF RestInv, TypeInv
<1>2. pc \in [Workers -> RulePcs \cup {"idle", "loop"}]
  BY <1>1 DEF TypeOK
<1>3. \A v \in Workers : v # w => pc'[v] = pc[v]
  BY <1>2
<1>4. {"read", "analyze", "reset", "unstable"} \subseteq RulePcs
  BY DEF RulePcs
<1>5. \A v \in Workers : \A c : Runs(v, c)' <=> Runs(v, c)
  BY <1>3, <1>4 DEF Runs
<1>6. \A v \in Workers : \A c : Waits(v, c)' <=> Waits(v, c)
  BY DEF Waits
<1>7. \A c \in Cell : Active(c)' <=> Active(c)
  BY <1>5, <1>6 DEF Active, Holds
<1>8. \A c \in Cell : Restoring(c)' <=> Restoring(c)
  BY <1>3 DEF Restoring
<1>9. OrderInv'
  BY <1>1, <1>3, <1>7, <1>8, SameSchedule
<1>10. Exclusive'
  BY <1>1, <1>5, ExclusiveSame
<1>11. FinishedQuiet'
  BY <1>1, QuietSame
<1> QED  BY <1>7, <1>9, <1>10, <1>11

(* A worker that gets a task holds its cell from then on.                   *)
LEMMA TakeStep ==
  ASSUME SchedulerInv, TypeInv', NEW w \in Workers, Take(w), wpo' = wpo, Cell' = Cell
  PROVE  RestInv' /\ \A c \in Cell : Active(c)' <=> Active(c)
<1>1. TypeInv /\ RestInv /\ TypeOK /\ TypeOK' /\ InputFixed
  BY InvParts DEF TypeInv
<1>2. PICK d \in Cell :
        /\ pool[d] > 0
        /\ pool' = [pool EXCEPT ![d] = @ - 1]
        /\ wl' = [wl EXCEPT ![w] = <<d>>]
  BY DEF Take
<1>3. /\ pc[w] = "idle" /\ pc' = [pc EXCEPT ![w] = "loop"]
      /\ UNCHANGED <<executed, cell, cur, todo, finished, done, kind, count>>
  BY DEF Take, data
<1>4. /\ pc \in [Workers -> RulePcs \cup {"idle", "loop"}] /\ wl \in [Workers -> Seq(Cell)]
      /\ pool \in [Cell -> Nat]
  BY <1>1 DEF TypeOK
<1>5. wl[w] = <<>> /\ todo[w] = {}
  BY <1>1, <1>3 DEF TypeInv, LocalsOK, LocalOK
<1>6. pool[d] = 1 /\ pool'[d] = 0 /\ \A c \in Cell : c # d => pool'[c] = pool[c]
  <2>1. pool[d] <= 1
    BY <1>1, <1>2 DEF RestInv, Exclusive
  <2> QED  BY <1>2, <1>4, <2>1
<1>7. /\ \A v \in Workers : \A c : Runs(v, c)' <=> Runs(v, c)
      /\ \A c : ~ Runs(w, c) /\ (Waits(w, c)' <=> c = d) /\ ~ Waits(w, c)
      /\ \A v \in Workers : v # w => \A c : Waits(v, c)' <=> Waits(v, c)
      /\ Once(wl'[w])
  <2>1. ~ "loop" \in RulePcs /\ ~ "idle" \in RulePcs
    BY DEF RulePcs
  <2>2. \A c : ~ Runs(w, c) /\ ~ Runs(w, c)'
    BY <1>3, <1>4, <2>1 DEF Runs
  <2>3. \A v \in Workers : v # w => \A c : Runs(v, c)' <=> Runs(v, c)
    BY <1>3, <1>4 DEF Runs
  <2>4. wl'[w] = <<d>>
    BY <1>2, <1>4
  <2>5. \A c : (Waits(w, c)' <=> c = d) /\ ~ Waits(w, c)
    BY <1>5, <2>4, OccursSingle, OccursEmpty DEF Waits, Occurs
  <2>6. Once(wl'[w])
    BY <2>4, OccursSingle
  <2>7. \A v \in Workers : v # w => \A c : Waits(v, c)' <=> Waits(v, c)
    BY <1>2, <1>4 DEF Waits
  <2> QED  BY <2>2, <2>3, <2>5, <2>6, <2>7
<1>8. \A v \in Workers : ~ Holds(v, d)
  BY <1>1, <1>6 DEF RestInv, Exclusive
<1>9. \A c \in Cell : Active(c)' <=> Active(c)
  <2>1. ASSUME NEW c \in Cell, c # d PROVE Active(c)' <=> Active(c)
    BY <1>6, <1>7, <2>1 DEF Active, Holds
  <2>2. Active(d) /\ Active(d)'
    BY <1>2, <1>7 DEF Active, Holds
  <2> QED  BY <2>1, <2>2
<1>10. \A c \in Cell : Restoring(c)' <=> Restoring(c)
  BY <1>3, <1>4 DEF Restoring
<1>11. OrderInv'
  <2>1. \A v \in Workers : v # w => pc'[v] = pc[v]
    BY <1>3, <1>4
  <2>2. pc'[w] = "loop"
    BY <1>3, <1>4
  <2> QED  BY <1>1, <1>3, <1>5, <1>9, <1>10, <2>1, <2>2, SameSchedule DEF RestInv
<1>12. Exclusive'
  <2>1. \A v \in Workers : v # w => wl'[v] = wl[v]
    BY <1>2, <1>4
  <2>2. \A v \in Workers : Once(wl'[v])
    BY <1>1, <1>7, <2>1 DEF RestInv, Exclusive, Once
  <2>3. \A v \in Workers : \A c \in Cell : Holds(v, c)' <=> Holds(v, c) \/ (v = w /\ c = d)
    BY <1>7 DEF Holds
  <2>4. \A c \in Cell : pool'[c] <= 1 /\ (pool[c] = 0 => pool'[c] = 0)
    BY <1>1, <1>6 DEF RestInv, Exclusive
  <2>5. \A c \in Cell : \A v \in Workers :
          /\ Holds(v, c)' => pool'[c] = 0
          /\ \A u \in Workers : Holds(v, c)' /\ Holds(u, c)' => u = v
          /\ Runs(v, c)' => ~ Waits(v, c)'
    BY <1>1, <1>6, <1>7, <1>8, <2>3, <2>4 DEF RestInv, Exclusive
  <2> QED  BY <2>2, <2>4, <2>5 DEF Exclusive, Once
<1>13. LoopsFresh'
  BY <1>1, <1>3, <1>4, FreshSame DEF RestInv
<1>14. FinishedQuiet'
  BY <1>1, <1>2, <1>3, QuietSame DEF RestInv
<1> QED  BY <1>9, <1>11, <1>12, <1>13, <1>14 DEF RestInv

(* A worker whose worklist is empty holds nothing.                          *)
LEMMA EndTaskStep ==
  ASSUME SchedulerInv, TypeInv', NEW w \in Workers, EndTask(w), wpo' = wpo, Cell' = Cell
  PROVE  RestInv' /\ \A c \in Cell : Active(c)' <=> Active(c)
<1>1. TypeInv /\ RestInv /\ TypeOK /\ InputFixed
  BY InvParts DEF TypeInv
<1>2. /\ pc[w] = "loop" /\ todo[w] = {} /\ pc' = [pc EXCEPT ![w] = "idle"]
      /\ cur' = [cur EXCEPT ![w] = NoCell] /\ cell' = [cell EXCEPT ![w] = NoCell]
      /\ UNCHANGED <<executed, pool, wl, todo, finished, done, kind, count>>
  BY DEF EndTask, data
<1>3. /\ pc \in [Workers -> RulePcs \cup {"idle", "loop"}]
      /\ cur \in [Workers -> Cell] /\ cell \in [Workers -> Cell]
  BY <1>1 DEF TypeOK
<1>4. /\ pc'[w] = "idle"
      /\ \A v \in Workers : v # w => pc'[v] = pc[v] /\ cur'[v] = cur[v] /\ cell'[v] = cell[v]
  BY <1>2, <1>3
<1>5. \A v \in Workers : \A c : Runs(v, c)' <=> Runs(v, c)
  <2>1. ~ "loop" \in RulePcs /\ ~ "idle" \in RulePcs
    BY DEF RulePcs
  <2> QED  BY <1>2, <1>4, <2>1 DEF Runs
<1>6. \A v \in Workers : \A c : Waits(v, c)' <=> Waits(v, c)
  BY <1>2 DEF Waits
<1>7. \A c \in Cell : Active(c)' <=> Active(c)
  BY <1>2, <1>5, <1>6 DEF Active, Holds
<1>8. \A c \in Cell : Restoring(c)' <=> Restoring(c)
  BY <1>2, <1>4 DEF Restoring
<1>9. OrderInv'
  BY <1>1, <1>2, <1>4, <1>7, <1>8, SameSchedule DEF RestInv
<1>10. Exclusive'
  BY <1>1, <1>2, <1>5, ExclusiveSame DEF RestInv
<1>11. LoopsFresh'
  BY <1>1, <1>2, <1>4, FreshSame DEF RestInv
<1>12. FinishedQuiet'
  BY <1>1, <1>2, QuietSame DEF RestInv
<1> QED  BY <1>7, <1>9, <1>10, <1>11, <1>12 DEF RestInv

(* The cell that waited first runs.                                         *)
LEMMA PopStep ==
  ASSUME SchedulerInv, TypeInv', NEW w \in Workers, Pop(w), wpo' = wpo, Cell' = Cell
  PROVE  RestInv' /\ \A c \in Cell : Active(c)' <=> Active(c)
<1>1. TypeInv /\ RestInv /\ TypeOK /\ InputFixed
  BY InvParts DEF TypeInv
<1>d. PICK d : d = Head(wl[w])
  OBVIOUS
<1>2. /\ pc[w] = "loop" /\ todo[w] = {} /\ wl[w] # <<>>
      /\ wl' = [wl EXCEPT ![w] = Tail(@)]
      /\ cell' = [cell EXCEPT ![w] = d]
      /\ BeginRule(w, d)
      /\ UNCHANGED <<executed, pool, todo, finished, done, kind, count>>
  BY <1>d DEF Pop, data
<1>3. /\ pc \in [Workers -> RulePcs \cup {"idle", "loop"}]
      /\ wl \in [Workers -> Seq(Cell)] /\ cell \in [Workers -> Cell]
  BY <1>1 DEF TypeOK
<1>4. Once(wl[w])
  BY <1>1 DEF RestInv, Exclusive, Once
<1>5. d \in Cell /\ Block(d) \in cfg.node
  <2>1. d \in Cell
    BY <1>d, <1>2, <1>3, HeadTailProperties
  <2> QED  BY <2>1, <1>1, OrderWellFormed, CellFacts DEF Cell, Block
<1>6. /\ cur'[w] = d /\ pc'[w] \in {"read", "analyze"}
      /\ \A v \in Workers : v # w => pc'[v] = pc[v] /\ cur'[v] = cur[v]
  BY <1>1, <1>2, <1>5, BeginRuleEffect
<1>7. \A v \in Workers : v # w => cell'[v] = cell[v] /\ wl'[v] = wl[v]
  BY <1>2, <1>3
<1>8. /\ \A c : ~ Runs(w, c) /\ (Runs(w, c)' <=> c = d)
      /\ \A v \in Workers : v # w => \A c : Runs(v, c)' <=> Runs(v, c)
  <2>1. ~ "loop" \in RulePcs /\ "read" \in RulePcs /\ "analyze" \in RulePcs
    BY DEF RulePcs
  <2> QED  BY <1>2, <1>6, <2>1 DEF Runs
<1>9. /\ Waits(w, d) /\ ~ Waits(w, d)'
      /\ \A c : Waits(w, c) <=> c = d \/ Waits(w, c)'
      /\ \A v \in Workers : v # w => \A c : Waits(v, c)' <=> Waits(v, c)
      /\ Once(wl'[w])
  <2>1. wl'[w] = Tail(wl[w]) /\ wl[w] \in Seq(Cell)
    BY <1>2, <1>3
  <2>2. /\ Occurs(wl[w], d) /\ ~ Occurs(wl'[w], d)
        /\ \A c : Occurs(wl[w], c) <=> c = d \/ Occurs(wl'[w], c)
        /\ Once(wl'[w])
    BY <1>d, <1>2, <1>4, <2>1, OccursTail
  <2>3. \A c : (Waits(w, c) <=> Occurs(wl[w], c)) /\ (Waits(w, c)' <=> Occurs(wl'[w], c))
    BY DEF Waits, Occurs
  <2>4. \A v \in Workers : v # w => \A c : Waits(v, c)' <=> Waits(v, c)
    BY <1>7 DEF Waits
  <2> QED  BY <2>2, <2>3, <2>4
<1>10. \A v \in Workers : \A c \in Cell : Holds(v, c)' <=> Holds(v, c)
  BY <1>8, <1>9 DEF Holds
<1>11. \A c \in Cell : Active(c)' <=> Active(c)
  BY <1>2, <1>10 DEF Active
<1>12. \A c \in Cell : Restoring(c)' <=> Restoring(c)
  BY <1>2, <1>6 DEF Restoring
<1>13. OrderInv'
  BY <1>1, <1>2, <1>6, <1>7, <1>11, <1>12, SameSchedule DEF RestInv
<1>14. Exclusive'
  <2>1. \A v \in Workers : Once(wl'[v])
    BY <1>1, <1>7, <1>9 DEF RestInv, Exclusive, Once
  <2>2. \A c \in Cell : \A v \in Workers : Runs(v, c)' => ~ Waits(v, c)'
    BY <1>1, <1>8, <1>9 DEF RestInv, Exclusive
  <2> QED  BY <1>1, <1>2, <1>10, <2>1, <2>2 DEF RestInv, Exclusive, Once
<1>15. LoopsFresh'
  BY <1>1, <1>2, <1>6, FreshSame DEF RestInv
<1>16. FinishedQuiet'
  BY <1>1, <1>2, QuietSame DEF RestInv
<1> QED  BY <1>11, <1>13, <1>14, <1>15, <1>16 DEF RestInv

(* When the counters are restored, the head runs.                           *)
LEMMA RunHeadStep ==
  ASSUME SchedulerInv, TypeInv', NEW w \in Workers, RunHead(w), wpo' = wpo, Cell' = Cell
  PROVE  RestInv' /\ \A c \in Cell : Active(c)' <=> Active(c)
<1>1. TypeInv /\ RestInv /\ TypeOK /\ InputFixed
  BY InvParts DEF TypeInv
<1>2. /\ pc[w] = "restore" /\ todo[w] = {} /\ BeginRule(w, cur[w])
      /\ UNCHANGED <<executed, pool, wl, cell, todo, finished, done, kind, count>>
  BY DEF RunHead, data
<1>3. cur[w] \in Cell /\ Block(cur[w]) \in cfg.node
  <2>1. cur[w] \in Cell
    BY <1>1 DEF TypeOK
  <2> QED  BY <2>1, <1>1, OrderWellFormed, CellFacts DEF Cell, Block
<1>4. /\ cur'[w] = cur[w] /\ pc'[w] \in {"read", "analyze"}
      /\ \A v \in Workers : v # w => pc'[v] = pc[v] /\ cur'[v] = cur[v]
  BY <1>1, <1>2, <1>3, BeginRuleEffect
<1>5. \A v \in Workers : \A c : Runs(v, c)' <=> Runs(v, c)
  <2>1. "restore" \in RulePcs /\ "read" \in RulePcs /\ "analyze" \in RulePcs
    BY DEF RulePcs
  <2> QED  BY <1>2, <1>4, <2>1 DEF Runs
<1>6. \A v \in Workers : \A c : Waits(v, c)' <=> Waits(v, c)
  BY <1>2 DEF Waits
<1>7. \A c \in Cell : Active(c)' <=> Active(c)
  BY <1>2, <1>5, <1>6 DEF Active, Holds
<1>8. \A c \in Cell : Restoring(c)' <=> Restoring(c)
  BY <1>2, <1>4 DEF Restoring
<1>9. OrderInv'
  BY <1>1, <1>2, <1>4, <1>7, <1>8, SameSchedule DEF RestInv
<1>10. Exclusive'
  BY <1>1, <1>2, <1>5, ExclusiveSame DEF RestInv
<1>11. LoopsFresh'
  BY <1>1, <1>2, <1>4, FreshSame DEF RestInv
<1>12. FinishedQuiet'
  BY <1>1, <1>2, QuietSame DEF RestInv
<1> QED  BY <1>7, <1>9, <1>10, <1>11, <1>12 DEF RestInv

(* A rule reads a predecessor, or analyzes its block.                       *)
LEMMA ReadAnalyzeStep ==
  ASSUME SchedulerInv, TypeInv', NEW w \in Workers, Read(w) \/ Analyze(w),
         wpo' = wpo, Cell' = Cell
  PROVE  RestInv' /\ \A c \in Cell : Active(c)' <=> Active(c)
<1>1. TypeInv /\ RestInv /\ TypeOK /\ InputFixed
  BY InvParts DEF TypeInv
<1>2. pc \in [Workers -> RulePcs \cup {"idle", "loop"}] /\ cur \in [Workers -> Cell]
  BY <1>1 DEF TypeOK
<1>3. /\ pc[w] \in {"read", "analyze"}
      /\ pc' = [pc EXCEPT ![w] = pc'[w]]
      /\ pc'[w] \in {"read", "analyze", "reset", "unstable"}
      /\ UNCHANGED <<executed, pool, wl, cell, cur, todo, done, kind, count, finished>>
      /\ pc'[w] = "reset" => pc[w] = "analyze"
  BY <1>2 DEF Read, Analyze, task, data
<1>4. /\ OrderInv' /\ Exclusive' /\ FinishedQuiet'
      /\ \A c \in Cell : Active(c)' <=> Active(c)
  BY <1>3, InRule
<1>5. LoopsFresh'
  <2>1. \A v \in Workers : v # w => pc'[v] = pc[v]
    BY <1>2, <1>3
  <2>2. pc[w] = "analyze" => Type(cur[w]) # "exit"
    BY <1>1 DEF TypeInv, LocalsOK, LocalOK
  <2>3. \A x \in Exits(wpo) : Type(x) = "exit"
    BY DEF Exits, Type
  <2> QED  BY <1>1, <1>3, <2>1, <2>2, <2>3, FreshSame DEF RestInv
<1> QED  BY <1>4, <1>5 DEF RestInv

(* Two exits have different heads.                                          *)
LEMMA HeadsDiffer ==
  ASSUME InputFixed, NEW x \in Exits(wpo), NEW y \in Exits(wpo), HeadOfExit(x) = HeadOfExit(y)
  PROVE  x = y
  BY OrderWellFormed, CellFacts DEF HeadOfExit, Exits

(* A head that runs has entered its loop: the exit has not run since.       *)
LEMMA SetPreStep ==
  ASSUME SchedulerInv, TypeInv', NEW w \in Workers, SetPre(w), wpo' = wpo, Cell' = Cell
  PROVE  RestInv' /\ \A c \in Cell : Active(c)' <=> Active(c)
<1>1. TypeInv /\ RestInv /\ TypeOK /\ InputFixed
  BY InvParts DEF TypeInv
<1>2. /\ pc \in [Workers -> RulePcs \cup {"idle", "loop"}] /\ cur \in [Workers -> Cell]
      /\ count \in [Cell -> 0..LaterIteration]
  BY <1>1 DEF TypeOK
<1>3. /\ pc[w] = "read" /\ pc' = [pc EXCEPT ![w] = "analyze"]
      /\ count' = [count EXCEPT ![cur[w]] = IF Type(cur[w]) = "head" THEN 1 ELSE @]
      /\ UNCHANGED <<executed, pool, wl, cell, cur, todo, done, kind, finished>>
  BY DEF SetPre, task
<1>4. pc'[w] = "analyze" /\ \A v \in Workers : v # w => pc'[v] = pc[v]
  BY <1>2, <1>3
<1>5. /\ OrderInv' /\ Exclusive' /\ FinishedQuiet'
      /\ \A c \in Cell : Active(c)' <=> Active(c)
  BY <1>3, <1>4, InRule
<1>6. LoopsFresh'
  <2> SUFFICES ASSUME NEW x \in Exits(wpo),
                      \/ x \in done
                      \/ \E v \in Workers : pc'[v] = "reset" /\ cur[v] = x
               PROVE  kind[HeadOfExit(x)] = "increasing" /\ count'[HeadOfExit(x)] = 0
    BY <1>3 DEF LoopsFresh
  <2>1. x \in done \/ \E v \in Workers : pc[v] = "reset" /\ cur[v] = x
    BY <1>4
  <2>2. kind[HeadOfExit(x)] = "increasing" /\ count[HeadOfExit(x)] = 0
    BY <1>1, <2>1 DEF RestInv, LoopsFresh
  <2>3. x \in done \/ Active(x)
    BY <2>1 DEF Active, Holds, Runs, RulePcs
  <2>4. HeadOfExit(x) \in Comp(x) \ {x} /\ HeadOfExit(x) \in Cell
    BY <1>1, ExitFacts
  <2>5. ~ Active(HeadOfExit(x))
    BY <2>3, <2>4, ExitAlone
  <2>6. cur[w] # HeadOfExit(x)
    BY <1>3, <2>5 DEF Active, Holds, Runs, RulePcs
  <2> QED  BY <1>2, <1>3, <2>2, <2>4, <2>6
<1> QED  BY <1>5, <1>6 DEF RestInv

(* A loop that is left is fresh.                                            *)
LEMMA CheckStep ==
  ASSUME SchedulerInv, TypeInv', NEW w \in Workers, Check(w), wpo' = wpo, Cell' = Cell
  PROVE  RestInv' /\ \A c \in Cell : Active(c)' <=> Active(c)
<1>1. TypeInv /\ RestInv /\ TypeOK /\ InputFixed
  BY InvParts DEF TypeInv
<1>2. /\ pc \in [Workers -> RulePcs \cup {"idle", "loop"}] /\ cur \in [Workers -> Cell]
      /\ count \in [Cell -> 0..LaterIteration]
      /\ kind \in [Cell -> {"increasing", "decreasing"}]
  BY <1>1 DEF TypeOK
<1> DEFINE new == JoinLoop(acc[w].in, acc[w].back)
           refined == Narrow(pre[Block(cur[w])], new)
           widening == kind[HeadOfExit(cur[w])] = "increasing" /\ ~ Leq(new, pre[Block(cur[w])])
           stable == ~ widening /\ DecreasingFixpoint(pre[Block(cur[w])], refined)
<1>3. /\ pc[w] = "read" /\ Type(cur[w]) = "exit"
      /\ pc' = [pc EXCEPT ![w] = IF stable THEN "reset" ELSE "unstable"]
      /\ UNCHANGED <<executed, pool, wl, cell, cur, todo, done, finished>>
  BY DEF Check, task
<1>4. /\ stable => /\ kind' = [kind EXCEPT ![HeadOfExit(cur[w])] = "increasing"]
                   /\ count' = [count EXCEPT ![HeadOfExit(cur[w])] = 0]
      /\ \A c \in Cell : c # HeadOfExit(cur[w]) => kind'[c] = kind[c] /\ count'[c] = count[c]
  BY <1>2 DEF Check, LeaveLoop
<1> HIDE DEF stable
<1>5. /\ pc'[w] \in {"reset", "unstable"} /\ (pc'[w] = "reset" => stable)
      /\ \A v \in Workers : v # w => pc'[v] = pc[v]
      /\ pc' = [pc EXCEPT ![w] = pc'[w]]
  BY <1>2, <1>3
<1>6. /\ OrderInv' /\ Exclusive' /\ FinishedQuiet'
      /\ \A c \in Cell : Active(c)' <=> Active(c)
  BY <1>3, <1>5, InRule
<1>7. cur[w] \in Exits(wpo) /\ Runs(w, cur[w]) /\ Active(cur[w])
  BY <1>2, <1>3 DEF Exits, Type, Cell, Runs, Active, Holds, RulePcs
<1>8. LoopsFresh'
  <2> SUFFICES ASSUME NEW x \in Exits(wpo),
                      \/ x \in done
                      \/ \E v \in Workers : pc'[v] = "reset" /\ cur[v] = x
               PROVE  kind'[HeadOfExit(x)] = "increasing" /\ count'[HeadOfExit(x)] = 0
    BY <1>3 DEF LoopsFresh
  <2>1. HeadOfExit(x) \in Cell /\ x \in Cell
    BY <1>1, ExitFacts
  <2>2. CASE x = cur[w]
    <3>1. x \notin done
      BY <1>1, <1>7, <2>1, <2>2 DEF RestInv, OrderInv, ActiveReady
    <3>2. PICK v \in Workers : pc'[v] = "reset" /\ cur[v] = x
      BY <3>1
    <3>3. v = w
      <4>1. SUFFICES ASSUME v # w PROVE FALSE
        OBVIOUS
      <4>2. Runs(v, x)
        BY <1>5, <3>2, <4>1 DEF Runs, RulePcs
      <4> QED  BY <1>1, <1>7, <2>1, <2>2, <4>1, <4>2 DEF RestInv, Exclusive, Holds
    <3>4. stable
      BY <1>5, <3>2, <3>3
    <3> QED  BY <1>2, <1>4, <2>1, <2>2, <3>4
  <2>3. CASE x # cur[w]
    <3>1. HeadOfExit(x) # HeadOfExit(cur[w])
      BY <1>1, <1>7, <2>3, HeadsDiffer
    <3>2. x \in done \/ \E v \in Workers : pc[v] = "reset" /\ cur[v] = x
      BY <1>5, <2>3
    <3> QED  BY <1>1, <1>4, <2>1, <3>1, <3>2 DEF RestInv, LoopsFresh
  <2> QED  BY <2>2, <2>3
<1> QED  BY <1>6, <1>8 DEF RestInv

(* The return of parallel_do changes nothing else.                          *)
LEMMA FinishStep ==
  ASSUME SchedulerInv, Finish \/ UNCHANGED vars, wpo' = wpo, Cell' = Cell
  PROVE  RestInv' /\ \A c \in Cell : Active(c)' <=> Active(c)
<1>1. TypeInv /\ RestInv /\ TypeOK /\ InputFixed
  BY InvParts DEF TypeInv
<1>2. UNCHANGED <<executed, pool, wl, cell, cur, todo, done, kind, count, pc>>
  BY DEF Finish, task, data, vars
<1>3. \A v \in Workers : \A c : (Runs(v, c)' <=> Runs(v, c)) /\ (Waits(v, c)' <=> Waits(v, c))
  BY <1>2 DEF Runs, Waits
<1>4. \A c \in Cell : (Active(c)' <=> Active(c)) /\ (Restoring(c)' <=> Restoring(c))
  BY <1>2, <1>3 DEF Active, Holds, Restoring
<1>5. OrderInv'
  BY <1>1, <1>2, <1>4, SameSchedule DEF RestInv
<1>6. Exclusive'
  BY <1>1, <1>2, <1>3, ExclusiveSame DEF RestInv
<1>7. LoopsFresh'
  BY <1>1, <1>2, FreshSame DEF RestInv
<1>8. FinishedQuiet'
  BY <1>1, <1>2 DEF Finish, vars, RestInv, FinishedQuiet
<1> QED  BY <1>4, <1>5, <1>6, <1>7, <1>8 DEF RestInv

(* At first only the entry is scheduled, and nothing has run.               *)
LEMMA InitRestInv == Init => RestInv
<1> SUFFICES ASSUME Init PROVE RestInv
  OBVIOUS
<1>1. TypeInv /\ InputFixed /\ TypeOK
  BY InitTypeInv DEF TypeInv
<1>2. /\ \A v \in Workers : /\ pc[v] = "idle" /\ wl[v] = <<>> /\ todo[v] = {}
      /\ done = {} /\ finished = FALSE
      /\ \A c \in Cell : executed[c] = 0 /\ pool[c] = IF c = GetEntry(wpo) THEN 1 ELSE 0
  BY DEF Init
<1>3. \A v \in Workers : \A c : ~ Holds(v, c)
  BY <1>2 DEF Holds, Runs, Waits, RulePcs
<1>4. \A c \in Cell : Active(c) <=> c = GetEntry(wpo)
  BY <1>2, <1>3 DEF Active
<1>5. Pred(GetEntry(wpo)) = {} /\ \A c \in Cell : c # GetEntry(wpo) => Pred(c) # {}
  BY <1>1, OrderWellFormed, CellFacts DEF Pred, Cell
<1>6. \A c : Notified(c) = {}
  BY <1>2 DEF Notified
<1>7. DoneClosed /\ ActiveReady /\ PendingOnce /\ ComponentQuiet /\ FinishedQuiet
  BY <1>2, <1>4, <1>5, <1>6 DEF DoneClosed, ActiveReady, PendingOnce, ComponentQuiet, FinishedQuiet
<1>8. CountersExact
  BY <1>2, <1>4, <1>5, <1>6, FS_EmptySet DEF CountersExact
<1>9. Exclusive
  BY <1>2, <1>3, OccursEmpty DEF Exclusive, Once, Holds
<1>10. LoopsFresh
  BY <1>2 DEF LoopsFresh
<1> QED  BY <1>7, <1>8, <1>9, <1>10 DEF RestInv, OrderInv

(* A restored counter counts the outer predecessors, which have all run:    *)
(* those inside of the component will tell again.                           *)
LEMMA RestoreStep ==
  ASSUME SchedulerInv, TypeInv', NEW w \in Workers, Restore(w), wpo' = wpo, Cell' = Cell
  PROVE  RestInv' /\ \A c \in Cell : Active(c)' <=> Active(c)
<1>1. TypeInv /\ RestInv /\ TypeOK /\ InputFixed
  BY InvParts DEF TypeInv
<1>2. PICK d \in todo[w] :
        /\ executed' = [executed EXCEPT ![d] = Restored(cell[w], d)]
        /\ todo' = [todo EXCEPT ![w] = @ \ {d}]
  BY DEF Restore
<1>3. /\ pc[w] = "restore"
      /\ UNCHANGED <<pool, pc, wl, cell, cur, done, kind, count, finished>>
  BY DEF Restore, task, data
<1>4. /\ todo \in [Workers -> SUBSET Cell] /\ executed \in [Cell -> Nat]
  BY <1>1 DEF TypeOK
<1>5. /\ \A v \in Workers : v # w => todo'[v] = todo[v]
      /\ todo'[w] = todo[w] \ {d}
      /\ \A c \in Cell : c # d => executed'[c] = executed[c]
  BY <1>2, <1>4
<1>6. /\ cell[w] \in Exits(wpo) /\ d \in DOMAIN wpo.outer[cell[w]]
      /\ d \in Comp(cell[w]) /\ d \in Cell
      /\ executed'[d] = Cardinality(Pred(d) \ Comp(cell[w]))
  <2>1. cell[w] \in Exits(wpo) /\ d \in DOMAIN wpo.outer[cell[w]]
    BY <1>1, <1>3 DEF TypeInv, LocalsOK, LocalOK
  <2>2. d \in Comp(cell[w]) /\ d \in Cell
    BY <1>1, <2>1, RestoredFacts, ExitFacts
  <2>3. executed'[d] = Restored(cell[w], d)
    BY <1>2, <1>4, <2>2
  <2> QED  BY <1>1, <2>1, <2>2, <2>3, RestoredFacts
<1>7. \A v \in Workers : \A c : (Runs(v, c)' <=> Runs(v, c)) /\ (Waits(v, c)' <=> Waits(v, c))
  BY <1>3 DEF Runs, Waits
<1>8. \A c \in Cell : Active(c)' <=> Active(c)
  BY <1>3, <1>7 DEF Active, Holds
<1>9. \A v \in Workers : \A u, c : Pending(v, u, c)' <=> Pending(v, u, c)
  BY <1>3, <1>5 DEF Pending
<1>10. \A c \in Cell : Pred(c)' = Pred(c) /\ Notified(c)' = Notified(c)
  BY <1>3, <1>9 DEF Notified, Pred
<1>11. /\ d \notin done
       /\ Notified(d) = Pred(d) \ Comp(cell[w])
  <2>1. /\ \A c \in Comp(cell[w]) : c \notin done
        /\ Pred(d) \ Comp(cell[w]) \subseteq done
        /\ \A v \in Workers : pc[v] = "loop" => d \notin todo[v]
    BY <1>1, <1>3, <1>6 DEF RestInv, OrderInv, ComponentQuiet
  <2>2. \A v \in Workers : \A u : ~ Pending(v, u, d)
    BY <2>1 DEF Pending
  <2> QED  BY <1>6, <2>1, <2>2 DEF Notified
<1>12. DoneClosed' /\ ActiveReady' /\ FinishedQuiet' /\ LoopsFresh'
  <2>1. DoneClosed'
    BY <1>1, <1>3 DEF RestInv, OrderInv, DoneClosed, Pred
  <2>2. ActiveReady'
    BY <1>1, <1>3, <1>8, <1>10 DEF RestInv, OrderInv, ActiveReady
  <2>3. FinishedQuiet' /\ LoopsFresh'
    BY <1>1, <1>3 DEF RestInv, FinishedQuiet, LoopsFresh
  <2> QED  BY <2>1, <2>2, <2>3
<1>13. PendingOnce'
  <2>1. \A v \in Workers : pc[v] = "loop" => todo'[v] = todo[v] /\ todo[v] \subseteq Cell
    BY <1>3, <1>4, <1>5
  <2>2. \A v \in Workers : pc[v] = "loop" =>
          \A s \in todo[v] : s \in Cell /\ s \notin done /\ ~ Active(s)
    BY <1>1, <2>1 DEF RestInv, OrderInv, PendingOnce
  <2>3. \A v \in Workers : pc'[v] = "loop" => \A s \in todo'[v] : s \notin done' /\ ~ Active(s)'
    BY <1>3, <1>8, <2>1, <2>2
  <2> QED  BY <1>1, <1>3, <2>1, <2>3 DEF RestInv, OrderInv, PendingOnce
<1>14. ComponentQuiet'
  <2> SUFFICES ASSUME NEW v \in Workers, pc[v] = "restore", NEW c \in Comp(cell[v])
      PROVE  /\ c \notin done
             /\ c # HeadOfExit(cell[v]) => ~ Active(c)'
             /\ Pred(c) \ Comp(cell[v]) \subseteq done
             /\ \A u \in Workers : pc[u] = "loop" => c \notin todo'[u]
    BY <1>3 DEF ComponentQuiet, Pred, Comp
  <2>1. c \in Cell
    BY <1>1, ExitFacts DEF TypeInv, LocalsOK, LocalOK
  <2> QED  BY <1>1, <1>3, <1>5, <1>8, <2>1 DEF RestInv, OrderInv, ComponentQuiet
<1>15. CountersExact'
  <2> SUFFICES ASSUME NEW c \in Cell
      PROVE  /\ c \in done => executed'[c] = 0
             /\ c \notin done /\ ~ Active(c) =>
                  /\ Notified(c) # Pred(c)
                  /\ ~ Restoring(c)' => executed'[c] = Cardinality(Notified(c))
    BY <1>3, <1>8, <1>10 DEF CountersExact
  <2>1. CASE c = d
    BY <1>1, <1>6, <1>11, <2>1 DEF RestInv, OrderInv, CountersExact
  <2>2. CASE c # d
    <3>1. Restoring(c)' <=> Restoring(c)
      BY <1>3, <1>5, <2>2 DEF Restoring
    <3> QED  BY <1>1, <1>5, <2>2, <3>1 DEF RestInv, OrderInv, CountersExact
  <2> QED  BY <2>1, <2>2
<1>16. Exclusive'
  BY <1>1, <1>3, <1>7, ExclusiveSame DEF RestInv
<1> QED  BY <1>8, <1>12, <1>13, <1>14, <1>15, <1>16 DEF RestInv, OrderInv

(* The last predecessor that tells a cell, and only it, schedules the cell. *)
LEMMA NotifyStep ==
  ASSUME SchedulerInv, TypeInv', NEW w \in Workers, Notify(w), wpo' = wpo, Cell' = Cell
  PROVE  /\ RestInv'
         /\ \E s \in Cell :
              \/ \A c \in Cell : Active(c)' <=> Active(c)
              \/ /\ s \notin done /\ ~ Active(s) /\ Pred(s) \subseteq done
                 /\ \A c \in Cell : Active(c)' <=> Active(c) \/ c = s
<1>1. TypeInv /\ RestInv /\ TypeOK /\ InputFixed
  BY InvParts DEF TypeInv
<1>2. PICK s \in todo[w] :
        /\ todo' = [todo EXCEPT ![w] = @ \ {s}]
        /\ executed' = [executed EXCEPT ![s] = @ + 1]
        /\ \/ ~ IsLastToTell(s) /\ wl' = wl /\ pool' = pool
           \/ IsLastToTell(s) /\ wl' = [wl EXCEPT ![w] = Append(@, s)] /\ pool' = pool
           \/ IsLastToTell(s) /\ pool' = [pool EXCEPT ![s] = @ + 1] /\ wl' = wl
  BY DEF Notify
<1>3. /\ pc[w] = "loop"
      /\ UNCHANGED <<pc, cell, cur, done, kind, count, finished>>
  BY DEF Notify, data
<1>4. /\ todo \in [Workers -> SUBSET Cell] /\ executed \in [Cell -> Nat]
      /\ wl \in [Workers -> Seq(Cell)] /\ pool \in [Cell -> Nat] /\ cur \in [Workers -> Cell]
  BY <1>1 DEF TypeOK
<1>5. /\ \A v \in Workers : v # w => todo'[v] = todo[v]
      /\ todo'[w] = todo[w] \ {s}
      /\ \A c \in Cell : c # s => executed'[c] = executed[c]
      /\ executed'[s] = executed[s] + 1
      /\ s \in Cell
  BY <1>2, <1>4
<1>6. /\ cur[w] \in done /\ s \notin done /\ ~ Active(s) /\ cur[w] \in Pred(s)
  <2>1. cur[w] \in done /\ s \notin done /\ ~ Active(s)
    BY <1>1, <1>3 DEF RestInv, OrderInv, PendingOnce
  <2>2. s \in Succ(cur[w])
    BY <1>1, <1>3 DEF TypeInv, LocalsOK, LocalOK
  <2> QED  BY <1>1, <1>4, <1>5, <2>1, <2>2, PredFacts
<1>7. /\ \A v \in Workers : pc[v] = "restore" => s \notin Comp(cell[v])
      /\ ~ Restoring(s)
  <2>1. \A v \in Workers : pc[v] = "restore" => s \notin Comp(cell[v])
    BY <1>1, <1>3 DEF RestInv, OrderInv, ComponentQuiet
  <2>2. \A v \in Workers : pc[v] = "restore" => todo[v] \subseteq Comp(cell[v])
    BY <1>1, RestoredFacts DEF TypeInv, LocalsOK, LocalOK
  <2> QED  BY <2>1, <2>2 DEF Restoring
<1>8. executed[s] = Cardinality(Notified(s))
  BY <1>1, <1>5, <1>6, <1>7 DEF RestInv, OrderInv, CountersExact
<1>9. \A c \in Cell : Pred(c)' = Pred(c)
  BY <1>3 DEF Pred
<1>10. \A c \in Cell : c # s => Notified(c)' = Notified(c)
  <2>1. \A v \in Workers : \A u, c : c # s => (Pending(v, u, c)' <=> Pending(v, u, c))
    BY <1>3, <1>5 DEF Pending
  <2> QED  BY <1>3, <1>9, <2>1 DEF Notified
<1>11. Notified(s)' = Notified(s) \cup {cur[w]} /\ cur[w] \notin Notified(s)
  <2>1. Pending(w, cur[w], s)
    BY <1>3 DEF Pending
  <2>2. \A v \in Workers : ~ Pending(v, cur[w], s)'
    <3>1. SUFFICES ASSUME NEW v \in Workers, Pending(v, cur[w], s)' PROVE FALSE
      BY <1>3 DEF Pending
    <3>2. pc[v] = "loop" /\ cur[v] = cur[w] /\ s \in todo'[v]
      BY <1>3, <3>1 DEF Pending
    <3>3. v # w
      BY <1>5, <3>2
    <3>4. todo[v] # {} /\ todo[w] # {}
      BY <1>5, <3>2, <3>3
    <3> QED  BY <1>1, <1>3, <3>2, <3>3, <3>4 DEF RestInv, OrderInv, PendingOnce
  <2>3. \A v \in Workers : \A u : u # cur[w] => (Pending(v, u, s)' <=> Pending(v, u, s))
    BY <1>3, <1>5 DEF Pending
  <2>4. Notified(s)' = {u \in Pred(s) \cap done : \A v \in Workers : ~ Pending(v, u, s)'}
    BY <1>3, <1>5, <1>9 DEF Notified
  <2>5. cur[w] \in Notified(s)' /\ cur[w] \notin Notified(s)
    BY <1>3, <1>6, <2>1, <2>2, <2>4 DEF Notified
  <2>6. \A u : u # cur[w] => (u \in Notified(s)' <=> u \in Notified(s))
    BY <2>3, <2>4 DEF Notified
  <2> QED  BY <2>5, <2>6
<1>12. /\ executed'[s] = Cardinality(Notified(s)')
       /\ IsLastToTell(s) <=> Notified(s)' = Pred(s)
  <2>1. IsFiniteSet(Pred(s)) /\ NumPreds(wpo, s) = Cardinality(Pred(s)) /\ NumPreds(wpo, s) \in Nat
    BY <1>1, <1>5, PredFacts
  <2>2. Notified(s) \subseteq Pred(s) /\ Notified(s)' \subseteq Pred(s)
    BY <1>6, <1>11 DEF Notified
  <2>3. IsFiniteSet(Notified(s)) /\ IsFiniteSet(Notified(s)')
    BY <2>1, <2>2, FS_Subset
  <2>4. Cardinality(Notified(s)') = Cardinality(Notified(s)) + 1
    BY <1>11, <2>3, FS_AddElement
  <2>5. Cardinality(Notified(s)') \in Nat
    BY <2>3, FS_CardinalityType
  <2>6. Cardinality(Notified(s)') >= Cardinality(Pred(s)) <=> Notified(s)' = Pred(s)
    BY <2>1, <2>2, <2>5, FS_Subset
  <2> QED  BY <1>5, <1>8, <2>1, <2>4, <2>6 DEF IsLastToTell
<1>13. \A v \in Workers : \A c : Runs(v, c)' <=> Runs(v, c)
  BY <1>3 DEF Runs
<1>14. /\ \A v \in Workers : ~ Holds(v, s)
       /\ pool[s] = 0
  BY <1>4, <1>5, <1>6 DEF Active
<1>15. ASSUME ~ IsLastToTell(s)
      PROVE  /\ Exclusive'
             /\ \A c \in Cell : Active(c)' <=> Active(c) \/ (c = s /\ IsLastToTell(s))
  <2>1. wl' = wl /\ pool' = pool
    BY <1>2, <1>15
  <2>2. \A v \in Workers : \A c : Waits(v, c)' <=> Waits(v, c)
    BY <2>1 DEF Waits
  <2>3. \A c \in Cell : Active(c)' <=> Active(c)
    BY <1>13, <2>1, <2>2 DEF Active, Holds
  <2>4. Exclusive'
    BY <1>1, <1>13, <2>1, ExclusiveSame DEF RestInv
  <2> QED  BY <1>15, <2>3, <2>4
<1>16. ASSUME IsLastToTell(s) /\ wl' = [wl EXCEPT ![w] = Append(@, s)] /\ pool' = pool
      PROVE  /\ Exclusive'
             /\ \A c \in Cell : Active(c)' <=> Active(c) \/ (c = s /\ IsLastToTell(s))
  <2>1. /\ wl'[w] = Append(wl[w], s) /\ wl[w] \in Seq(Cell)
        /\ \A v \in Workers : v # w => wl'[v] = wl[v]
    BY <1>4, <1>16
  <2>2. ~ Occurs(wl[w], s) /\ Once(wl[w])
    BY <1>1, <1>14 DEF Holds, Waits, Occurs, RestInv, Exclusive, Once
  <2>3. Once(wl'[w]) /\ \A c : Occurs(wl'[w], c) <=> c = s \/ Occurs(wl[w], c)
    BY <1>5, <2>1, <2>2, OccursAppend
  <2>4. \A v \in Workers : \A c : (Waits(v, c)' <=> Occurs(wl'[v], c)) /\ (Waits(v, c) <=> Occurs(wl[v], c))
    BY DEF Waits, Occurs
  <2>5. \A v \in Workers : \A c : Waits(v, c)' <=> Waits(v, c) \/ (v = w /\ c = s)
    BY <2>1, <2>3, <2>4
  <2>6. \A v \in Workers : \A c : Holds(v, c)' <=> Holds(v, c) \/ (v = w /\ c = s)
    BY <1>13, <2>5 DEF Holds
  <2>7. \A c \in Cell : Active(c)' <=> Active(c) \/ c = s
    BY <1>16, <2>6 DEF Active
  <2>8. Exclusive'
    <3>1. \A v \in Workers : Once(wl'[v])
      BY <1>1, <2>1, <2>3 DEF RestInv, Exclusive, Once
    <3>2. \A v \in Workers : \A c \in Cell : Runs(v, c)' => ~ Waits(v, c)'
      BY <1>1, <1>13, <1>14, <2>5 DEF RestInv, Exclusive, Holds
    <3>3. \A c \in Cell : \A v \in Workers :
            /\ Holds(v, c)' => pool'[c] = 0
            /\ \A u \in Workers : Holds(v, c)' /\ Holds(u, c)' => u = v
      BY <1>1, <1>14, <1>16, <2>6 DEF RestInv, Exclusive
    <3>4. \A c \in Cell : pool'[c] <= 1
      BY <1>1, <1>16 DEF RestInv, Exclusive
    <3> QED  BY <3>1, <3>2, <3>3, <3>4 DEF Exclusive, Once
  <2> QED  BY <1>16, <2>7, <2>8
<1>17. ASSUME IsLastToTell(s) /\ pool' = [pool EXCEPT ![s] = @ + 1] /\ wl' = wl
      PROVE  /\ Exclusive'
             /\ \A c \in Cell : Active(c)' <=> Active(c) \/ (c = s /\ IsLastToTell(s))
  <2>1. pool'[s] = 1 /\ \A c \in Cell : c # s => pool'[c] = pool[c]
    BY <1>4, <1>5, <1>14, <1>17
  <2>2. \A v \in Workers : \A c : Waits(v, c)' <=> Waits(v, c)
    BY <1>17 DEF Waits
  <2>3. \A v \in Workers : \A c : Holds(v, c)' <=> Holds(v, c)
    BY <1>13, <2>2 DEF Holds
  <2>4. \A c \in Cell : Active(c)' <=> Active(c) \/ c = s
    BY <2>1, <2>3 DEF Active
  <2>5. Exclusive'
    BY <1>1, <1>13, <1>14, <1>17, <2>1, <2>2, <2>3 DEF RestInv, Exclusive
  <2> QED  BY <1>17, <2>4, <2>5
<1>18. /\ Exclusive'
       /\ \A c \in Cell : Active(c)' <=> Active(c) \/ (c = s /\ IsLastToTell(s))
  BY <1>2, <1>15, <1>16, <1>17
<1>19. DoneClosed' /\ LoopsFresh' /\ FinishedQuiet'
  <2>1. DoneClosed'
    BY <1>1, <1>3 DEF RestInv, OrderInv, DoneClosed, Pred
  <2>2. LoopsFresh'
    BY <1>1, <1>3 DEF RestInv, LoopsFresh
  <2>3. FinishedQuiet'
    BY <1>1, <1>3, QuietSame DEF RestInv
  <2> QED  BY <2>1, <2>2, <2>3
<1>20. ActiveReady'
  BY <1>1, <1>3, <1>6, <1>9, <1>10, <1>12, <1>18 DEF RestInv, OrderInv, ActiveReady
<1>21. PendingOnce'
  <2>1. \A v \in Workers : todo'[v] \subseteq todo[v] /\ todo[v] \subseteq Cell
    BY <1>4, <1>5
  <2>2. ASSUME NEW v \in Workers, pc[v] = "loop", NEW c \in todo'[v], c = s, IsLastToTell(s)
        PROVE  FALSE
    <3>1. v # w /\ todo[v] # {} /\ s \in todo[v]
      BY <1>5, <2>2
    <3>2. cur[v] \in done /\ s \in Succ(cur[v])
      BY <1>1, <2>2, <3>1 DEF RestInv, OrderInv, PendingOnce, TypeInv, LocalsOK, LocalOK
    <3>3. cur[v] \in Pred(s)
      BY <1>1, <1>4, <1>5, <3>2, PredFacts
    <3>4. cur[v] \in Notified(s)'
      BY <1>12, <2>2, <3>3
    <3>5. ~ Pending(v, cur[v], s)'
      BY <1>3, <3>4 DEF Notified
    <3> QED  BY <1>3, <2>2, <3>5 DEF Pending
  <2>3. ASSUME NEW v \in Workers, pc[v] = "loop", NEW c \in todo'[v]
        PROVE  c \notin done /\ ~ Active(c)'
    <3>1. c \in Cell /\ c \notin done /\ ~ Active(c)
      BY <1>1, <2>1, <2>3 DEF RestInv, OrderInv, PendingOnce
    <3> QED  BY <1>18, <2>2, <2>3, <3>1
  <2>4. \A v \in Workers : pc'[v] = "loop" => \A c \in todo'[v] : c \notin done' /\ ~ Active(c)'
    BY <1>3, <2>3
  <2>5. \A v \in Workers : pc'[v] = "loop" /\ todo'[v] # {} => cur'[v] \in done'
    BY <1>1, <1>3, <2>1 DEF RestInv, OrderInv, PendingOnce
  <2>6. \A u, v \in Workers :
          /\ pc'[u] = "loop" /\ pc'[v] = "loop" /\ cur'[u] = cur'[v]
          /\ todo'[u] # {} /\ todo'[v] # {}
          => u = v
    BY <1>1, <1>3, <2>1 DEF RestInv, OrderInv, PendingOnce
  <2> QED  BY <2>4, <2>5, <2>6 DEF PendingOnce
<1>22. ComponentQuiet'
  <2> SUFFICES ASSUME NEW v \in Workers, pc[v] = "restore", NEW c \in Comp(cell[v])
      PROVE  /\ c \notin done
             /\ c # HeadOfExit(cell[v]) => ~ Active(c)'
             /\ Pred(c) \ Comp(cell[v]) \subseteq done
             /\ \A u \in Workers : pc[u] = "loop" => c \notin todo'[u]
    BY <1>3 DEF ComponentQuiet, Pred, Comp
  <2>1. c \in Cell
    BY <1>1, ExitFacts DEF TypeInv, LocalsOK, LocalOK
  <2>2. c # s
    BY <1>7
  <2> QED  BY <1>1, <1>3, <1>5, <1>18, <2>1, <2>2 DEF RestInv, OrderInv, ComponentQuiet
<1>23. CountersExact'
  <2> SUFFICES ASSUME NEW c \in Cell
      PROVE  /\ c \in done => executed'[c] = 0
             /\ c \notin done /\ ~ Active(c)' =>
                  /\ Notified(c)' # Pred(c)
                  /\ ~ Restoring(c)' => executed'[c] = Cardinality(Notified(c)')
    BY <1>3, <1>9 DEF CountersExact
  <2>1. CASE c = s
    BY <1>6, <1>12, <1>18, <2>1
  <2>2. CASE c # s
    <3>1. Restoring(c)' <=> Restoring(c)
      BY <1>3, <1>5 DEF Restoring
    <3> QED  BY <1>1, <1>5, <1>10, <1>18, <2>2, <3>1 DEF RestInv, OrderInv, CountersExact
  <2> QED  BY <2>1, <2>2
<1>24. IsLastToTell(s) => Pred(s) \subseteq done
  BY <1>3, <1>12 DEF Notified
<1>25. RestInv'
  BY <1>18, <1>19, <1>20, <1>21, <1>22, <1>23 DEF RestInv, OrderInv
<1>26. CASE IsLastToTell(s)
  BY <1>5, <1>6, <1>18, <1>24, <1>25, <1>26
<1>27. CASE ~ IsLastToTell(s)
  BY <1>5, <1>18, <1>25, <1>27
<1> QED  BY <1>26, <1>27

(* A cell that has run still has to tell its successors, and its own counter *)
(* starts again.                                                             *)
LEMMA ResetStep ==
  ASSUME SchedulerInv, TypeInv', NEW w \in Workers, Reset(w), wpo' = wpo, Cell' = Cell
  PROVE  /\ RestInv'
         /\ Active(cur[w])
         /\ \A c \in Cell : Active(c)' <=> Active(c) /\ c # cur[w]
<1>1. TypeInv /\ RestInv /\ TypeOK /\ InputFixed
  BY InvParts DEF TypeInv
<1>d. PICK d : d = cur[w]
  OBVIOUS
<1>2. /\ pc[w] = "reset" /\ cur[w] = d
      /\ executed' = [executed EXCEPT ![d] = 0]
      /\ todo' = [todo EXCEPT ![w] = Succ(d)]
      /\ done' = done \cup {d}
      /\ pc' = [pc EXCEPT ![w] = "loop"]
      /\ UNCHANGED <<pool, wl, cell, cur, kind, count, finished>>
  BY <1>d DEF Reset, Restart, task, data
<1>3. /\ pc \in [Workers -> RulePcs \cup {"idle", "loop"}]
      /\ todo \in [Workers -> SUBSET Cell] /\ executed \in [Cell -> Nat]
      /\ cur \in [Workers -> Cell] /\ done \in SUBSET Cell
  BY <1>1 DEF TypeOK
<1>4. /\ pc'[w] = "loop" /\ todo'[w] = Succ(d) /\ d \in Cell
      /\ \A v \in Workers : v # w => pc'[v] = pc[v] /\ todo'[v] = todo[v]
      /\ executed'[d] = 0 /\ \A c \in Cell : c # d => executed'[c] = executed[c]
  BY <1>2, <1>3
<1>5. Runs(w, d) /\ Active(d)
  BY <1>2, <1>4 DEF Runs, Active, Holds, RulePcs
<1>6. d \notin done /\ Notified(d) = Pred(d) /\ Pred(d) \subseteq done
  <2>1. d \notin done /\ Notified(d) = Pred(d)
    BY <1>1, <1>4, <1>5 DEF RestInv, OrderInv, ActiveReady
  <2> QED  BY <2>1 DEF Notified
<1>7. \A s \in Succ(d) : s \in Cell /\ s # d /\ d \in Pred(s) /\ s \notin done /\ ~ Active(s)
  <2>1. \A s \in Succ(d) : s \in Cell /\ d \in Pred(s)
    BY <1>1, <1>4, PredFacts
  <2>2. \A s \in Succ(d) : s # d /\ s \notin done
    BY <1>1, <1>6, <2>1 DEF RestInv, OrderInv, DoneClosed
  <2>3. \A s \in Succ(d) : ~ Active(s)
    BY <1>1, <1>6, <2>1 DEF RestInv, OrderInv, ActiveReady, Notified
  <2> QED  BY <2>1, <2>2, <2>3
<1>8. /\ \A v \in Workers : \A c : Runs(v, c)' <=> Runs(v, c) /\ ~ (v = w /\ c = d)
      /\ \A v \in Workers : \A c : Waits(v, c)' <=> Waits(v, c)
  <2>1. ~ "loop" \in RulePcs
    BY DEF RulePcs
  <2>2. \A c : ~ Runs(w, c)' /\ (Runs(w, c) <=> c = d)
    BY <1>2, <1>4, <1>5, <2>1 DEF Runs
  <2>3. \A v \in Workers : v # w => \A c : Runs(v, c)' <=> Runs(v, c)
    BY <1>2, <1>4 DEF Runs
  <2>4. \A v \in Workers : \A c : Waits(v, c)' <=> Waits(v, c)
    BY <1>2 DEF Waits
  <2> QED  BY <2>2, <2>3, <2>4
<1>9. \A c \in Cell : Active(c)' <=> Active(c) /\ c # d
  <2>1. pool[d] = 0 /\ \A v \in Workers : ~ (Runs(v, d) /\ ~ (v = w)) /\ ~ Waits(v, d)
    BY <1>1, <1>4, <1>5 DEF RestInv, Exclusive, Holds
  <2>2. ~ Active(d)'
    BY <1>2, <1>4, <1>8, <2>1 DEF Active, Holds
  <2>3. ASSUME NEW c \in Cell, c # d PROVE Active(c)' <=> Active(c)
    BY <1>2, <1>8, <2>3 DEF Active, Holds
  <2> QED  BY <2>2, <2>3
<1>10. \A c \in Cell : Pred(c)' = Pred(c)
  BY DEF Pred
<1>11. \A v \in Workers : \A u, c : Pending(v, u, c)' <=> Pending(v, u, c) \/ (v = w /\ u = d /\ c \in Succ(d))
  BY <1>2, <1>4 DEF Pending
<1>12. \A c \in Cell : Notified(c)' = Notified(c)
  <2>1. ASSUME NEW c \in Cell, NEW u \in Pred(c), u # d
        PROVE  u \in Notified(c)' <=> u \in Notified(c)
    BY <1>2, <1>10, <1>11, <2>1 DEF Notified
  <2>2. ASSUME NEW c \in Cell, d \in Pred(c)
        PROVE  d \notin Notified(c)' /\ d \notin Notified(c)
    <3>1. c \in Succ(d)
      BY <1>1, <1>4, <2>2, PredFacts
    <3>2. Pending(w, d, c)'
      BY <1>11, <3>1
    <3> QED  BY <1>6, <3>2 DEF Notified
  <2>3. \A c \in Cell : Notified(c) \subseteq Pred(c) /\ Notified(c)' \subseteq Pred(c)
    BY <1>10 DEF Notified
  <2> QED  BY <2>1, <2>2, <2>3
<1>13. DoneClosed'
  BY <1>1, <1>2, <1>3, <1>6, <1>10 DEF RestInv, OrderInv, DoneClosed, Pred
<1>14. ActiveReady'
  BY <1>1, <1>2, <1>9, <1>10, <1>12 DEF RestInv, OrderInv, ActiveReady
<1>15. PendingOnce'
  <2>1. ASSUME NEW v \in Workers, v # w, pc[v] = "loop", cur[v] = d, todo[v] # {} PROVE FALSE
    BY <1>1, <1>6, <2>1 DEF RestInv, OrderInv, PendingOnce
  <2>2. ASSUME NEW v \in Workers, v # w, pc[v] = "loop", NEW s \in todo[v]
        PROVE  s \notin done /\ ~ Active(s) /\ s # d /\ s \in Cell
    BY <1>1, <1>3, <1>5, <2>2 DEF RestInv, OrderInv, PendingOnce
  <2>3. \A v \in Workers : pc'[v] = "loop" /\ todo'[v] # {} => cur'[v] \in done'
    BY <1>1, <1>2, <1>4 DEF RestInv, OrderInv, PendingOnce
  <2>4. \A v \in Workers : pc'[v] = "loop" => \A s \in todo'[v] : s \notin done' /\ ~ Active(s)'
    BY <1>2, <1>4, <1>7, <1>9, <2>2
  <2>5. \A u, v \in Workers :
          /\ pc'[u] = "loop" /\ pc'[v] = "loop" /\ cur'[u] = cur'[v]
          /\ todo'[u] # {} /\ todo'[v] # {}
          => u = v
    BY <1>1, <1>2, <1>4, <2>1 DEF RestInv, OrderInv, PendingOnce
  <2> QED  BY <2>3, <2>4, <2>5 DEF PendingOnce
<1>16. ComponentQuiet'
  <2> SUFFICES ASSUME NEW v \in Workers, pc'[v] = "restore", NEW c \in Comp(cell[v])
      PROVE  /\ c \notin done'
             /\ c # HeadOfExit(cell[v]) => ~ Active(c)'
             /\ Pred(c) \ Comp(cell[v]) \subseteq done'
             /\ \A u \in Workers : pc'[u] = "loop" => c \notin todo'[u]
    BY <1>2 DEF ComponentQuiet, Pred, Comp
  <2>1. v # w /\ pc[v] = "restore"
    BY <1>4
  <2>2. cell[v] \in Exits(wpo) /\ cur[v] = HeadOfExit(cell[v]) /\ c \in Cell
    BY <1>1, <2>1, ExitFacts DEF TypeInv, LocalsOK, LocalOK
  <2>3. /\ \A e \in Comp(cell[v]) : e # HeadOfExit(cell[v]) => ~ Active(e)
        /\ c \notin done
        /\ Pred(c) \ Comp(cell[v]) \subseteq done
        /\ \A u \in Workers : pc[u] = "loop" => c \notin todo[u]
    <3>1. Comp(cell[v]) \subseteq Cell
      BY <1>1, <2>2, ExitFacts
    <3> QED  BY <1>1, <2>1, <3>1 DEF RestInv, OrderInv, ComponentQuiet
  <2>4. d \notin Comp(cell[v])
    <3>1. SUFFICES ASSUME d \in Comp(cell[v]) PROVE FALSE
      OBVIOUS
    <3>2. d = cur[v]
      BY <1>5, <2>2, <2>3, <3>1
    <3>3. Runs(v, d)
      BY <2>1, <3>2 DEF Runs, RulePcs
    <3> QED  BY <1>1, <1>4, <1>5, <2>1, <3>3 DEF RestInv, Exclusive, Holds
  <2>5. c \notin Succ(d)
    BY <1>6, <1>7, <2>3, <2>4
  <2>6. c # d
    BY <2>4
  <2> QED  BY <1>2, <1>4, <1>9, <2>2, <2>3, <2>5, <2>6
<1>17. CountersExact'
  <2> SUFFICES ASSUME NEW c \in Cell
      PROVE  /\ c \in done' => executed'[c] = 0
             /\ c \notin done' /\ ~ Active(c)' =>
                  /\ Notified(c) # Pred(c)
                  /\ ~ Restoring(c)' => executed'[c] = Cardinality(Notified(c))
    BY <1>10, <1>12 DEF CountersExact
  <2>1. CASE c = d
    BY <1>2, <1>4, <2>1
  <2>2. CASE c # d
    <3>1. Restoring(c)' <=> Restoring(c)
      BY <1>2, <1>4 DEF Restoring
    <3> QED  BY <1>1, <1>2, <1>4, <1>9, <2>2, <3>1 DEF RestInv, OrderInv, CountersExact
  <2> QED  BY <2>1, <2>2
<1>18. Exclusive'
  BY <1>1, <1>2, <1>8, ExclusiveSame DEF RestInv
<1>19. LoopsFresh'
  <2> SUFFICES ASSUME NEW x \in Exits(wpo),
                      \/ x \in done'
                      \/ \E v \in Workers : pc'[v] = "reset" /\ cur[v] = x
               PROVE  kind[HeadOfExit(x)] = "increasing" /\ count[HeadOfExit(x)] = 0
    BY <1>2 DEF LoopsFresh
  <2>1. x \in done \/ \E v \in Workers : pc[v] = "reset" /\ cur[v] = x
    BY <1>2, <1>4
  <2> QED  BY <1>1, <2>1 DEF RestInv, LoopsFresh
<1>20. FinishedQuiet'
  BY <1>1, <1>2, QuietSame DEF RestInv
<1> QED  BY <1>d, <1>5, <1>9, <1>13, <1>14, <1>15, <1>16, <1>17, <1>18, <1>19, <1>20 DEF RestInv, OrderInv

(* An exit that is not stable opens its component again: its cells have not  *)
(* run, nobody else has any of them, and all that they wait for outside of   *)
(* the component has run and told so.                                        *)
LEMMA ResetComponentStep ==
  ASSUME SchedulerInv, TypeInv', NEW w \in Workers, ResetComponent(w), wpo' = wpo, Cell' = Cell
  PROVE  /\ RestInv'
         /\ cur[w] \in Exits(wpo) /\ Active(cur[w])
         /\ Comp(cur[w]) \subseteq done \cup {cur[w]}
         /\ \A c \in Cell : Active(c)' <=> (Active(c) /\ c # cur[w]) \/ c = HeadOfExit(cur[w])
<1>1. TypeInv /\ RestInv /\ TypeOK /\ InputFixed
  BY InvParts DEF TypeInv
<1>d. PICK d : d = cur[w]
  OBVIOUS
<1>h. PICK h : h = HeadOfExit(d)
  OBVIOUS
<1>k. PICK K : K = Comp(d)
  OBVIOUS
<1>2. /\ pc[w] = "unstable" /\ cur[w] = d
      /\ executed' = [executed EXCEPT ![d] = 0]
      /\ todo' = [todo EXCEPT ![w] = DOMAIN wpo.outer[d]]
      /\ cur' = [cur EXCEPT ![w] = h]
      /\ done' = done \ K
      /\ pc' = [pc EXCEPT ![w] = "restore"]
      /\ UNCHANGED <<pool, wl, cell, kind, count, finished>>
  BY <1>d, <1>h, <1>k DEF ResetComponent, Restart, data
<1>3. /\ pc \in [Workers -> RulePcs \cup {"idle", "loop"}]
      /\ todo \in [Workers -> SUBSET Cell] /\ executed \in [Cell -> Nat]
      /\ cur \in [Workers -> Cell] /\ done \in SUBSET Cell
  BY <1>1 DEF TypeOK
<1>4. d \in Exits(wpo) /\ d \in Cell /\ cell[w] = d /\ Type(d) = "exit"
  <2>1. Type(d) = "exit"
    BY <1>1, <1>2 DEF TypeInv, LocalsOK, LocalOK
  <2>2. cell[w] = d
    BY <1>1, <1>2, <2>1 DEF TypeInv, LocalsOK, LocalOK
  <2> QED  BY <1>2, <1>3, <2>1, <2>2 DEF Exits, Type, Cell
<1>5. /\ pc'[w] = "restore" /\ cur'[w] = h /\ todo'[w] = DOMAIN wpo.outer[d]
      /\ \A v \in Workers : v # w => pc'[v] = pc[v] /\ todo'[v] = todo[v] /\ cur'[v] = cur[v]
      /\ executed'[d] = 0 /\ \A c \in Cell : c # d => executed'[c] = executed[c]
  BY <1>2, <1>3, <1>4
<1>6. /\ K \subseteq Cell /\ d \in K /\ h \in K /\ h # d
      /\ Pred(h) \cap K = {}
      /\ \A c \in K \ {h} : Pred(c) \cap K # {}
      /\ \A c \in K \ {d} : \A e \in Cell : c \in Pred(e) => e \in K
  BY <1>1, <1>4, <1>h, <1>k, ExitFacts
<1>7. Runs(w, d) /\ Active(d)
  BY <1>2, <1>4 DEF Runs, Active, Holds, RulePcs
<1>8. d \notin done
  BY <1>1, <1>4, <1>7 DEF RestInv, OrderInv, ActiveReady
<1>9. /\ Pred(d) \subseteq done /\ K \ {d} \subseteq done
      /\ \A c \in K \ {d} : ~ Active(c)
      /\ \A v \in Workers : pc[v] = "loop" => todo[v] \cap K = {}
      /\ \A v \in Workers : pc[v] = "loop" /\ cur[v] \in K => todo[v] = {}
  <2>1. /\ Pred(d) \subseteq done /\ K \ {d} \subseteq done
        /\ \A c \in K \ {d} : ~ Active(c)
        /\ \A v \in Workers : \A c \in K \ {d} : pc[v] = "loop" => c \notin todo[v]
        /\ \A v \in Workers : pc[v] = "loop" /\ cur[v] \in K => todo[v] = {}
    BY <1>4, <1>7, <1>k, ExitAlone
  <2>2. \A v \in Workers : pc[v] = "loop" => d \notin todo[v]
    BY <1>1, <1>7 DEF RestInv, OrderInv, PendingOnce
  <2> QED  BY <2>1, <2>2
<1>10. /\ \A v \in Workers : v # w => \A c : Runs(v, c)' <=> Runs(v, c)
       /\ \A c : (Runs(w, c)' <=> c = h) /\ (Runs(w, c) <=> c = d)
       /\ \A v \in Workers : \A c : Waits(v, c)' <=> Waits(v, c)
  <2>1. "unstable" \in RulePcs /\ "restore" \in RulePcs
    BY DEF RulePcs
  <2>2. \A c : (Runs(w, c)' <=> c = h) /\ (Runs(w, c) <=> c = d)
    BY <1>2, <1>5, <2>1 DEF Runs
  <2>3. \A v \in Workers : v # w => \A c : Runs(v, c)' <=> Runs(v, c)
    BY <1>5 DEF Runs
  <2>4. \A v \in Workers : \A c : Waits(v, c)' <=> Waits(v, c)
    BY <1>2 DEF Waits
  <2> QED  BY <2>2, <2>3, <2>4
<1>11. \A c \in Cell : Active(c)' <=> (Active(c) /\ c # d) \/ c = h
  <2>1. pool[d] = 0 /\ \A v \in Workers : (v # w => ~ Runs(v, d)) /\ ~ Waits(v, d)
    BY <1>1, <1>4, <1>7 DEF RestInv, Exclusive, Holds
  <2>2. ~ Active(d)'
    BY <1>2, <1>4, <1>6, <1>10, <2>1 DEF Active, Holds
  <2>3. Active(h)'
    BY <1>10 DEF Active, Holds
  <2>4. ASSUME NEW c \in Cell, c # d, c # h PROVE Active(c)' <=> Active(c)
    <3>1. \A v \in Workers : Holds(v, c)' <=> Holds(v, c)
      BY <1>10, <2>4 DEF Holds
    <3> QED  BY <1>2, <3>1 DEF Active
  <2> QED  BY <1>6, <2>2, <2>3, <2>4
<1>12. \A c \in Cell : Pred(c)' = Pred(c)
  BY DEF Pred
<1>13. \A v \in Workers : \A u, c : Pending(v, u, c)' <=> Pending(v, u, c)
  BY <1>2, <1>5 DEF Pending
<1>14. \A c \in Cell : Notified(c)' = Notified(c) \ K
  BY <1>2, <1>12, <1>13 DEF Notified
<1>15. \A c \in Cell : c \notin K => Notified(c)' = Notified(c)
  <2>1. \A c \in Cell : c \notin K => Notified(c) \cap K = {}
    BY <1>6, <1>8 DEF Notified
  <2> QED  BY <1>14, <2>1
<1>16. \A c \in K : Pred(c) \ K \subseteq done /\ Notified(c)' = Pred(c) \ K
  <2> SUFFICES ASSUME NEW c \in K
      PROVE  Pred(c) \ K \subseteq done /\ Notified(c)' = Pred(c) \ K
    OBVIOUS
  <2>1. Pred(c) \subseteq done
    BY <1>1, <1>9 DEF RestInv, OrderInv, DoneClosed
  <2>2. \A v \in Workers : \A u : ~ Pending(v, u, c)
    BY <1>9 DEF Pending
  <2> QED  BY <1>6, <1>14, <2>1, <2>2 DEF Notified
<1>17. DoneClosed'
  <2> SUFFICES ASSUME NEW c \in done, c \notin K, NEW p \in Pred(c) PROVE p \in done /\ p \notin K
    BY <1>2, <1>12 DEF DoneClosed, Pred
  <2>1. p \in done
    BY <1>1 DEF RestInv, OrderInv, DoneClosed
  <2> QED  BY <1>3, <1>6, <1>8, <2>1
<1>18. ActiveReady'
  <2> SUFFICES ASSUME NEW c \in Cell, Active(c)' PROVE c \notin done' /\ Notified(c)' = Pred(c)
    BY <1>12 DEF ActiveReady
  <2>1. CASE c = h
    BY <1>2, <1>6, <1>16, <2>1
  <2>2. CASE c # h
    <3>1. Active(c) /\ c \notin K
      BY <1>9, <1>11, <2>2
    <3> QED  BY <1>1, <1>2, <1>15, <3>1 DEF RestInv, OrderInv, ActiveReady
  <2> QED  BY <2>1, <2>2
<1>19. PendingOnce'
  <2>1. \A v \in Workers : pc'[v] = "loop" =>
          v # w /\ pc[v] = "loop" /\ todo'[v] = todo[v] /\ cur'[v] = cur[v] /\ todo[v] \subseteq Cell
    BY <1>3, <1>5
  <2>2. \A v \in Workers : pc'[v] = "loop" /\ todo'[v] # {} => cur'[v] \in done'
    BY <1>1, <1>2, <1>9, <2>1 DEF RestInv, OrderInv, PendingOnce
  <2>3. \A v \in Workers : pc'[v] = "loop" => \A s \in todo'[v] : s \notin done' /\ ~ Active(s)'
    <3>1. \A v \in Workers : pc[v] = "loop" => \A s \in todo[v] : s \notin done /\ ~ Active(s) /\ s # h
      BY <1>1, <1>6, <1>9 DEF RestInv, OrderInv, PendingOnce
    <3> QED  BY <1>2, <1>11, <2>1, <3>1
  <2>4. \A u, v \in Workers :
          /\ pc'[u] = "loop" /\ pc'[v] = "loop" /\ cur'[u] = cur'[v]
          /\ todo'[u] # {} /\ todo'[v] # {}
          => u = v
    BY <1>1, <2>1 DEF RestInv, OrderInv, PendingOnce
  <2> QED  BY <2>2, <2>3, <2>4 DEF PendingOnce
<1>20. ComponentQuiet'
  <2> SUFFICES ASSUME NEW v \in Workers, pc'[v] = "restore", NEW c \in Comp(cell[v])
      PROVE  /\ c \notin done'
             /\ c # HeadOfExit(cell[v]) => ~ Active(c)'
             /\ Pred(c) \ Comp(cell[v]) \subseteq done'
             /\ \A u \in Workers : pc'[u] = "loop" => c \notin todo'[u]
    BY <1>2 DEF ComponentQuiet, Pred, Comp
  <2>1. CASE v = w
    <3>1. cell[v] = d /\ c \in K /\ Comp(cell[v]) = K /\ HeadOfExit(cell[v]) = h
      BY <1>4, <1>h, <1>k, <2>1
    <3>2. c \notin done' /\ Pred(c) \ K \subseteq done'
      BY <1>2, <1>16, <3>1
    <3>3. c # h => ~ Active(c)'
      BY <1>6, <1>9, <1>11, <3>1
    <3>4. \A u \in Workers : pc'[u] = "loop" => c \notin todo'[u]
      BY <1>5, <1>9, <3>1
    <3> QED  BY <3>1, <3>2, <3>3, <3>4
  <2>2. CASE v # w
    <3>1. pc[v] = "restore" /\ cell[v] \in Exits(wpo)
      BY <1>1, <1>5, <2>2 DEF TypeInv, LocalsOK, LocalOK
    <3>2. /\ Comp(cell[v]) \subseteq Cell /\ c \in Cell
          /\ Type(HeadOfExit(cell[v])) = "head"
      BY <1>1, <3>1, ExitFacts
    <3>3. /\ c \notin done
          /\ \A e \in Comp(cell[v]) : e # HeadOfExit(cell[v]) => ~ Active(e)
          /\ Pred(c) \ Comp(cell[v]) \subseteq done
          /\ \A u \in Workers : pc[u] = "loop" => c \notin todo[u]
      BY <1>1, <3>1 DEF RestInv, OrderInv, ComponentQuiet
    <3>4. c # h
      BY <1>6, <1>9, <3>3
    <3>5. d \notin Comp(cell[v])
      BY <1>4, <1>7, <3>2, <3>3
    <3>6. \A p \in Pred(c) \ Comp(cell[v]) : p \in done /\ p \notin K
      <4>1. c \notin K
        BY <1>9, <3>3, <3>5
      <4> QED  BY <1>6, <1>8, <3>2, <3>3, <4>1
    <3> QED  BY <1>2, <1>5, <1>11, <3>2, <3>3, <3>4, <3>6
  <2> QED  BY <2>1, <2>2
<1>21. CountersExact'
  <2> SUFFICES ASSUME NEW c \in Cell
      PROVE  /\ c \in done' => executed'[c] = 0
             /\ c \notin done' /\ ~ Active(c)' =>
                  /\ Notified(c)' # Pred(c)
                  /\ ~ Restoring(c)' => executed'[c] = Cardinality(Notified(c)')
    BY <1>12 DEF CountersExact
  <2>1. CASE c \in K
    <3>1. c \notin done' /\ Notified(c)' = Pred(c) \ K
      BY <1>2, <1>16, <2>1
    <3>2. ~ Active(c)' => Notified(c)' # Pred(c)
      BY <1>6, <1>11, <2>1, <3>1
    <3>3. ASSUME ~ Restoring(c)' PROVE executed'[c] = 0 /\ Notified(c)' = {}
      <4>1. c \notin DOMAIN wpo.outer[d]
        BY <1>5, <3>3 DEF Restoring
      <4>2. Pred(c) \subseteq K
        BY <1>1, <1>4, <1>k, <2>1, <4>1, RestoredFacts
      <4>3. executed'[c] = 0
        BY <1>1, <1>5, <1>9, <2>1 DEF RestInv, OrderInv, CountersExact
      <4> QED  BY <3>1, <4>2, <4>3
    <3> QED  BY <3>1, <3>2, <3>3, FS_EmptySet
  <2>2. CASE c \notin K
    <3>1. c # d /\ c # h /\ (c \in done' <=> c \in done) /\ (Active(c)' <=> Active(c))
      BY <1>2, <1>6, <1>11, <2>2
    <3>2. Restoring(c) => Restoring(c)'
      BY <1>2, <1>5 DEF Restoring
    <3> QED  BY <1>1, <1>5, <1>15, <2>2, <3>1, <3>2 DEF RestInv, OrderInv, CountersExact
  <2> QED  BY <2>1, <2>2
<1>22. Exclusive'
  <2>1. /\ pool[h] = 0 /\ \A v \in Workers : ~ Runs(v, h) /\ ~ Waits(v, h)
    <3>1. ~ Active(h) /\ h \in Cell
      BY <1>6, <1>9
    <3>2. pool[h] \in Nat
      BY <1>1, <3>1 DEF TypeOK
    <3> QED  BY <3>1, <3>2 DEF Active, Holds
  <2>2. \A c \in Cell : \A v \in Workers :
          /\ Holds(v, c)' => Holds(v, c) \/ (v = w /\ c = h)
          /\ c = h => (Holds(v, c)' => v = w)
    BY <1>10, <2>1 DEF Holds
  <2>3. \A c \in Cell : \A v \in Workers : Runs(v, c)' => ~ Waits(v, c)'
    BY <1>1, <1>10, <2>1 DEF RestInv, Exclusive
  <2>4. \A c \in Cell : \A v \in Workers :
          /\ Holds(v, c)' => pool'[c] = 0
          /\ \A u \in Workers : Holds(v, c)' /\ Holds(u, c)' => u = v
    BY <1>1, <1>2, <2>1, <2>2 DEF RestInv, Exclusive
  <2> QED  BY <1>1, <1>2, <2>3, <2>4 DEF RestInv, Exclusive
<1>23. LoopsFresh'
  BY <1>1, <1>2, <1>5, FreshSame DEF RestInv
<1>24. FinishedQuiet'
  BY <1>1, <1>2, QuietSame DEF RestInv
<1> QED  BY <1>d, <1>h, <1>k, <1>4, <1>7, <1>9, <1>11, <1>17, <1>18, <1>19, <1>20, <1>21, <1>22, <1>23, <1>24 DEF RestInv, OrderInv

(* Every step of the iterator keeps the invariant.                          *)
LEMMA SchedulerInvStep == SchedulerInv /\ [Next]_vars => SchedulerInv'
<1> SUFFICES ASSUME SchedulerInv, [Next]_vars PROVE SchedulerInv'
  OBVIOUS
<1>1. TypeInv /\ TypeInv'
  BY InvParts, TypeInvStep
<1>2. wpo' = wpo /\ Cell' = Cell
  BY InputSame DEF Cell
<1>3. RestInv'
  <2>1. CASE Finish \/ UNCHANGED vars
    BY <1>2, <2>1, FinishStep
  <2>2. ASSUME NEW w \in Workers, Take(w) \/ Work(w) PROVE RestInv'
    <3>1. CASE Take(w)
      BY <1>1, <1>2, <3>1, TakeStep
    <3>2. CASE Pop(w)
      BY <1>1, <1>2, <3>2, PopStep
    <3>3. CASE EndTask(w)
      BY <1>1, <1>2, <3>3, EndTaskStep
    <3>4. CASE Notify(w)
      BY <1>1, <1>2, <3>4, NotifyStep
    <3>5. CASE Read(w) \/ Analyze(w)
      BY <1>1, <1>2, <3>5, ReadAnalyzeStep
    <3>6. CASE SetPre(w)
      BY <1>1, <1>2, <3>6, SetPreStep
    <3>7. CASE Reset(w)
      BY <1>1, <1>2, <3>7, ResetStep
    <3>8. CASE Check(w)
      BY <1>1, <1>2, <3>8, CheckStep
    <3>9. CASE ResetComponent(w)
      BY <1>1, <1>2, <3>9, ResetComponentStep
    <3>10. CASE Restore(w)
      BY <1>1, <1>2, <3>10, RestoreStep
    <3>11. CASE RunHead(w)
      BY <1>1, <1>2, <3>11, RunHeadStep
    <3> QED  BY <2>2, <3>1, <3>2, <3>3, <3>4, <3>5, <3>6, <3>7, <3>8, <3>9, <3>10, <3>11 DEF Work
  <2> QED  BY <2>1, <2>2 DEF Next
<1> QED  BY <1>1, <1>3 DEF SchedulerInv, TypeInv, RestInv, OrderInv

------------------------------------------------------------------------------
(* The theorems.                                                            *)

(* The inductive invariant always holds: what has run is closed under the   *)
(* scheduling constraints, what is scheduled is ready, each wake-up is due  *)
(* once, and a component is quiet while its counters are restored.          *)
THEOREM SchedulerCorrect == Spec => []SchedulerInv
<1>1. Init => SchedulerInv
  BY InitTypeInv, InitRestInv, InvParts
<1> QED  BY <1>1, SchedulerInvStep, PTL DEF Spec

(* No cell is scheduled or run twice at a time (Body::operator()).          *)
THEOREM ScheduledOnce == Spec => []Exclusive
<1>1. SchedulerInv => Exclusive
  BY DEF SchedulerInv
<1> QED  BY <1>1, SchedulerCorrect, PTL

(* A counter is the number of predecessors that have told the cell in the   *)
(* current iteration: the concurrent increments, resets and restores of     *)
(* _executed_control_preds lose and invent none.                            *)
THEOREM CountersCorrect == Spec => []CountersExact
<1>1. SchedulerInv => CountersExact
  BY DEF SchedulerInv
<1> QED  BY <1>1, SchedulerCorrect, PTL

------------------------------------------------------------------------------
(* The invariant tables need no lock.                                       *)

(* A worker that applies a rule has a cell that has not run, and all that   *)
(* the cell waits for has run.                                              *)
LEMMA RunsReady ==
  ASSUME SchedulerInv, NEW w \in Workers, pc[w] \in RulePcs
  PROVE  /\ cur[w] \in Cell /\ Runs(w, cur[w]) /\ Active(cur[w])
         /\ cur[w] \notin done /\ Pred(cur[w]) \subseteq done
<1>1. cur[w] \in Cell
  BY DEF SchedulerInv, TypeOK
<1>2. Runs(w, cur[w]) /\ Active(cur[w])
  BY DEF Runs, Active, Holds
<1>3. cur[w] \notin done /\ Notified(cur[w]) = Pred(cur[w])
  BY <1>1, <1>2 DEF SchedulerInv, ActiveReady
<1> QED  BY <1>1, <1>2, <1>3 DEF Notified

(* A post is not written while it is joined: its writer has not run, and    *)
(* what is joined has.                                                      *)
LEMMA NoWriteWhileRead ==
  ASSUME SchedulerInv, NEW v \in Workers, NEW w \in Workers, pc[v] = "analyze"
  PROVE  Block(cur[v]) \notin Joins(w)
<1> SUFFICES ASSUME Block(cur[v]) \in Joins(w) PROVE FALSE
  OBVIOUS
<1>1. InputFixed /\ DoneClosed /\ LocalsOK /\ done \in SUBSET Cell
  BY DEF SchedulerInv, TypeOK
<1>2. pc[w] = "read" /\ Block(cur[v]) \in Inputs(cur[w])
  BY DEF Joins
<1>3. Block(cur[v]) \in CfgPred(cfg, Block(cur[w]))
  BY <1>2 DEF Inputs
<1>4. Type(cur[w]) = "head" => Outside(Block(cur[w]), Block(cur[v]))
  BY <1>2 DEF Inputs
<1>5. cur[w] \in Cell /\ Pred(cur[w]) \subseteq done
  BY <1>2, RunsReady DEF RulePcs
<1>6. \A c \in done : wpo.pred[c] \subseteq done
  BY <1>1 DEF DoneClosed, Pred
<1>7. CellOf(wpo, Block(cur[v])) \in done
  BY <1>1, <1>3, <1>4, <1>5, <1>6, OrderWellFormed, InputsBefore
     DEF Pred, Cell, Block, Type, Outside
<1>8. cur[v] \in Cell /\ cur[v] \notin done
  BY RunsReady DEF RulePcs
<1>9. Type(cur[v]) # "exit"
  BY <1>1 DEF LocalsOK, LocalOK
<1>10. CellOf(wpo, Block(cur[v])) = cur[v]
  BY <1>1, <1>8, <1>9, OrderWellFormed, CellOfBlock DEF Cell, Block, Type
<1> QED  BY <1>7, <1>8, <1>10

(* Two workers never apply rules for one block, not even for a head and for *)
(* its exit.                                                                *)
LEMMA NoSharedBlock ==
  ASSUME SchedulerInv, NEW v \in Workers, NEW w \in Workers, v # w,
         pc[v] \in RulePcs, pc[w] \in RulePcs
  PROVE  Block(cur[v]) # Block(cur[w])
<1> SUFFICES ASSUME Block(cur[v]) = Block(cur[w]) PROVE FALSE
  OBVIOUS
<1>1. InputFixed /\ Exclusive
  BY DEF SchedulerInv
<1>2. /\ cur[v] \in Cell /\ Runs(v, cur[v]) /\ Active(cur[v])
      /\ cur[w] \in Cell /\ Runs(w, cur[w]) /\ Active(cur[w])
  BY RunsReady
<1>3. cur[v] # cur[w]
  BY <1>1, <1>2 DEF Exclusive, Holds
<1>4. \/ cur[v] \in Exits(wpo) /\ cur[w] = HeadOfExit(cur[v])
      \/ cur[w] \in Exits(wpo) /\ cur[v] = HeadOfExit(cur[w])
  BY <1>1, <1>2, <1>3, OrderWellFormed, SameBlock DEF Cell, Block
<1>5. \A x \in Exits(wpo) : Active(x) => ~ Active(HeadOfExit(x))
  BY <1>1, ExitFacts, ExitAlone
<1> QED  BY <1>2, <1>4, <1>5

(* Two components that are restored at a time are disjoint: a first cell of *)
(* what they share would wait for neither.                                  *)
LEMMA RestoredDisjoint ==
  ASSUME SchedulerInv, NEW v \in Workers, NEW w \in Workers, v # w,
         pc[v] = "restore", pc[w] = "restore"
  PROVE  Comp(cell[v]) \cap Comp(cell[w]) = {}
<1>1. InputFixed /\ Exclusive /\ ComponentQuiet /\ LocalsOK
  BY DEF SchedulerInv
<1>2. /\ cell[v] \in Exits(wpo) /\ cur[v] = HeadOfExit(cell[v])
      /\ cell[w] \in Exits(wpo) /\ cur[w] = HeadOfExit(cell[w])
  BY <1>1 DEF LocalsOK, LocalOK
<1>3. /\ Runs(v, cur[v]) /\ Active(cur[v]) /\ cur[v] \in Cell
      /\ Runs(w, cur[w])
  BY RunsReady DEF RulePcs
<1>4. cur[v] # cur[w]
  BY <1>1, <1>3 DEF Exclusive, Holds
<1>5. cur[v] \notin Comp(cell[w])
  BY <1>1, <1>2, <1>3, <1>4 DEF ComponentQuiet
<1>6. /\ \A c \in Comp(cell[v]) : c \notin done
      /\ \A c \in Comp(cell[w]) : Pred(c) \ Comp(cell[w]) \subseteq done
  BY <1>1 DEF ComponentQuiet
<1>7. /\ Comp(cell[v]) \subseteq Cell
      /\ \A c \in Comp(cell[v]) \ {cur[v]} : Pred(c) \cap Comp(cell[v]) # {}
  BY <1>1, <1>2, ExitFacts
<1>8. PICK S \in SUBSET Cell : S = Cell \ (Comp(cell[v]) \cap Comp(cell[w]))
  OBVIOUS
<1>9. ASSUME NEW c \in Cell, Pred(c) \subseteq S PROVE c \in S
  <2>1. SUFFICES ASSUME c \in Comp(cell[v]), c \in Comp(cell[w]) PROVE FALSE
    BY <1>8
  <2>2. PICK p \in Pred(c) : p \in Comp(cell[v])
    BY <1>5, <1>7, <2>1
  <2>3. p \in Comp(cell[w])
    BY <1>6, <2>1, <2>2
  <2> QED  BY <1>8, <1>9, <2>2, <2>3
<1>10. S = Cell
  BY <1>1, <1>9, OrderWellFormed, AllCells DEF Pred, Cell
<1> QED  BY <1>7, <1>8, <1>10

(* While a worker joins the posts of its predecessors nobody writes one of  *)
(* them, no two workers touch the invariants, the kind and the count of one *)
(* block, and nobody tells or restores a cell whose counter another worker  *)
(* restores.                                                                *)
THEOREM TablesRaceFree == Spec => []RaceFree
<1>1. ASSUME SchedulerInv PROVE RaceFree
  <2> SUFFICES ASSUME NEW v \in Workers, NEW w \in Workers, v # w
      PROVE  /\ pc[v] = "analyze" => Block(cur[v]) \notin Joins(w)
             /\ {pc[v], pc[w]} \subseteq RulePcs => Block(cur[v]) # Block(cur[w])
             /\ pc[v] = "restore" /\ pc[w] = "loop" => todo[v] \cap todo[w] = {}
             /\ pc[v] = "restore" /\ pc[w] = "restore" => todo[v] \cap todo[w] = {}
    BY DEF RaceFree
  <2>1. pc[v] = "analyze" => Block(cur[v]) \notin Joins(w)
    BY <1>1, NoWriteWhileRead
  <2>2. {pc[v], pc[w]} \subseteq RulePcs => Block(cur[v]) # Block(cur[w])
    BY <1>1, NoSharedBlock
  <2>3. \A u \in Workers : pc[u] = "restore" => todo[u] \subseteq Comp(cell[u])
    BY <1>1, RestoredFacts DEF SchedulerInv, LocalsOK, LocalOK
  <2>4. pc[v] = "restore" /\ pc[w] = "loop" => todo[v] \cap todo[w] = {}
    BY <1>1, <2>3 DEF SchedulerInv, ComponentQuiet
  <2>5. pc[v] = "restore" /\ pc[w] = "restore" => todo[v] \cap todo[w] = {}
    BY <1>1, <2>3, RestoredDisjoint
  <2> QED  BY <2>1, <2>2, <2>4, <2>5
<1> QED  BY <1>1, SchedulerCorrect, PTL

------------------------------------------------------------------------------
(* When parallel_do returns every cell has run, and the cells are as run()  *)
(* found them: the counters cannot leave a cell asleep.                     *)
THEOREM FinishedComplete == Spec => []CompleteWhenFinished
<1>1. ASSUME SchedulerInv, finished
      PROVE  /\ done = Cell
             /\ \A c \in Cell : executed[c] = 0
             /\ \A h \in Heads(wpo) : kind[h] = "increasing" /\ count[h] = 0
  <2>1. InputFixed /\ LocalsOK /\ CountersExact /\ LoopsFresh /\ done \in SUBSET Cell
    BY <1>1 DEF SchedulerInv, TypeOK
  <2>2. /\ \A c \in Cell : pool[c] = 0
        /\ \A w \in Workers : pc[w] = "idle" /\ wl[w] = <<>>
    BY <1>1, <2>1 DEF SchedulerInv, FinishedQuiet, LocalsOK, LocalOK
  <2>3. \A c \in Cell : ~ Active(c)
    BY <2>2 DEF Active, Holds, Runs, Waits, RulePcs
  <2>4. \A c \in Cell : Notified(c) = Pred(c) \cap done
    BY <2>2 DEF Notified, Pending
  <2>5. \A c \in Cell : Pred(c) \subseteq done => c \in done
    BY <2>1, <2>3, <2>4 DEF CountersExact
  <2>6. done = Cell
    BY <2>1, <2>5, OrderWellFormed, AllCells DEF Pred, Cell
  <2>7. \A c \in Cell : executed[c] = 0
    BY <2>1, <2>6 DEF CountersExact
  <2>8. ASSUME NEW h \in Heads(wpo) PROVE kind[h] = "increasing" /\ count[h] = 0
    <3>1. ExitOfHead(h) \in Exits(wpo) /\ h \in Nat
      BY <2>1, OrderWellFormed, CellFacts DEF WellFormed, ComponentsNested, Heads
    <3>2. HeadOfExit(ExitOfHead(h)) = h /\ ExitOfHead(h) \in done
      BY <2>6, <3>1 DEF HeadOfExit, ExitOfHead, Exits, Cell
    <3> QED  BY <2>1, <3>1, <3>2 DEF LoopsFresh
  <2> QED  BY <2>6, <2>7, <2>8
<1>2. SchedulerInv => CompleteWhenFinished
  BY <1>1 DEF CompleteWhenFinished
<1> QED  BY <1>2, SchedulerCorrect, PTL
------------------------------------------------------------------------------
(* The refinement: worklists, tasks and counters implement WpoSchedule,     *)
(* whose running cells are the active ones.                                 *)

(* A step that schedules, completes and repeats nothing is a stutter.       *)
LEMMA Stutters ==
  ASSUME UNCHANGED <<prog, wpo, Cell, done>>, \A c \in Cell : Active(c)' <=> Active(c)
  PROVE  UNCHANGED Schedule!svars
<1>1. {c \in Cell : Active(c)}' = {c \in Cell : Active(c)}
  OBVIOUS
<1> QED  BY <1>1 DEF Schedule!svars

(* To tell a cell may schedule it.                                          *)
LEMMA NotifySchedules ==
  ASSUME SchedulerInv, TypeInv', NEW w \in Workers, Notify(w),
         prog' = prog, wpo' = wpo, Cell' = Cell
  PROVE  \/ UNCHANGED Schedule!svars
         \/ \E c \in Cells(wpo) : Schedule!Schedule(c)
<1>1. done' = done
  BY DEF Notify
<1>2. PICK s \in Cell :
        \/ \A c \in Cell : Active(c)' <=> Active(c)
        \/ /\ s \notin done /\ ~ Active(s) /\ Pred(s) \subseteq done
           /\ \A c \in Cell : Active(c)' <=> Active(c) \/ c = s
  BY NotifyStep
<1>3. CASE \A c \in Cell : Active(c)' <=> Active(c)
  BY <1>1, <1>3, Stutters
<1>4. CASE /\ s \notin done /\ ~ Active(s) /\ Pred(s) \subseteq done
           /\ \A c \in Cell : Active(c)' <=> Active(c) \/ c = s
  <2>1. {c \in Cell : Active(c)}' = {c \in Cell : Active(c)} \cup {s}
    BY <1>4
  <2>2. Schedule!Schedule(s)
    BY <1>1, <1>4, <2>1 DEF Schedule!Schedule, Pred
  <2> QED  BY <2>2 DEF Cell
<1> QED  BY <1>2, <1>3, <1>4

(* A cell whose rule is applied completes.                                  *)
LEMMA ResetCompletes ==
  ASSUME SchedulerInv, TypeInv', NEW w \in Workers, Reset(w),
         prog' = prog, wpo' = wpo, Cell' = Cell
  PROVE  \E c \in Cells(wpo) : Schedule!Complete(c)
<1>1. /\ Active(cur[w])
      /\ \A c \in Cell : Active(c)' <=> Active(c) /\ c # cur[w]
  BY ResetStep
<1>2. done' = done \cup {cur[w]} /\ cur[w] \in Cell
  BY InvParts DEF Reset, TypeInv, TypeOK
<1>3. {c \in Cell : Active(c)}' = {c \in Cell : Active(c)} \ {cur[w]}
  BY <1>1
<1>4. Schedule!Complete(cur[w])
  BY <1>1, <1>2, <1>3 DEF Schedule!Complete
<1> QED  BY <1>2, <1>4 DEF Cell

(* A component that is not stable is repeated.                              *)
LEMMA ResetComponentRepeats ==
  ASSUME SchedulerInv, TypeInv', NEW w \in Workers, ResetComponent(w),
         prog' = prog, wpo' = wpo, Cell' = Cell
  PROVE  \E x \in Exits(wpo) : Schedule!Repeat(x)
<1>1. /\ cur[w] \in Exits(wpo) /\ Active(cur[w])
      /\ Comp(cur[w]) \subseteq done \cup {cur[w]}
      /\ \A c \in Cell : Active(c)' <=> (Active(c) /\ c # cur[w]) \/ c = HeadOfExit(cur[w])
  BY ResetComponentStep
<1>2. done' = done \ Comp(cur[w])
  BY DEF ResetComponent
<1>3. HeadOfExit(cur[w]) \in Cell /\ cur[w] \in Cell
  BY <1>1, ExitFacts, InvParts DEF TypeInv
<1>4. {c \in Cell : Active(c)}' = ({c \in Cell : Active(c)} \ {cur[w]}) \cup {HeadOfExit(cur[w])}
  BY <1>1, <1>3
<1>5. Schedule!Repeat(cur[w])
  BY <1>1, <1>2, <1>3, <1>4 DEF Schedule!Repeat, Schedule!HeadOfExit, HeadOfExit, Comp
<1> QED  BY <1>1, <1>5

(* Every step of the iterator is a step of the abstract scheduler, or none. *)
LEMMA StepImplements ==
  ASSUME SchedulerInv, [Next]_vars
  PROVE  [Schedule!SNext]_(Schedule!svars)
<1>1. /\ TypeInv' /\ InputFixed
      /\ prog' = prog /\ wpo' = wpo /\ Cell' = Cell
  BY InvParts, TypeInvStep, InputSame DEF TypeInv
<1>2. CASE Finish \/ UNCHANGED vars
  <2>1. done' = done
    BY <1>2 DEF Finish, vars
  <2> QED  BY <1>1, <1>2, <2>1, FinishStep, Stutters
<1>3. ASSUME NEW w \in Workers, Take(w) \/ Work(w)
      PROVE  [Schedule!SNext]_(Schedule!svars)
  <2>1. CASE Take(w) \/ Pop(w) \/ EndTask(w) \/ RunHead(w)
    <3>1. done' = done
      BY <2>1 DEF Take, Pop, EndTask, RunHead
    <3>2. \A c \in Cell : Active(c)' <=> Active(c)
      BY <1>1, <2>1, TakeStep, PopStep, EndTaskStep, RunHeadStep
    <3> QED  BY <1>1, <3>1, <3>2, Stutters
  <2>2. CASE Read(w) \/ Analyze(w) \/ SetPre(w) \/ Check(w) \/ Restore(w)
    <3>1. done' = done
      BY <2>2 DEF Read, Analyze, SetPre, Check, Restore
    <3>2. \A c \in Cell : Active(c)' <=> Active(c)
      BY <1>1, <2>2, ReadAnalyzeStep, SetPreStep, CheckStep, RestoreStep
    <3> QED  BY <1>1, <3>1, <3>2, Stutters
  <2>3. CASE Notify(w)
    BY <1>1, <2>3, NotifySchedules DEF Schedule!SNext, Schedule!Cells, Cells
  <2>4. CASE Reset(w)
    BY <1>1, <2>4, ResetCompletes DEF Schedule!SNext, Schedule!Cells, Cells
  <2>5. CASE ResetComponent(w)
    BY <1>1, <2>5, ResetComponentRepeats
      DEF Schedule!SNext, Schedule!Exits, Schedule!Cells, Exits, Cells
  <2> QED  BY <1>3, <2>1, <2>2, <2>3, <2>4, <2>5 DEF Work
<1> QED  BY <1>2, <1>3 DEF Next

(* At first the entry, and only it, is running.                             *)
LEMMA InitImplements == Init => Schedule!SInit
<1> SUFFICES ASSUME Init PROVE Schedule!SInit
  OBVIOUS
<1>1. /\ prog \in Programs /\ wpo = WpoOf[prog] /\ done = {}
      /\ \A v \in Workers : pc[v] = "idle" /\ wl[v] = <<>>
      /\ \A c \in Cell : pool[c] = IF c = GetEntry(wpo) THEN 1 ELSE 0
  BY DEF Init
<1>2. \A c \in Cell : Active(c) <=> c = GetEntry(wpo)
  BY <1>1 DEF Active, Holds, Runs, Waits, RulePcs
<1>3. GetEntry(wpo) \in Cell
  BY <1>1, InitTypeInv, OrderWellFormed, CellFacts DEF TypeInv, Cell
<1>4. {c \in Cell : Active(c)} = {GetEntry(wpo)}
  BY <1>2, <1>3
<1>5. Schedule!GetEntry(wpo) = GetEntry(wpo)
  BY DEF Schedule!GetEntry, Schedule!Cells, GetEntry, Cells, Schedule!Cardinality, Cardinality
<1> QED  BY <1>1, <1>4, <1>5 DEF Schedule!SInit

(* The concurrent iterator implements the abstract scheduler: every cell    *)
(* runs once per iteration, after all that it waits for, and a component is *)
(* repeated as a whole, from its head, when nothing of it runs.             *)
THEOREM ImplementsSchedule == Spec => ScheduleSpec
<1>1. Init => Schedule!SInit
  BY InitImplements
<1>2. SchedulerInv /\ [Next]_vars => [Schedule!SNext]_(Schedule!svars)
  BY StepImplements
<1> QED  BY <1>1, <1>2, SchedulerCorrect, PTL DEF Spec, ScheduleSpec, Schedule!SSpec
==============================================================================
