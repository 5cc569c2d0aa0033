---------------------------- MODULE LadderProofs ----------------------------
(***************************************************************************)
(* Proof that what the controller computes is what the drawing shows, for  *)
(* every number of slots, every toolbox and every rung (Ladder).           *)
(*                                                                         *)
(* All three builders and the flow of the simulator are recursive          *)
(* definitions; each is shown to satisfy its equations first.  Then:       *)
(* the flow reaches a node exactly if the expression of the node is true;  *)
(* without stored outputs the paths from the right end say the same as the *)
(* paths from the left end; and where the readable form does not give up,  *)
(* every group it forms has the value of the wires it stands for.          *)
(***************************************************************************)
EXTENDS Ladder, RecursionTheorems

Cell   == Symbols \cup {Empty}
Cells  == [0 .. Slots - 1 -> Cell]
Branch == {b \in [start : 0 .. Slots, end : 0 .. Slots, cells : Cells] : b.start < b.end}

BlockTags == {e.tag : e \in BlockSymbols}
Block     == [n : Nat, last : BOOLEAN, output : BOOLEAN]

\* What the program works on.
Memories == [tags : [Tags -> BOOLEAN], blocks : [BlockTags -> Block]]

\* The drawing of the rung.
Drawing == main \in Cells /\ branches \in Seq(Branch)

\* Expressions that are not null: the texts 'true' and 'false' say what they
\* mean.
Expr ==
  {p \in [text : {"true", "false", "other"}, value : BOOLEAN] :
     /\ p.text = "true" => p.value
     /\ p.text = "false" => ~p.value}

-----------------------------------------------------------------------------
(***************************************************************************)
(* Expressions                                                             *)
(***************************************************************************)

LEMMA TextFacts ==
  /\ \A b \in BOOLEAN : Lit(b) \in Expr /\ Lit(b).value = b
  /\ \A b \in BOOLEAN : Other(b) \in Expr /\ Other(b).value = b /\ Other(b).text = "other"
  /\ Lit(TRUE).text = "true" /\ Lit(FALSE).text = "false"
  /\ Null \notin Expr /\ Null.text = "null"
  /\ \A p \in Expr : p.text # "null" /\ p.value \in BOOLEAN
BY DEF Lit, Other, Null, Expr

LEMMA AndFacts ==
  ASSUME NEW p \in Expr, NEW q \in Expr
  PROVE  /\ exprAnd(p, q) \in Expr
         /\ exprAnd(p, q).value = (p.value /\ q.value)
         /\ exprAnd(p, q).text = "true" => p.text = "true" /\ q.text = "true"
<1>1. /\ p.value \in BOOLEAN /\ q.value \in BOOLEAN
      /\ p.text = "true" => p.value = TRUE
      /\ q.text = "true" => q.value = TRUE
  BY DEF Expr
<1>2. CASE p.text = "true"
  BY <1>1, <1>2 DEF exprAnd
<1>3. CASE p.text # "true" /\ q.text = "true"
  BY <1>1, <1>3 DEF exprAnd
<1>4. CASE p.text # "true" /\ q.text # "true"
  <2>1. exprAnd(p, q) = Other(p.value /\ q.value)
    BY <1>4 DEF exprAnd
  <2>2. Other(p.value /\ q.value).text = "other"
    BY DEF Other
  <2>3. QED
    BY <1>1, <2>1, <2>2, TextFacts
<1>5. QED
  BY <1>2, <1>3, <1>4

LEMMA OrFacts ==
  ASSUME NEW parts \in SUBSET Expr
  PROVE  /\ exprOr(parts) \in Expr
         /\ exprOr(parts).value = (\E p \in parts : p.value)
         /\ exprOr(parts).text = "true" => \E p \in parts : p.text = "true"
<1> DEFINE clean == {p \in parts : p.text # "false"}
<1>1. \A p \in parts : /\ p.value \in BOOLEAN
                       /\ p.text = "true" => p.value = TRUE
                       /\ p.text = "false" => p.value = FALSE
  BY DEF Expr
<1>2. CASE clean = {}
  BY <1>1, <1>2, TextFacts DEF exprOr
<1>3. CASE clean # {} /\ \E p \in clean : p.text = "true"
  BY <1>1, <1>3, TextFacts DEF exprOr
<1>4. CASE clean # {} /\ ~\E p \in clean : p.text = "true"
  <2>1. exprOr(parts) = Other(\E p \in clean : p.value)
    BY <1>4 DEF exprOr
  <2>2. (\E p \in clean : p.value) \in BOOLEAN
    OBVIOUS
  <2>3. Other(\E p \in clean : p.value).text = "other"
    BY DEF Other
  <2>4. Other(\E p \in clean : p.value).value = (\E p \in clean : p.value)
    BY DEF Other
  <2>5. (\E p \in clean : p.value) = (\E p \in parts : p.value)
    BY <1>1
  <2>6. Other(\E p \in clean : p.value) \in Expr
    BY <2>2, TextFacts, Zenon
  <2> HIDE DEF clean
  <2>7. QED
    BY <2>1, <2>3, <2>4, <2>5, <2>6
<1>5. QED
  BY <1>2, <1>3, <1>4

LEMMA ValueOfTag ==
  ASSUME NEW mem \in Memories, NEW t \in Tags
  PROVE  TagValue(mem, t) \in BOOLEAN
BY DEF Memories, Block, TagValue

LEMMA CellFacts ==
  ASSUME NEW e \in Cell
  PROVE  /\ e.type \in {"NO", "NC"} \cup BlockTypes => e \in Symbols
         /\ e.type \in BlockTypes => e.tag \in BlockTags
         /\ e \in Symbols => e.tag \in Tags /\ e.reset \in Tags
<1>1. e.type \in {"NO", "NC"} \cup BlockTypes => e \in Symbols
  <2>1. Empty.type \notin {"NO", "NC"} \cup BlockTypes
    BY DEF Empty, BlockTypes, Timers, Counters
  <2>2. QED
    BY <2>1 DEF Cell
<1>2. e.type \in BlockTypes => e.tag \in BlockTags
  BY <1>1 DEF BlockTags, BlockSymbols
<1>3. e \in Symbols => e.tag \in Tags /\ e.reset \in Tags
  BY DEF Tags
<1>4. QED
  BY <1>1, <1>2, <1>3

LEMMA ConditionFacts ==
  ASSUME NEW mem \in Memories, NEW e \in Cell
  PROVE  /\ elementCondition(mem, e) \in Expr
         /\ IsCondition(e) => elementCondition(mem, e).text = "other"
         /\ ~IsCondition(e) => elementCondition(mem, e) = Lit(TRUE)
<1>1. CASE e.type \in {"NO"} \cup BlockTypes
  <2>1. TagValue(mem, e.tag) \in BOOLEAN
    BY <1>1, CellFacts, ValueOfTag
  <2>2. IsCondition(e) /\ elementCondition(mem, e) = Other(TagValue(mem, e.tag))
    BY <1>1 DEF elementCondition, IsCondition
  <2>3. QED
    BY <2>1, <2>2, TextFacts
<1>2. CASE e.type = "NC"
  <2>1. TagValue(mem, e.tag) \in BOOLEAN
    BY <1>2, CellFacts, ValueOfTag
  <2>2. IsCondition(e) /\ elementCondition(mem, e) = Other(~TagValue(mem, e.tag))
    BY <1>2 DEF elementCondition, IsCondition, BlockTypes, Timers, Counters
  <2>3. QED
    BY <2>1, <2>2, TextFacts
<1>3. CASE e.type \notin {"NO", "NC"} \cup BlockTypes
  <2>1. ~IsCondition(e) /\ elementCondition(mem, e) = Lit(TRUE)
    BY <1>3 DEF elementCondition, IsCondition
  <2>2. QED
    BY <2>1, TextFacts
<1>4. QED
  BY <1>1, <1>2, <1>3

\* Conditions in series: all of them.
LEMMA SeriesFacts ==
  ASSUME NEW mem \in Memories, NEW cells \in Cells,
         NEW first \in 0 .. Slots, NEW last \in 0 .. Slots
  PROVE  /\ seriesCondition(mem, cells, first, last) \in Expr
         /\ seriesCondition(mem, cells, first, last).value
              = \A i \in first .. last - 1 : elementCondition(mem, cells[i]).value
         /\ (\E i \in first .. last - 1 : IsCondition(cells[i]))
              => seriesCondition(mem, cells, first, last).text # "true"
<1> DEFINE conds == {elementCondition(mem, cells[i]) : i \in first .. last - 1}
<1>1. \A i \in first .. last - 1 : cells[i] \in Cell
  BY LadderAssumption DEF Cells
<1>2. conds \subseteq Expr
  BY <1>1, ConditionFacts
<1>3. (\A c \in conds : c.value) = \A i \in first .. last - 1 : elementCondition(mem, cells[i]).value
  OBVIOUS
<1>4. CASE \A c \in conds : c.text = "true"
  <2>1. seriesCondition(mem, cells, first, last) = Lit(TRUE)
    BY <1>4 DEF seriesCondition
  <2>2. \A c \in conds : c.value = TRUE
    BY <1>2, <1>4 DEF Expr
  <2>3. (\A i \in first .. last - 1 : elementCondition(mem, cells[i]).value) = TRUE
    BY <2>2, <1>3
  <2>4. ASSUME NEW i \in first .. last - 1 PROVE ~IsCondition(cells[i])
    <3>1. elementCondition(mem, cells[i]).text = "true"
      BY <1>4
    <3>2. QED
      BY <3>1, <1>1, ConditionFacts
  <2> HIDE DEF conds
  <2>5. QED
    BY <2>1, <2>3, <2>4, TextFacts
<1>5. CASE ~\A c \in conds : c.text = "true"
  <2>1. seriesCondition(mem, cells, first, last) = Other(\A c \in conds : c.value)
    BY <1>5 DEF seriesCondition
  <2>2. (\A c \in conds : c.value) \in BOOLEAN
    OBVIOUS
  <2>3. Other(\A c \in conds : c.value) \in Expr
    BY <2>2, TextFacts, Zenon
  <2>4. /\ Other(\A c \in conds : c.value).value = (\A c \in conds : c.value)
        /\ Other(\A c \in conds : c.value).text = "other"
    BY DEF Other
  <2> HIDE DEF conds
  <2>5. QED
    BY <2>1, <2>3, <2>4, <1>3
<1>6. QED
  BY <1>4, <1>5

LEMMA PowerFacts ==
  ASSUME NEW mem \in Memories, NEW power \in Expr, NEW e \in Cell
  PROVE  /\ exprWithElementPower(mem, power, e) \in Expr
         /\ exprWithElementPower(mem, power, e).value
              = simPowerThroughElement(mem, power.value, e)
         /\ simPowerThroughElement(mem, power.value, e) \in BOOLEAN
         /\ e.type \notin StoredOutput =>
              simPowerThroughElement(mem, power.value, e)
                = (power.value /\ elementCondition(mem, e).value)
<1>1. power.value \in BOOLEAN /\ elementCondition(mem, e).value \in BOOLEAN
  BY ConditionFacts, TextFacts
<1>2. CASE e.type \in Coils
  <2>1. elementCondition(mem, e).value = TRUE
    BY <1>2, ConditionFacts, TextFacts DEF IsCondition, Coils, BlockTypes, Timers, Counters
  <2>2. e.type \notin StoredOutput
    BY <1>2 DEF Coils, StoredOutput
  <2>3. QED
    BY <1>1, <1>2, <2>1, <2>2
       DEF exprWithElementPower, simPowerThroughElement, simEvalElement
<1>3. CASE e.type \in StoredOutput
  <2>1. e.type \in BlockTypes /\ e.type \notin Coils
    BY <1>3 DEF Coils, StoredOutput, BlockTypes, Timers, Counters
  <2>2. TagValue(mem, e.tag) \in BOOLEAN
    BY <2>1, CellFacts, ValueOfTag
  <2>3. /\ exprWithElementPower(mem, power, e) = Other(TagValue(mem, e.tag))
        /\ elementCondition(mem, e) = Other(TagValue(mem, e.tag))
    BY <1>3, <2>1 DEF exprWithElementPower, elementCondition
  <2>4. QED
    BY <1>1, <1>3, <2>2, <2>3, TextFacts DEF simPowerThroughElement, simEvalElement
<1>4. CASE e.type \notin Coils \cup StoredOutput
  <2>1. exprWithElementPower(mem, power, e) = exprAnd(power, elementCondition(mem, e))
    BY <1>4 DEF exprWithElementPower
  <2>2. elementCondition(mem, e) \in Expr
    BY ConditionFacts
  <2>3. /\ exprAnd(power, elementCondition(mem, e)) \in Expr
        /\ exprAnd(power, elementCondition(mem, e)).value
             = (power.value /\ elementCondition(mem, e).value)
    BY <2>2, AndFacts
  <2>4. simPowerThroughElement(mem, power.value, e)
          = (power.value /\ elementCondition(mem, e).value)
    BY <1>4 DEF simPowerThroughElement, simEvalElement
  <2>5. QED
    BY <1>1, <2>1, <2>3, <2>4
<1>5. QED
  BY <1>2, <1>3, <1>4

\* p[i] is the power left of the symbol in slot i of a path.
PowerAlong(p, mem, power, cells, first, last) ==
  /\ p \in [first .. last -> Expr]
  /\ p[first] = power
  /\ \A i \in first + 1 .. last : p[i] = exprWithElementPower(mem, p[i - 1], cells[i - 1])

LEMMA SeriesPowerIsChain ==
  ASSUME NEW mem \in Memories, NEW power \in Expr, NEW cells \in Cells,
         NEW first \in 0 .. Slots, NEW last \in first .. Slots
  PROVE  \E p : /\ PowerAlong(p, mem, power, cells, first, last)
                /\ seriesPowerExpression(mem, power, cells, first, last) = p[last]
<1> DEFINE D == first .. last
           step == [i \in first + 1 .. last |-> [q \in Expr |->
                      exprWithElementPower(mem, q, cells[i - 1])]]
           Body(g) == [i \in first .. last |->
                         IF i = first THEN power
                         ELSE exprWithElementPower(mem, g[i - 1], cells[i - 1])]
<1>1. first \in Nat /\ last \in Nat /\ first <= last
  BY LadderAssumption
<1>2. \A i \in first + 1 .. last : cells[i - 1] \in Cell /\ i - 1 \in D /\ i \in D /\ i # first
  BY LadderAssumption DEF Cells
<1>3. step \in [first + 1 .. last -> [Expr -> Expr]]
  BY <1>2, PowerFacts
<1>4. PICK p : Chain(p, first, last, Expr, power, step)
  <2> HIDE DEF step
  <2>1. QED
    BY <1>1, <1>3, ChainRecursion
<1>5. \A i \in first + 1 .. last : p[i] = exprWithElementPower(mem, p[i - 1], cells[i - 1])
  BY <1>2, <1>4 DEF Chain
<1>6. p = Body(p)
  <2>1. \A i \in D : i # first => i \in first + 1 .. last
    BY <1>1
  <2>2. \A i \in D : p[i] = Body(p)[i]
    BY <1>4, <1>5, <2>1 DEF Chain
  <2>3. QED
    BY <1>4, <2>2 DEF Chain
<1> DEFINE F == CHOOSE g : g = Body(g)
<1>7. F = Body(F)
  BY <1>6
<1>8. seriesPowerExpression(mem, power, cells, first, last) = F[last]
  BY DEF seriesPowerExpression
<1> HIDE DEF F
<1>9. F[first] = power /\ F = [i \in D |-> F[i]]
  BY <1>1, <1>7
<1>10. \A i \in first + 1 .. last : F[i] = exprWithElementPower(mem, F[i - 1], cells[i - 1])
  BY <1>2, <1>7
<1> DEFINE T == {i \in D : F[i] \in Expr}
<1>11. \A i \in first .. last : i \in T
  <2>1. first \in T
    BY <1>1, <1>9
  <2>2. ASSUME NEW i \in first .. last, i \in T, i < last
        PROVE  i + 1 \in T
    <3>1. i + 1 \in first + 1 .. last /\ (i + 1) - 1 = i
      BY <1>1, <2>2
    <3>2. F[i + 1] = exprWithElementPower(mem, F[i], cells[i]) /\ cells[i] \in Cell
      BY <1>2, <1>10, <3>1
    <3>3. QED
      BY <1>2, <2>2, <3>1, <3>2, PowerFacts
  <2> HIDE DEF T
  <2>3. QED
    BY <1>1, <2>1, <2>2, InductionFromTo
<1>12. F \in [D -> Expr]
  BY <1>9, <1>11
<1>13. QED
  BY <1>8, <1>9, <1>10, <1>12 DEF PowerAlong

LEMMA ElementFlow ==
  ASSUME NEW mem \in Memories, NEW e \in Cell
  PROVE  /\ \A v \in BOOLEAN : simPowerThroughElement(mem, v, e) \in BOOLEAN
         /\ simPowerThroughElement(mem, FALSE, e) => simPowerThroughElement(mem, TRUE, e)
<1>1. ASSUME NEW v \in BOOLEAN
      PROVE  simPowerThroughElement(mem, v, e) \in BOOLEAN
  <2>1. Lit(v) \in Expr /\ Lit(v).value = v
    BY TextFacts
  <2>2. QED
    BY <2>1, PowerFacts
<1>2. simPowerThroughElement(mem, FALSE, e) => simPowerThroughElement(mem, TRUE, e)
  BY DEF simPowerThroughElement
<1>3. QED
  BY <1>1, <1>2

\* q[i] says whether power arrives left of the symbol in slot i of a path.
FlowAlong(q, mem, power, cells, first, last) ==
  /\ q \in [first .. last -> BOOLEAN]
  /\ q[first] = power
  /\ \A i \in first + 1 .. last : q[i] = simPowerThroughElement(mem, q[i - 1], cells[i - 1])

LEMMA SeriesFlowIsChain ==
  ASSUME NEW mem \in Memories, NEW power \in BOOLEAN, NEW cells \in Cells,
         NEW first \in 0 .. Slots, NEW last \in first .. Slots
  PROVE  \E q : /\ FlowAlong(q, mem, power, cells, first, last)
                /\ simPowerThroughSeries(mem, power, cells, first, last) = q[last]
<1> DEFINE D == first .. last
           step == [i \in first + 1 .. last |-> [v \in BOOLEAN |->
                      simPowerThroughElement(mem, v, cells[i - 1])]]
           Body(g) == [i \in first .. last |->
                         IF i = first THEN power
                         ELSE simPowerThroughElement(mem, g[i - 1], cells[i - 1])]
<1>1. first \in Nat /\ last \in Nat /\ first <= last
  BY LadderAssumption
<1>2. \A i \in first + 1 .. last : cells[i - 1] \in Cell /\ i - 1 \in D /\ i \in D /\ i # first
  BY LadderAssumption DEF Cells
<1>3. step \in [first + 1 .. last -> [BOOLEAN -> BOOLEAN]]
  BY <1>2, ElementFlow
<1>4. PICK p : Chain(p, first, last, BOOLEAN, power, step)
  <2> HIDE DEF step
  <2>1. QED
    BY <1>1, <1>3, ChainRecursion
<1>5. \A i \in first + 1 .. last : p[i] = simPowerThroughElement(mem, p[i - 1], cells[i - 1])
  BY <1>2, <1>4 DEF Chain
<1>6. p = Body(p)
  <2>1. \A i \in D : i # first => i \in first + 1 .. last
    BY <1>1
  <2>2. \A i \in D : p[i] = Body(p)[i]
    BY <1>4, <1>5, <2>1 DEF Chain
  <2>3. QED
    BY <1>4, <2>2 DEF Chain
<1> DEFINE F == CHOOSE g : g = Body(g)
<1>7. F = Body(F)
  BY <1>6
<1>8. simPowerThroughSeries(mem, power, cells, first, last) = F[last]
  BY DEF simPowerThroughSeries
<1> HIDE DEF F
<1>9. F[first] = power /\ F = [i \in D |-> F[i]]
  BY <1>1, <1>7
<1>10. \A i \in first + 1 .. last : F[i] = simPowerThroughElement(mem, F[i - 1], cells[i - 1])
  BY <1>2, <1>7
<1> DEFINE T == {i \in D : F[i] \in BOOLEAN}
<1>11. \A i \in first .. last : i \in T
  <2>1. first \in T
    BY <1>1, <1>9
  <2>2. ASSUME NEW i \in first .. last, i \in T, i < last
        PROVE  i + 1 \in T
    <3>1. i + 1 \in first + 1 .. last /\ (i + 1) - 1 = i
      BY <1>1, <2>2
    <3>2. F[i + 1] = simPowerThroughElement(mem, F[i], cells[i]) /\ cells[i] \in Cell
      BY <1>2, <1>10, <3>1
    <3>3. QED
      BY <1>2, <2>2, <3>1, <3>2, ElementFlow
  <2> HIDE DEF T
  <2>3. QED
    BY <1>1, <2>1, <2>2, InductionFromTo
<1>12. F \in [D -> BOOLEAN]
  BY <1>9, <1>11
<1>13. QED
  BY <1>8, <1>9, <1>10, <1>12 DEF FlowAlong

\* The transpiler and the simulator let the same power through a path.
LEMMA SeriesPowerFacts ==
  ASSUME NEW mem \in Memories, NEW power \in Expr, NEW cells \in Cells,
         NEW first \in 0 .. Slots, NEW last \in first .. Slots
  PROVE  /\ seriesPowerExpression(mem, power, cells, first, last) \in Expr
         /\ seriesPowerExpression(mem, power, cells, first, last).value
              = simPowerThroughSeries(mem, power.value, cells, first, last)
<1>1. power.value \in BOOLEAN
  BY TextFacts
<1>2. PICK p : /\ PowerAlong(p, mem, power, cells, first, last)
               /\ seriesPowerExpression(mem, power, cells, first, last) = p[last]
  BY SeriesPowerIsChain
<1>3. PICK q : /\ FlowAlong(q, mem, power.value, cells, first, last)
               /\ simPowerThroughSeries(mem, power.value, cells, first, last) = q[last]
  BY <1>1, SeriesFlowIsChain
<1>4. first \in Nat /\ last \in Nat /\ first \in first .. last /\ last \in first .. last
  BY LadderAssumption
<1> DEFINE T == {i \in first .. last : p[i].value = q[i]}
<1>5. first \in T
  BY <1>2, <1>3, <1>4 DEF PowerAlong, FlowAlong
<1>6. ASSUME NEW i \in first .. last, i \in T, i < last
      PROVE  i + 1 \in T
  <2>1. i + 1 \in first + 1 .. last /\ (i + 1) - 1 = i /\ i + 1 \in first .. last
    BY <1>4, <1>6
  <2>2. cells[i] \in Cell /\ p[i] \in Expr
    <3>1. i \in 0 .. Slots - 1
      BY <1>4, <1>6, LadderAssumption
    <3>2. QED
      BY <1>2, <3>1 DEF Cells, PowerAlong
  <2>3. p[i + 1] = exprWithElementPower(mem, p[i], cells[i])
    BY <1>2, <2>1 DEF PowerAlong
  <2>4. q[i + 1] = simPowerThroughElement(mem, q[i], cells[i])
    BY <1>3, <2>1 DEF FlowAlong
  <2>5. p[i].value = q[i]
    BY <1>6
  <2>6. exprWithElementPower(mem, p[i], cells[i]).value = simPowerThroughElement(mem, p[i].value, cells[i])
    BY <2>2, PowerFacts
  <2>7. p[i + 1].value = q[i + 1]
    BY <2>3, <2>4, <2>5, <2>6
  <2>8. QED
    BY <2>1, <2>7
<1>7. last \in T
  <2> HIDE DEF T
  <2>1. \A i \in first .. last : i \in T
    BY <1>4, <1>5, <1>6, InductionFromTo
  <2>2. QED
    BY <1>4, <2>1
<1>8. QED
  BY <1>2, <1>3, <1>4, <1>7 DEF PowerAlong

LEMMA SeriesFlowFacts ==
  ASSUME NEW mem \in Memories, NEW cells \in Cells,
         NEW first \in 0 .. Slots, NEW last \in first .. Slots
  PROVE  /\ \A v \in BOOLEAN : simPowerThroughSeries(mem, v, cells, first, last) \in BOOLEAN
         /\ simPowerThroughSeries(mem, FALSE, cells, first, last)
              => simPowerThroughSeries(mem, TRUE, cells, first, last)
         /\ (\A i \in first .. last - 1 : cells[i].type \notin StoredOutput) =>
              \A v \in BOOLEAN :
                simPowerThroughSeries(mem, v, cells, first, last)
                  = (v /\ seriesCondition(mem, cells, first, last).value)
<1>1. first \in Nat /\ last \in Nat /\ first \in first .. last /\ last \in first .. last
  BY LadderAssumption
<1>2. ASSUME NEW i \in first .. last, i < last
      PROVE  /\ i + 1 \in first + 1 .. last /\ (i + 1) - 1 = i /\ i + 1 \in first .. last
             /\ i \in first .. last - 1 /\ cells[i] \in Cell
  <2>1. i \in 0 .. Slots - 1 /\ i \in first .. last - 1
    BY <1>1, <1>2, LadderAssumption
  <2>2. QED
    BY <1>1, <1>2, <2>1 DEF Cells
<1>3. ASSUME NEW v \in BOOLEAN
      PROVE  simPowerThroughSeries(mem, v, cells, first, last) \in BOOLEAN
  <2>1. PICK q : /\ FlowAlong(q, mem, v, cells, first, last)
                 /\ simPowerThroughSeries(mem, v, cells, first, last) = q[last]
    BY SeriesFlowIsChain
  <2>2. QED
    BY <1>1, <2>1 DEF FlowAlong
<1>4. simPowerThroughSeries(mem, FALSE, cells, first, last)
        => simPowerThroughSeries(mem, TRUE, cells, first, last)
  <2>1. PICK q : /\ FlowAlong(q, mem, FALSE, cells, first, last)
                 /\ simPowerThroughSeries(mem, FALSE, cells, first, last) = q[last]
    BY SeriesFlowIsChain
  <2>2. PICK r : /\ FlowAlong(r, mem, TRUE, cells, first, last)
                 /\ simPowerThroughSeries(mem, TRUE, cells, first, last) = r[last]
    BY SeriesFlowIsChain
  <2> DEFINE T == {i \in first .. last : q[i] => r[i]}
  <2>3. first \in T
    BY <1>1, <2>1, <2>2 DEF FlowAlong
  <2>4. ASSUME NEW i \in first .. last, i \in T, i < last
        PROVE  i + 1 \in T
    <3>1. /\ q[i + 1] = simPowerThroughElement(mem, q[i], cells[i])
          /\ r[i + 1] = simPowerThroughElement(mem, r[i], cells[i])
          /\ q[i] \in BOOLEAN /\ r[i] \in BOOLEAN /\ i + 1 \in first .. last
      BY <1>2, <2>1, <2>2, <2>4 DEF FlowAlong
    <3>2. q[i] => r[i]
      BY <2>4
    <3>3. q[i + 1] => r[i + 1]
      BY <1>2, <2>4, <3>1, <3>2, ElementFlow
    <3>4. QED
      BY <3>1, <3>3
  <2>5. last \in T
    <3> HIDE DEF T
    <3>1. \A i \in first .. last : i \in T
      BY <1>1, <2>3, <2>4, InductionFromTo
    <3>2. QED
      BY <1>1, <3>1
  <2>6. QED
    BY <2>1, <2>2, <2>5
<1>5. ASSUME \A i \in first .. last - 1 : cells[i].type \notin StoredOutput,
             NEW v \in BOOLEAN
      PROVE  simPowerThroughSeries(mem, v, cells, first, last)
               = (v /\ seriesCondition(mem, cells, first, last).value)
  <2>1. PICK q : /\ FlowAlong(q, mem, v, cells, first, last)
                 /\ simPowerThroughSeries(mem, v, cells, first, last) = q[last]
    BY SeriesFlowIsChain
  <2> DEFINE all(j) == \A i \in first .. j - 1 : elementCondition(mem, cells[i]).value
             T == {j \in first .. last : q[j] = (v /\ all(j))}
  <2>2. first \in T
    BY <1>1, <2>1 DEF FlowAlong
  <2>3. ASSUME NEW j \in first .. last, j \in T, j < last
        PROVE  j + 1 \in T
    <3>1. /\ q[j + 1] = simPowerThroughElement(mem, q[j], cells[j])
          /\ q[j] \in BOOLEAN /\ j + 1 \in first .. last /\ cells[j] \in Cell
          /\ cells[j].type \notin StoredOutput
      BY <1>2, <1>5, <2>1, <2>3 DEF FlowAlong
    <3>2. q[j + 1] = (q[j] /\ elementCondition(mem, cells[j]).value)
      BY <3>1 DEF simPowerThroughElement, simEvalElement
    <3>3. elementCondition(mem, cells[j]).value \in BOOLEAN
      BY <3>1, ConditionFacts, TextFacts
    <3>4. all(j + 1) <=> all(j) /\ elementCondition(mem, cells[j]).value
      <4>1. \A i : i \in first .. (j + 1) - 1 <=> i \in first .. j - 1 \/ i = j
        BY <1>1, <2>3
      <4>2. QED
        BY <4>1
    <3>5. q[j] = (v /\ all(j))
      BY <2>3
    <3> HIDE DEF all
    <3>6. q[j + 1] = (v /\ all(j + 1))
      BY <3>2, <3>3, <3>4, <3>5
    <3>7. QED
      BY <3>1, <3>6
  <2>4. last \in T
    <3> HIDE DEF T
    <3>1. \A i \in first .. last : i \in T
      BY <1>1, <2>2, <2>3, InductionFromTo
    <3>2. QED
      BY <1>1, <3>1
  <2>5. seriesCondition(mem, cells, first, last).value = all(last)
    <3>1. last \in 0 .. Slots
      BY LadderAssumption
    <3>2. QED
      BY <3>1, SeriesFacts
  <2>6. QED
    BY <2>1, <2>4, <2>5
<1>6. QED
  BY <1>3, <1>4, <1>5
-----------------------------------------------------------------------------
(***************************************************************************)
(* Power at the nodes: powerExpressionsByNode and the flow                 *)
(***************************************************************************)

LEMMA BranchFacts ==
  ASSUME Drawing, NEW b \in BranchIds
  PROVE  /\ BranchOf(b).start \in 0 .. Slots /\ BranchOf(b).end \in 0 .. Slots
         /\ BranchOf(b).start < BranchOf(b).end
         /\ BranchOf(b).end \in BranchOf(b).start .. Slots
         /\ BranchOf(b).start \in 0 .. Slots - 1
         /\ BranchOf(b).cells \in Cells
<1>1. BranchOf(b) \in Branch
  BY DEF Drawing, BranchOf, BranchIds
<1>2. QED
  BY <1>1, LadderAssumption DEF Branch

\* Power behind slot n of the line, and at the end of branch b.
Through(mem, n, v) == simPowerThroughElement(mem, v, main[n])
Along(mem, b, v) ==
  simPowerThroughSeries(mem, v, BranchOf(b).cells, BranchOf(b).start, BranchOf(b).end)

LEMMA WireFacts ==
  ASSUME Drawing, NEW mem \in Memories
  PROVE  /\ \A n \in 0 .. Slots - 1 :
              /\ \A v \in BOOLEAN : Through(mem, n, v) \in BOOLEAN
              /\ Through(mem, n, FALSE) => Through(mem, n, TRUE)
         /\ \A b \in BranchIds :
              /\ \A v \in BOOLEAN : Along(mem, b, v) \in BOOLEAN
              /\ Along(mem, b, FALSE) => Along(mem, b, TRUE)
<1>1. ASSUME NEW n \in 0 .. Slots - 1
      PROVE  main[n] \in Cell
  BY DEF Drawing, Cells
<1>2. \A n \in 0 .. Slots - 1 :
        /\ \A v \in BOOLEAN : Through(mem, n, v) \in BOOLEAN
        /\ Through(mem, n, FALSE) => Through(mem, n, TRUE)
  BY <1>1, ElementFlow DEF Through
<1>3. ASSUME NEW b \in BranchIds
      PROVE  /\ \A v \in BOOLEAN : Along(mem, b, v) \in BOOLEAN
             /\ Along(mem, b, FALSE) => Along(mem, b, TRUE)
  <2>1. /\ BranchOf(b).start \in 0 .. Slots /\ BranchOf(b).end \in BranchOf(b).start .. Slots
        /\ BranchOf(b).cells \in Cells
    BY BranchFacts
  <2>2. QED
    BY <2>1, SeriesFlowFacts DEF Along
<1>4. QED
  BY <1>2, <1>3

\* What orInto adds up at a node.
LEMMA OrIntoFacts ==
  ASSUME Drawing, NEW mem \in Memories, NEW P \in [0 .. Slots -> Expr], NEW n \in 1 .. Slots
  PROVE  /\ orInto(mem, P, n) \in Expr
         /\ orInto(mem, P, n).value =
              (\/ Through(mem, n - 1, P[n - 1].value)
               \/ \E b \in BranchIds : /\ BranchOf(b).end = n
                                       /\ Along(mem, b, P[BranchOf(b).start].value))
<1> DEFINE here == {c \in BranchIds : BranchOf(c).end = n}
           first == exprWithElementPower(mem, P[n - 1], main[n - 1])
           other(b) == seriesPowerExpression(mem, P[BranchOf(b).start],
                         BranchOf(b).cells, BranchOf(b).start, n)
           parts == {first} \cup {other(b) : b \in here}
<1>1. orInto(mem, P, n) = exprOr(parts)
  BY DEF orInto
<1>2. first \in Expr /\ first.value = Through(mem, n - 1, P[n - 1].value)
  <2>1. n - 1 \in 0 .. Slots - 1 /\ n - 1 \in 0 .. Slots
    BY LadderAssumption
  <2>2. main[n - 1] \in Cell /\ P[n - 1] \in Expr
    BY <2>1 DEF Drawing, Cells
  <2>3. QED
    BY <2>2, PowerFacts DEF Through
<1>3. ASSUME NEW b \in here
      PROVE  other(b) \in Expr /\ other(b).value = Along(mem, b, P[BranchOf(b).start].value)
  <2>1. /\ BranchOf(b).start \in 0 .. Slots /\ BranchOf(b).end \in BranchOf(b).start .. Slots
        /\ BranchOf(b).cells \in Cells /\ BranchOf(b).end = n
    BY BranchFacts
  <2>2. P[BranchOf(b).start] \in Expr
    BY <2>1
  <2>3. QED
    BY <2>1, <2>2, SeriesPowerFacts DEF Along
<1> HIDE DEF first, other
<1>4. parts \in SUBSET Expr
  BY <1>2, <1>3
<1>5. exprOr(parts) \in Expr /\ exprOr(parts).value = (\E p \in parts : p.value)
  <2> HIDE DEF parts
  <2>1. QED
    BY <1>4, OrFacts
<1>6. (\E p \in parts : p.value)
        = (\/ Through(mem, n - 1, P[n - 1].value)
           \/ \E b \in here : Along(mem, b, P[BranchOf(b).start].value))
  <2>1. (\E p \in parts : p.value) <=> first.value \/ \E b \in here : other(b).value
    OBVIOUS
  <2>2. QED
    BY <1>2, <1>3, <2>1
<1>7. QED
  BY <1>1, <1>5, <1>6

\* The equations of powerExpressionsByNode.
IsPower(P, mem) ==
  /\ P \in [0 .. Slots -> Expr]
  /\ P[0] = Lit(TRUE)
  /\ \A n \in 1 .. Slots : P[n] = orInto(mem, P, n)

LEMMA PowerIsRecursion ==
  ASSUME Drawing, NEW mem \in Memories
  PROVE  IsPower(powerExpressionsByNode(mem), mem)
<1> DEFINE D == 0 .. Slots
           step == [n \in D |-> [h \in [D -> Expr] |->
                      IF n = 0 THEN Lit(TRUE) ELSE orInto(mem, h, n)]]
           size == [n \in D |-> n]
           Body(g) == [n \in 0 .. Slots |-> IF n = 0 THEN Lit(TRUE) ELSE orInto(mem, g, n)]
<1>1. Slots \in Nat /\ \A n \in D : n # 0 => n \in 1 .. Slots /\ n - 1 \in D
  BY LadderAssumption
<1>2. step \in [D -> [[D -> Expr] -> Expr]]
  BY <1>1, OrIntoFacts, TextFacts
<1>3. ASSUME NEW n \in D, NEW g, NEW h, \A m \in D : m < n => g[m] = h[m]
      PROVE  n # 0 => orInto(mem, g, n) = orInto(mem, h, n)
  <2>1. SUFFICES ASSUME n # 0 PROVE orInto(mem, g, n) = orInto(mem, h, n)
    OBVIOUS
  <2>2. g[n - 1] = h[n - 1]
    BY <1>1, <1>3, <2>1
  <2> DEFINE here == {c \in BranchIds : BranchOf(c).end = n}
             other(f, b) == seriesPowerExpression(mem, f[BranchOf(b).start],
                              BranchOf(b).cells, BranchOf(b).start, n)
  <2>3. ASSUME NEW b \in here PROVE other(g, b) = other(h, b)
    <3>1. BranchOf(b).start \in D /\ BranchOf(b).start < n
      BY BranchFacts
    <3>2. g[BranchOf(b).start] = h[BranchOf(b).start]
      BY <1>1, <1>3, <3>1
    <3>3. QED
      BY <3>2
  <2>4. {other(g, b) : b \in here} = {other(h, b) : b \in here}
    <3> HIDE DEF other, here
    <3>1. QED
      BY <2>3
  <2>5. QED
    BY <2>2, <2>4 DEF orInto
<1>4. PICK f : Solution(f, D, Expr, step)
  <2>1. Expr # {}
    BY TextFacts, Zenon
  <2>2. size \in [D -> Nat] /\ Slots + 1 \in Nat /\ \A n \in D : size[n] < Slots + 1
    BY <1>1
  <2>3. ASSUME NEW n \in D, NEW g \in [D -> Expr], NEW h \in [D -> Expr],
               \A m \in D : size[m] < size[n] => g[m] = h[m]
        PROVE  step[n][g] = step[n][h]
    <3>1. \A m \in D : m < n => g[m] = h[m]
      BY <2>3
    <3>2. n # 0 => orInto(mem, g, n) = orInto(mem, h, n)
      BY <1>3, <3>1
    <3>3. QED
      BY <3>2
  <2> HIDE DEF step, size, D
  <2>4. \A n \in D : \A g, h \in [D -> Expr] :
          (\A m \in D : size[m] < size[n] => g[m] = h[m]) => step[n][g] = step[n][h]
    BY <2>3, Zenon
  <2>5. WellDefined(D, Expr, size, Slots + 1, step)
    BY <1>2, <2>1, <2>2, <2>4, Zenon DEF WellDefined
  <2>6. QED
    BY <2>5, RecursiveFunction
<1>5. f \in [D -> Expr] /\ f = Body(f)
  <2>1. f \in [D -> Expr] /\ \A n \in D : f[n] = step[n][f]
    BY <1>4 DEF Solution
  <2>2. \A n \in D : f[n] = Body(f)[n]
    BY <2>1
  <2>3. QED
    BY <2>1, <2>2
<1> DEFINE F == CHOOSE g : g = Body(g)
<1>6. F = Body(F)
  BY <1>5
<1>7. powerExpressionsByNode(mem) = F
  BY DEF powerExpressionsByNode
<1> HIDE DEF F
<1>8. \A n \in D : F[n] = f[n]
  <2> DEFINE T == {n \in D : F[n] = f[n]}
  <2>1. ASSUME NEW n \in D, \A m \in D : size[m] < size[n] => m \in T
        PROVE  n \in T
    <3>1. \A m \in D : m < n => F[m] = f[m]
      BY <2>1
    <3>2. n # 0 => orInto(mem, F, n) = orInto(mem, f, n)
      BY <1>3, <3>1
    <3>3. /\ F[n] = IF n = 0 THEN Lit(TRUE) ELSE orInto(mem, F, n)
          /\ f[n] = IF n = 0 THEN Lit(TRUE) ELSE orInto(mem, f, n)
      BY <1>5, <1>6
    <3> HIDE DEF step, size, Body
    <3>4. F[n] = f[n]
      <4>1. CASE n = 0
        BY <3>3, <4>1, Zenon
      <4>2. CASE n # 0
        BY <3>2, <3>3, <4>2, Zenon
      <4>3. QED
        BY <4>1, <4>2
    <3>5. QED
      BY <3>4
  <2>2. size \in [D -> Nat]
    BY <1>1
  <2> HIDE DEF T, size, step, D, Body
  <2>3. \A n \in D : n \in T
    BY <2>1, <2>2, InductionBySize
  <2>4. QED
    BY <2>3 DEF T
<1>9. F = f
  <2>1. F = [n \in D |-> F[n]] /\ f = [n \in D |-> f[n]]
    BY <1>5, <1>6
  <2> HIDE DEF D
  <2>2. QED
    BY <1>8, <2>1
<1>10. f[0] = Lit(TRUE) /\ \A n \in 1 .. Slots : f[n] = orInto(mem, f, n)
  <2>1. \A n \in D : f[n] = IF n = 0 THEN Lit(TRUE) ELSE orInto(mem, f, n)
    BY <1>5
  <2>2. 0 \in D /\ \A n \in 1 .. Slots : n \in D /\ n # 0
    BY <1>1
  <2>3. QED
    BY <2>1, <2>2
<1>11. QED
  BY <1>5, <1>7, <1>9, <1>10 DEF IsPower

\* What powerExpressionsByNode says of the nodes, as values.
IsValue(val, mem) ==
  /\ val \in [0 .. Slots -> BOOLEAN]
  /\ val[0] = TRUE
  /\ \A n \in 1 .. Slots :
       val[n] = (\/ Through(mem, n - 1, val[n - 1])
                 \/ \E b \in BranchIds : /\ BranchOf(b).end = n
                                         /\ Along(mem, b, val[BranchOf(b).start]))

LEMMA PowerValues ==
  ASSUME Drawing, NEW mem \in Memories
  PROVE  \E val : /\ IsValue(val, mem)
                  /\ \A n \in 0 .. Slots : val[n] = powerExpressionsByNode(mem)[n].value
<1> DEFINE P == powerExpressionsByNode(mem)
           val == [n \in 0 .. Slots |-> P[n].value]
<1>1. IsPower(P, mem)
  BY PowerIsRecursion
<1> HIDE DEF P
<1>2. /\ P \in [0 .. Slots -> Expr] /\ P[0] = Lit(TRUE)
      /\ \A n \in 1 .. Slots : P[n] = orInto(mem, P, n)
      /\ Slots \in Nat
  BY <1>1, LadderAssumption DEF IsPower
<1>3. val \in [0 .. Slots -> BOOLEAN] /\ val[0] = TRUE
  <2>1. \A n \in 0 .. Slots : P[n].value \in BOOLEAN
    BY <1>2, TextFacts
  <2>2. val[0] = P[0].value
    <3>1. 0 \in 0 .. Slots
      BY <1>2
    <3>2. QED
      BY <3>1, Zenon
  <2>3. val[0] = TRUE
    BY <1>2, <2>2, TextFacts
  <2>4. QED
    BY <2>1, <2>3
<1>4. ASSUME NEW n \in 1 .. Slots
      PROVE  val[n] = (\/ Through(mem, n - 1, val[n - 1])
                       \/ \E b \in BranchIds : /\ BranchOf(b).end = n
                                               /\ Along(mem, b, val[BranchOf(b).start]))
  <2>1. n \in 0 .. Slots /\ n - 1 \in 0 .. Slots /\ \A b \in BranchIds : BranchOf(b).start \in 0 .. Slots
    BY <1>2, BranchFacts
  <2>2. val[n] = P[n].value /\ val[n - 1] = P[n - 1].value
        /\ \A b \in BranchIds : val[BranchOf(b).start] = P[BranchOf(b).start].value
    BY <2>1
  <2>3. P[n].value = (\/ Through(mem, n - 1, P[n - 1].value)
                      \/ \E b \in BranchIds : /\ BranchOf(b).end = n
                                              /\ Along(mem, b, P[BranchOf(b).start].value))
    <3>1. orInto(mem, P, n).value =
            (\/ Through(mem, n - 1, P[n - 1].value)
             \/ \E b \in BranchIds : /\ BranchOf(b).end = n
                                     /\ Along(mem, b, P[BranchOf(b).start].value))
      BY <1>2, OrIntoFacts, Zenon
    <3>2. P[n] = orInto(mem, P, n)
      BY <1>2
    <3>3. QED
      BY <3>1, <3>2, Zenon
  <2> HIDE DEF val
  <2>4. QED
    BY <2>2, <2>3
<1>5. IsValue(val, mem)
  <2> HIDE DEF val
  <2>1. QED
    BY <1>3, <1>4 DEF IsValue
<1>6. \A n \in 0 .. Slots : val[n] = powerExpressionsByNode(mem)[n].value
  BY DEF P
<1> HIDE DEF val
<1>7. QED
  BY <1>5, <1>6, Zenon

Nodes == [0 .. Slots -> BOOLEAN]

LEMMA LineFacts ==
  ASSUME Drawing, NEW mem \in Memories, NEW target \in 0 .. Slots, NEW on \in Nodes
  PROVE  /\ FlowAlongLine(mem, target, on) \in Nodes
         /\ FlowAlongLine(mem, target, on)[0] = on[0]
         /\ \A n \in 1 .. Slots :
              FlowAlongLine(mem, target, on)[n] =
                (on[n] \/ (n <= target /\ Through(mem, n - 1, FlowAlongLine(mem, target, on)[n - 1])))
<1> DEFINE D == 0 .. Slots
           step == [n \in 0 + 1 .. Slots |-> [v \in BOOLEAN |->
                      IF n > target THEN on[n] ELSE on[n] \/ Through(mem, n - 1, v)]]
           Body(g) == [n \in 0 .. Slots |->
                         IF n = 0 \/ n > target THEN on[n]
                         ELSE on[n] \/ simPowerThroughElement(mem, g[n - 1], main[n - 1])]
<1>1. /\ Slots \in Nat /\ 0 \in Nat /\ 0 <= Slots /\ 0 \in D
      /\ \A n \in 1 .. Slots : n \in D /\ n # 0 /\ n - 1 \in 0 .. Slots - 1 /\ n - 1 \in D
      /\ \A n \in D : n # 0 => n \in 1 .. Slots
      /\ \A n \in D : on[n] \in BOOLEAN
      /\ target \in Nat
  BY LadderAssumption DEF Nodes
<1>2. step \in [0 + 1 .. Slots -> [BOOLEAN -> BOOLEAN]]
  <2>1. ASSUME NEW n \in 0 + 1 .. Slots, NEW v \in BOOLEAN
        PROVE  step[n][v] \in BOOLEAN
    <3>1. n \in 1 .. Slots /\ on[n] \in BOOLEAN
      BY <1>1
    <3>2. step[n][v] = IF n > target THEN on[n] ELSE on[n] \/ Through(mem, n - 1, v)
      OBVIOUS
    <3>3. QED
      BY <3>1, <3>2
  <2>2. QED
    BY <2>1
<1>3. PICK p : Chain(p, 0, Slots, BOOLEAN, on[0], step)
  <2> HIDE DEF step
  <2>1. on[0] \in BOOLEAN
    BY <1>1
  <2>2. QED
    BY <1>1, <1>2, <2>1, ChainRecursion
<1>4. \A n \in 1 .. Slots : p[n] = IF n > target THEN on[n] ELSE on[n] \/ Through(mem, n - 1, p[n - 1])
  <2>1. \A n \in 1 .. Slots : n \in 0 + 1 .. Slots
    BY <1>1
  <2>2. \A n \in 1 .. Slots : p[n - 1] \in BOOLEAN
    BY <1>1, <1>3 DEF Chain
  <2>3. QED
    BY <1>3, <2>1, <2>2 DEF Chain
<1>5. p = Body(p)
  <2>1. \A n \in D : p[n] = Body(p)[n]
    BY <1>1, <1>3, <1>4 DEF Chain, Through
  <2>2. QED
    BY <1>3, <2>1 DEF Chain
<1> DEFINE F == CHOOSE g : g = Body(g)
<1>6. F = Body(F)
  BY <1>5
<1>7. FlowAlongLine(mem, target, on) = F
  BY DEF FlowAlongLine
<1> HIDE DEF F
<1>8. F[0] = on[0] /\ F = [n \in D |-> F[n]]
  BY <1>1, <1>6
<1>9. \A n \in 1 .. Slots :
        F[n] = IF n > target THEN on[n] ELSE on[n] \/ Through(mem, n - 1, F[n - 1])
  BY <1>1, <1>6 DEF Through
<1> DEFINE T == {n \in D : F[n] \in BOOLEAN}
<1>10. \A n \in 0 .. Slots : n \in T
  <2>1. 0 \in T
    BY <1>1, <1>8
  <2>2. ASSUME NEW n \in 0 .. Slots, n \in T, n < Slots
        PROVE  n + 1 \in T
    <3>1. n + 1 \in 1 .. Slots /\ (n + 1) - 1 = n /\ n + 1 \in D
      BY <1>1, <2>2
    <3>2. on[n + 1] \in BOOLEAN
      BY <1>1, <3>1
    <3>3. F[n + 1] = on[n + 1] \/ F[n + 1] = (on[n + 1] \/ Through(mem, n, F[n]))
      BY <1>9, <3>1
    <3>4. F[n + 1] \in BOOLEAN
      BY <3>2, <3>3
    <3>5. QED
      BY <3>1, <3>4
  <2> HIDE DEF T
  <2>3. QED
    BY <1>1, <2>1, <2>2, InductionUpTo
<1>11. F \in Nodes
  BY <1>8, <1>10 DEF Nodes
<1>12. \A n \in 1 .. Slots : F[n] = (on[n] \/ (n <= target /\ Through(mem, n - 1, F[n - 1])))
  <2>1. ASSUME NEW n \in 1 .. Slots
        PROVE  F[n] = (on[n] \/ (n <= target /\ Through(mem, n - 1, F[n - 1])))
    <3>1. on[n] \in BOOLEAN /\ (n > target <=> ~(n <= target))
      BY <1>1
    <3>2. QED
      BY <1>9, <3>1
  <2>2. QED
    BY <2>1
<1>13. QED
  BY <1>7, <1>8, <1>11, <1>12

LEMMA OverBranchFacts ==
  ASSUME Drawing, NEW mem \in Memories, NEW target \in 0 .. Slots, NEW on \in Nodes,
         NEW b \in BranchIds
  PROVE  /\ FlowOverBranch(mem, target, on, BranchOf(b)) \in Nodes
         /\ \A n \in 0 .. Slots :
              FlowOverBranch(mem, target, on, BranchOf(b))[n] =
                (on[n] \/ (/\ n = BranchOf(b).end /\ n <= target
                           /\ Along(mem, b, on[BranchOf(b).start])))
<1>1. /\ BranchOf(b).end \in 0 .. Slots /\ BranchOf(b).start \in 0 .. Slots
      /\ Slots \in Nat /\ target \in Nat
      /\ on \in [0 .. Slots -> BOOLEAN]
  BY BranchFacts, LadderAssumption DEF Nodes
<1>2. Along(mem, b, on[BranchOf(b).start]) \in BOOLEAN
  BY <1>1, WireFacts
<1>3. CASE BranchOf(b).end > target
  BY <1>1, <1>3 DEF FlowOverBranch, Nodes
<1>4. CASE ~(BranchOf(b).end > target)
  <2>1. FlowOverBranch(mem, target, on, BranchOf(b)) =
          [on EXCEPT ![BranchOf(b).end] = @ \/ Along(mem, b, on[BranchOf(b).start])]
    BY <1>4 DEF FlowOverBranch, Along
  <2>2. QED
    BY <1>1, <1>2, <1>4, <2>1 DEF Nodes
<1>5. QED
  BY <1>3, <1>4

\* Every node that is on has power, and within k nodes from the left end every
\* node that has power is on.
Sound(on, val, target)   == \A n \in 0 .. target : on[n] => val[n]
Done(on, val, k, target) == \A n \in 0 .. target : n <= k /\ val[n] => on[n]

\* One pass of the flow, after b branches.
LEMMA PassIsChain ==
  ASSUME Drawing, NEW mem \in Memories, NEW target \in 0 .. Slots, NEW on \in Nodes
  PROVE  \E over : /\ over \in [0 .. Len(branches) -> Nodes]
                   /\ over[0] = FlowAlongLine(mem, target, on)
                   /\ \A b \in 1 .. Len(branches) :
                        over[b] = FlowOverBranch(mem, target, over[b - 1], BranchOf(b))
                   /\ FlowPass(mem, target, on) = over[Len(branches)]
<1> DEFINE L == Len(branches)
           D == 0 .. L
           step == [b \in 0 + 1 .. L |-> [h \in Nodes |->
                      FlowOverBranch(mem, target, h, BranchOf(b))]]
           Body(g) == [b \in 0 .. Len(branches) |->
                         IF b = 0 THEN FlowAlongLine(mem, target, on)
                         ELSE FlowOverBranch(mem, target, g[b - 1], BranchOf(b))]
<1>1. L \in Nat /\ BranchIds = 1 .. L
  BY DEF Drawing, BranchIds
<1>2. /\ 0 \in Nat /\ 0 <= L /\ 0 \in D /\ L \in D
      /\ \A b \in 1 .. L : b \in 0 + 1 .. L /\ b \in D /\ b # 0 /\ b - 1 \in D
      /\ \A b \in 0 + 1 .. L : b \in BranchIds
      /\ \A b \in D : b # 0 => b \in 1 .. L
  BY <1>1
<1>3. step \in [0 + 1 .. L -> [Nodes -> Nodes]]
  BY <1>2, OverBranchFacts
<1>4. FlowAlongLine(mem, target, on) \in Nodes
  BY LineFacts
<1>5. PICK p : Chain(p, 0, L, Nodes, FlowAlongLine(mem, target, on), step)
  <2> HIDE DEF step, L
  <2>1. QED
    BY <1>1, <1>2, <1>3, <1>4, ChainRecursion
<1>6. p \in [D -> Nodes] /\ p[0] = FlowAlongLine(mem, target, on)
  BY <1>5 DEF Chain
<1>7. \A b \in 1 .. L : p[b] = FlowOverBranch(mem, target, p[b - 1], BranchOf(b))
  <2>1. ASSUME NEW b \in 1 .. L
        PROVE  p[b] = FlowOverBranch(mem, target, p[b - 1], BranchOf(b))
    <3>1. p[b] = step[b][p[b - 1]]
      BY <1>2, <1>5 DEF Chain
    <3>2. b \in 0 + 1 .. L /\ p[b - 1] \in Nodes
      BY <1>2, <1>6
    <3>3. QED
      BY <3>1, <3>2
  <2>2. QED
    BY <2>1
<1>8. p = Body(p)
  <2>1. \A b \in D : p[b] = Body(p)[b]
    BY <1>2, <1>6, <1>7
  <2>2. QED
    BY <1>6, <2>1
<1> DEFINE F == CHOOSE g : g = Body(g)
<1>9. F = Body(F)
  BY <1>8
<1>10. FlowPass(mem, target, on) = F[L]
  BY DEF FlowPass
<1> HIDE DEF F
<1>11. F[0] = FlowAlongLine(mem, target, on) /\ F = [b \in D |-> F[b]]
  BY <1>2, <1>9
<1>12. \A b \in 1 .. L : F[b] = FlowOverBranch(mem, target, F[b - 1], BranchOf(b))
  BY <1>2, <1>9
<1> DEFINE T == {b \in D : F[b] \in Nodes}
<1>13. \A b \in 0 .. L : b \in T
  <2>1. 0 \in T
    BY <1>2, <1>4, <1>11
  <2>2. ASSUME NEW b \in 0 .. L, b \in T, b < L
        PROVE  b + 1 \in T
    <3>1. b + 1 \in 1 .. L /\ (b + 1) - 1 = b /\ b + 1 \in D /\ b + 1 \in BranchIds
      BY <1>1, <2>2
    <3>2. F[b + 1] = FlowOverBranch(mem, target, F[b], BranchOf(b + 1)) /\ F[b] \in Nodes
      BY <1>12, <2>2, <3>1
    <3>3. F[b + 1] \in Nodes
      BY <3>1, <3>2, OverBranchFacts
    <3>4. QED
      BY <3>1, <3>3
  <2> HIDE DEF T, L
  <2>3. QED
    BY <1>1, <2>1, <2>2, InductionUpTo
<1>14. F \in [0 .. Len(branches) -> Nodes]
  BY <1>11, <1>13
<1>15. QED
  BY <1>10, <1>11, <1>12, <1>14

LEMMA MorePower ==
  ASSUME Drawing, NEW mem \in Memories, NEW u \in BOOLEAN, NEW v \in BOOLEAN, u => v
  PROVE  /\ \A n \in 0 .. Slots - 1 : Through(mem, n, u) => Through(mem, n, v)
         /\ \A b \in BranchIds : Along(mem, b, u) => Along(mem, b, v)
<1>1. u = v \/ (u = FALSE /\ v = TRUE)
  OBVIOUS
<1>2. CASE u = v
  BY <1>2
<1>3. CASE u = FALSE /\ v = TRUE
  BY <1>3, WireFacts
<1>4. QED
  BY <1>1, <1>2, <1>3

\* A pass turns on what it should, one node further than the pass before.
LEMMA PassFacts ==
  ASSUME Drawing, NEW mem \in Memories, NEW target \in 0 .. Slots, NEW on \in Nodes,
         NEW val, IsValue(val, mem), NEW k \in Nat,
         Sound(on, val, target), Done(on, val, k, target)
  PROVE  /\ FlowPass(mem, target, on) \in Nodes
         /\ Sound(FlowPass(mem, target, on), val, target)
         /\ Done(FlowPass(mem, target, on), val, k + 1, target)
<1> DEFINE L == Len(branches)
<1>1. /\ L \in Nat /\ BranchIds = 1 .. L
      /\ Slots \in Nat /\ target \in Nat /\ target <= Slots
  BY LadderAssumption DEF Drawing, BranchIds
<1>2. PICK over : /\ over \in [0 .. L -> Nodes]
                  /\ over[0] = FlowAlongLine(mem, target, on)
                  /\ \A b \in 1 .. L :
                       over[b] = FlowOverBranch(mem, target, over[b - 1], BranchOf(b))
                  /\ FlowPass(mem, target, on) = over[L]
  BY PassIsChain
<1> HIDE DEF L
<1> DEFINE line == over[0]
<1>3. /\ line \in Nodes
      /\ line[0] = on[0]
      /\ \A n \in 1 .. Slots : line[n] = (on[n] \/ (n <= target /\ Through(mem, n - 1, line[n - 1])))
  <2>1. over[0] = FlowAlongLine(mem, target, on)
    BY <1>2
  <2>2. QED
    BY <2>1, LineFacts
<1> HIDE DEF line
<1>4. /\ \A n \in 0 .. Slots : val[n] \in BOOLEAN /\ line[n] \in BOOLEAN /\ on[n] \in BOOLEAN
      /\ val[0] = TRUE
  BY <1>3 DEF IsValue, Nodes
<1>5. \A n \in 0 .. Slots : on[n] => line[n]
  <2>1. \A n \in 0 .. Slots : n = 0 \/ n \in 1 .. Slots
    BY <1>1
  <2>2. QED
    BY <1>3, <2>1
<1>6. Sound(line, val, target)
  <2> DEFINE T == {n \in 0 .. target : line[n] => val[n]}
  <2>1. 0 \in T
    BY <1>1, <1>4
  <2>2. ASSUME NEW n \in 0 .. target, n \in T, n < target
        PROVE  n + 1 \in T
    <3>1. /\ n + 1 \in 1 .. Slots /\ (n + 1) - 1 = n /\ n + 1 \in 0 .. target
          /\ n \in 0 .. Slots - 1 /\ n \in 0 .. Slots
      BY <1>1, <2>2
    <3>2. line[n + 1] => on[n + 1] \/ Through(mem, n, line[n])
      BY <1>3, <3>1
    <3>3. on[n + 1] => val[n + 1]
      BY <3>1 DEF Sound
    <3>4. Through(mem, n, line[n]) => Through(mem, n, val[n])
      BY <1>4, <2>2, <3>1, MorePower
    <3>5. Through(mem, n, val[n]) => val[n + 1]
      <4>1. Through(mem, (n + 1) - 1, val[(n + 1) - 1]) => val[n + 1]
        BY <3>1 DEF IsValue
      <4>2. (n + 1) - 1 = n
        BY <3>1
      <4>3. QED
        BY <4>1, <4>2, Zenon
    <3>6. QED
      BY <3>1, <3>2, <3>3, <3>4, <3>5
  <2> HIDE DEF T
  <2>3. \A n \in 0 .. target : n \in T
    BY <1>1, <2>1, <2>2, InductionUpTo
  <2>4. QED
    BY <2>3 DEF T, Sound
<1>7. ASSUME k + 1 \in 0 .. target, Through(mem, k, val[k])
      PROVE  line[k + 1]
  <2>1. k \in 0 .. target /\ k \in 0 .. Slots - 1 /\ k \in 0 .. Slots /\ k + 1 \in 1 .. Slots
        /\ k <= k /\ (k + 1) - 1 = k /\ k + 1 <= target
    BY <1>1, <1>7
  <2>2. val[k] => line[k]
    BY <1>5, <2>1 DEF Done
  <2>3. Through(mem, k, line[k])
    BY <1>4, <1>7, <2>1, <2>2, MorePower
  <2>4. QED
    BY <1>3, <2>1, <2>3
<1> DEFINE Reached(b) ==
             /\ Sound(over[b], val, target)
             /\ \A n \in 0 .. Slots : line[n] => over[b][n]
             /\ \A c \in 1 .. b : /\ BranchOf(c).end = k + 1 /\ k + 1 <= target
                                  /\ Along(mem, c, val[BranchOf(c).start])
                                  => over[b][k + 1]
           T == {b \in 0 .. L : Reached(b)}
<1>8. 0 \in T
  <2>1. \A c \in 1 .. 0 : FALSE
    OBVIOUS
  <2>2. Reached(0)
    BY <1>6, <2>1 DEF line
  <2>3. QED
    BY <1>1, <2>2
<1>9. ASSUME NEW b \in 0 .. L, b \in T, b < L
      PROVE  b + 1 \in T
  <2> DEFINE br == b + 1
             old  == over[b]
             new  == over[br]
  <2>1. /\ br \in 1 .. L /\ br - 1 = b /\ br \in 0 .. L /\ br \in BranchIds
        /\ \A c \in 1 .. br : c \in 1 .. b \/ c = br
    BY <1>1, <1>9
  <2>2. old \in Nodes /\ new = FlowOverBranch(mem, target, old, BranchOf(br))
    BY <1>2, <2>1
  <2>3. /\ BranchOf(br).start \in 0 .. Slots /\ BranchOf(br).end \in 1 .. Slots
        /\ BranchOf(br).start < BranchOf(br).end
    BY <1>1, <2>1, BranchFacts
  <2> HIDE DEF br
  <2>4. \A n \in 0 .. Slots :
          new[n] = (old[n] \/ (/\ n = BranchOf(br).end /\ n <= target
                               /\ Along(mem, br, old[BranchOf(br).start])))
    BY <2>1, <2>2, OverBranchFacts
  <2>5. Reached(b)
    BY <1>9
  <2>6. old[BranchOf(br).start] \in BOOLEAN /\ val[BranchOf(br).start] \in BOOLEAN
    BY <1>4, <2>2, <2>3 DEF Nodes
  <2>7. Sound(new, val, target)
    <3>1. SUFFICES ASSUME NEW n \in 0 .. target, new[n] PROVE val[n]
      BY DEF Sound
    <3>2. n \in 0 .. Slots
      BY <1>1
    <3>3. CASE old[n]
      BY <2>5, <3>3 DEF Sound
    <3>4. CASE n = BranchOf(br).end /\ n <= target /\ Along(mem, br, old[BranchOf(br).start])
      <4>1. BranchOf(br).start \in 0 .. target
        BY <1>1, <2>3, <3>4
      <4>2. old[BranchOf(br).start] => val[BranchOf(br).start]
        BY <2>5, <4>1 DEF Sound
      <4>3. Along(mem, br, val[BranchOf(br).start])
        BY <2>1, <2>6, <3>4, <4>2, MorePower
      <4>4. QED
        BY <2>1, <2>3, <3>4, <4>3 DEF IsValue
    <3>5. QED
      BY <2>4, <3>1, <3>2, <3>3, <3>4
  <2>8. \A n \in 0 .. Slots : line[n] => new[n]
    BY <2>4, <2>5
  <2>9. ASSUME NEW c \in 1 .. br, BranchOf(c).end = k + 1, k + 1 <= target,
               Along(mem, c, val[BranchOf(c).start])
        PROVE  new[k + 1]
    <3>1. k + 1 \in 0 .. Slots
      BY <1>1, <2>9
    <3>2. CASE c \in 1 .. b
      BY <2>4, <2>5, <2>9, <3>1, <3>2
    <3>3. CASE c = br
      <4>1. BranchOf(br).start \in 0 .. target /\ BranchOf(br).start <= k
        BY <1>1, <2>3, <2>9, <3>3
      <4>2. val[BranchOf(br).start] => old[BranchOf(br).start]
        BY <1>5, <2>3, <2>5, <4>1 DEF Done
      <4>3. Along(mem, br, old[BranchOf(br).start])
        BY <2>1, <2>6, <2>9, <3>3, <4>2, MorePower
      <4>4. QED
        BY <2>4, <2>9, <3>1, <3>3, <4>3
    <3>4. QED
      BY <2>1, <3>2, <3>3
  <2>10. Reached(br)
    BY <2>7, <2>8, <2>9
  <2>11. QED
    BY <2>1, <2>10 DEF br
<1>10. Reached(L)
  <2>1. \A b \in 0 .. L : b \in T
    <3> HIDE DEF T
    <3>1. QED
      BY <1>1, <1>8, <1>9, InductionUpTo
  <2>2. QED
    BY <1>1, <2>1
<1>11. Done(over[L], val, k + 1, target)
  <2>1. SUFFICES ASSUME NEW n \in 0 .. target, n <= k + 1, val[n] PROVE over[L][n]
    BY DEF Done
  <2>2. n \in 0 .. Slots
    BY <1>1
  <2>3. CASE n <= k
    BY <1>5, <1>10, <2>1, <2>2, <2>3 DEF Done
  <2>4. CASE n = k + 1
    <3>1. n \in 1 .. Slots /\ n - 1 = k /\ k + 1 <= target
      BY <1>1, <2>4
    <3>2. \/ Through(mem, k, val[k])
          \/ \E b \in BranchIds : BranchOf(b).end = n /\ Along(mem, b, val[BranchOf(b).start])
      BY <2>1, <3>1 DEF IsValue
    <3>3. CASE Through(mem, k, val[k])
      BY <1>7, <1>10, <2>2, <2>4, <3>3
    <3>4. CASE \E b \in BranchIds : BranchOf(b).end = n /\ Along(mem, b, val[BranchOf(b).start])
      BY <1>1, <1>10, <2>4, <3>1, <3>4
    <3>5. QED
      BY <3>2, <3>3, <3>4
  <2>5. QED
    BY <2>1, <2>2, <2>3, <2>4
<1>12. QED
  BY <1>1, <1>2, <1>10, <1>11

\* The passes of the flow.
LEMMA FlowIsChain ==
  ASSUME Drawing, NEW mem \in Memories, NEW target \in 0 .. Slots
  PROVE  \E after : /\ after \in [0 .. MaxPasses -> Nodes]
                    /\ after[0] = [n \in 0 .. Slots |-> n = 0]
                    /\ \A k \in 1 .. MaxPasses : after[k] = FlowPass(mem, target, after[k - 1])
                    /\ simEvaluateRungFlowToNode(mem, target) = after[MaxPasses]
<1> DEFINE D == 0 .. MaxPasses
           start == [n \in 0 .. Slots |-> n = 0]
           step == [k \in 0 + 1 .. MaxPasses |-> [h \in Nodes |-> FlowPass(mem, target, h)]]
           Body(g) == [k \in 0 .. MaxPasses |->
                         IF k = 0 THEN [n \in 0 .. Slots |-> n = 0]
                         ELSE FlowPass(mem, target, g[k - 1])]
<1>1. /\ MaxPasses \in Nat /\ 0 \in Nat /\ 0 <= MaxPasses /\ 0 \in D /\ MaxPasses \in D
      /\ \A k \in 1 .. MaxPasses : k \in 0 + 1 .. MaxPasses /\ k \in D /\ k # 0 /\ k - 1 \in D
      /\ \A k \in D : k # 0 => k \in 1 .. MaxPasses
  BY LadderAssumption
<1>2. \A h \in Nodes : FlowPass(mem, target, h) \in Nodes
  <2>1. ASSUME NEW h \in Nodes PROVE FlowPass(mem, target, h) \in Nodes
    <3>1. PICK over : /\ over \in [0 .. Len(branches) -> Nodes]
                      /\ FlowPass(mem, target, h) = over[Len(branches)]
      BY PassIsChain
    <3>2. Len(branches) \in 0 .. Len(branches)
      BY DEF Drawing
    <3>3. QED
      BY <3>1, <3>2
  <2>2. QED
    BY <2>1
<1>3. step \in [0 + 1 .. MaxPasses -> [Nodes -> Nodes]]
  BY <1>2
<1>4. start \in Nodes
  BY DEF Nodes
<1>5. PICK p : Chain(p, 0, MaxPasses, Nodes, start, step)
  <2> HIDE DEF step, start
  <2>1. QED
    BY <1>1, <1>3, <1>4, ChainRecursion
<1>6. p \in [D -> Nodes] /\ p[0] = start
  BY <1>5 DEF Chain
<1>7. ASSUME NEW k \in 1 .. MaxPasses
      PROVE  p[k] = FlowPass(mem, target, p[k - 1])
  <2>1. p[k] = step[k][p[k - 1]]
    BY <1>1, <1>5 DEF Chain
  <2>2. k \in 0 + 1 .. MaxPasses /\ p[k - 1] \in Nodes
    BY <1>1, <1>6
  <2>3. QED
    BY <2>1, <2>2
<1>8. p = Body(p)
  <2>1. \A k \in D : p[k] = Body(p)[k]
    BY <1>1, <1>6, <1>7
  <2>2. QED
    BY <1>6, <2>1
<1> DEFINE F == CHOOSE g : g = Body(g)
<1>9. F = Body(F)
  BY <1>8
<1>10. simEvaluateRungFlowToNode(mem, target) = F[MaxPasses]
  BY DEF simEvaluateRungFlowToNode
<1> HIDE DEF F
<1>11. F[0] = start /\ F = [k \in D |-> F[k]]
  BY <1>1, <1>9
<1>12. \A k \in 1 .. MaxPasses : F[k] = FlowPass(mem, target, F[k - 1])
  BY <1>1, <1>9
<1> HIDE DEF start
<1> DEFINE T == {k \in D : F[k] \in Nodes}
<1>13. \A k \in 0 .. MaxPasses : k \in T
  <2>1. 0 \in T
    BY <1>1, <1>4, <1>11
  <2>2. ASSUME NEW k \in 0 .. MaxPasses, k \in T, k < MaxPasses
        PROVE  k + 1 \in T
    <3>1. k + 1 \in 1 .. MaxPasses /\ (k + 1) - 1 = k /\ k + 1 \in D
      BY <1>1, <2>2
    <3>2. F[k + 1] = FlowPass(mem, target, F[k]) /\ F[k] \in Nodes
      BY <1>12, <2>2, <3>1
    <3>3. F[k + 1] \in Nodes
      BY <1>2, <3>2
    <3>4. QED
      BY <3>1, <3>3
  <2> HIDE DEF T
  <2>3. QED
    BY <1>1, <2>1, <2>2, InductionUpTo
<1>14. F \in [0 .. MaxPasses -> Nodes]
  BY <1>11, <1>13
<1>15. QED
  BY <1>10, <1>11, <1>12, <1>14 DEF start

\* The flow ends with the power of the nodes: as many passes as slots are
\* enough, whatever the order of the branches.
LEMMA FlowFacts ==
  ASSUME Drawing, NEW mem \in Memories, NEW target \in 0 .. Slots, NEW val, IsValue(val, mem)
  PROVE  simEvaluateRungFlowToNode(mem, target)[target] = val[target]
<1>1. PICK after : /\ after \in [0 .. MaxPasses -> Nodes]
                   /\ after[0] = [n \in 0 .. Slots |-> n = 0]
                   /\ \A k \in 1 .. MaxPasses : after[k] = FlowPass(mem, target, after[k - 1])
                   /\ simEvaluateRungFlowToNode(mem, target) = after[MaxPasses]
  BY FlowIsChain
<1>2. /\ MaxPasses \in Nat /\ MaxPasses \in 0 .. MaxPasses /\ Slots \in Nat
      /\ target \in Nat /\ target <= MaxPasses /\ target \in 0 .. target
      /\ \A n \in 0 .. target : n \in 0 .. Slots
  BY LadderAssumption
<1>3. val[0] = TRUE /\ \A n \in 0 .. Slots : val[n] \in BOOLEAN
  BY DEF IsValue
<1> DEFINE T == {k \in 0 .. MaxPasses : /\ Sound(after[k], val, target)
                                        /\ Done(after[k], val, k, target)}
<1>4. 0 \in T
  <2>1. \A n \in 0 .. target : after[0][n] = (n = 0)
    BY <1>1, <1>2
  <2>2. \A n \in 0 .. target : n <= 0 => n = 0
    BY <1>2
  <2>3. Sound(after[0], val, target) /\ Done(after[0], val, 0, target)
    BY <1>3, <2>1, <2>2 DEF Sound, Done
  <2>4. QED
    BY <1>2, <2>3
<1>5. ASSUME NEW k \in 0 .. MaxPasses, k \in T, k < MaxPasses
      PROVE  k + 1 \in T
  <2>1. k \in Nat /\ k + 1 \in 1 .. MaxPasses /\ (k + 1) - 1 = k /\ k + 1 \in 0 .. MaxPasses
    BY <1>2, <1>5
  <2>2. after[k] \in Nodes /\ after[k + 1] = FlowPass(mem, target, after[k])
    BY <1>1, <2>1
  <2>3. Sound(after[k], val, target) /\ Done(after[k], val, k, target)
    BY <1>5
  <2>4. Sound(after[k + 1], val, target) /\ Done(after[k + 1], val, k + 1, target)
    BY <2>1, <2>2, <2>3, PassFacts
  <2>5. QED
    BY <2>1, <2>4
<1>6. Sound(after[MaxPasses], val, target) /\ Done(after[MaxPasses], val, MaxPasses, target)
  <2>1. \A k \in 0 .. MaxPasses : k \in T
    <3> HIDE DEF T
    <3>1. QED
      BY <1>2, <1>4, <1>5, InductionUpTo
  <2>2. QED
    BY <1>2, <2>1
<1>7. after[MaxPasses][target] <=> val[target]
  BY <1>2, <1>6 DEF Sound, Done
<1>8. after[MaxPasses][target] \in BOOLEAN /\ val[target] \in BOOLEAN
  BY <1>1, <1>2, <1>3 DEF Nodes
<1>9. QED
  BY <1>1, <1>7, <1>8
-----------------------------------------------------------------------------
(***************************************************************************)
(* The paths of the wire graph: expressionFromNode                         *)
(***************************************************************************)

\* The conditions of slot n of the line and of branch b.
LineOn(mem, n) == elementCondition(mem, main[n]).value
BranchOn(mem, b) ==
  seriesCondition(mem, BranchOf(b).cells, BranchOf(b).start, BranchOf(b).end).value

LEMMA OnFacts ==
  ASSUME Drawing, NEW mem \in Memories
  PROVE  /\ \A n \in 0 .. Slots - 1 : LineOn(mem, n) \in BOOLEAN
         /\ \A b \in BranchIds : BranchOn(mem, b) \in BOOLEAN
<1>1. ASSUME NEW n \in 0 .. Slots - 1 PROVE LineOn(mem, n) \in BOOLEAN
  <2>1. main[n] \in Cell
    BY DEF Drawing, Cells
  <2>2. QED
    BY <2>1, ConditionFacts, TextFacts DEF LineOn
<1>2. ASSUME NEW b \in BranchIds PROVE BranchOn(mem, b) \in BOOLEAN
  <2>1. /\ BranchOf(b).start \in 0 .. Slots /\ BranchOf(b).end \in 0 .. Slots
        /\ BranchOf(b).cells \in Cells
    BY BranchFacts
  <2>2. QED
    BY <2>1, SeriesFacts, TextFacts DEF BranchOn
<1>3. QED
  BY <1>1, <1>2

\* The alternatives from node n to the right end.
Rest(mem, S, n) == exprOr({exprAnd(e.cond, S[e.to]) : e \in ladderEdges(mem, n)})

LEMMA EdgeFacts ==
  ASSUME Drawing, NEW mem \in Memories, NEW n \in 0 .. Slots - 1,
         NEW e \in ladderEdges(mem, n)
  PROVE  e.to \in 0 .. Slots /\ n < e.to /\ e.cond \in Expr
<1> DEFINE first == [to |-> n + 1, cond |-> elementCondition(mem, main[n])]
           other(b) == [to |-> BranchOf(b).end,
                        cond |-> seriesCondition(mem, BranchOf(b).cells, n, BranchOf(b).end)]
<1>1. e = first \/ \E b \in BranchIds : BranchOf(b).start = n /\ e = other(b)
  BY DEF ladderEdges
<1>2. CASE e = first
  <2>1. main[n] \in Cell /\ n + 1 \in 0 .. Slots /\ n < n + 1
    BY LadderAssumption DEF Drawing, Cells
  <2>2. QED
    BY <1>2, <2>1, ConditionFacts
<1>3. ASSUME NEW b \in BranchIds, BranchOf(b).start = n, e = other(b)
      PROVE  e.to \in 0 .. Slots /\ n < e.to /\ e.cond \in Expr
  <2>1. /\ n \in 0 .. Slots /\ BranchOf(b).end \in 0 .. Slots /\ n < BranchOf(b).end
        /\ BranchOf(b).cells \in Cells
    BY <1>3, BranchFacts
  <2>2. QED
    BY <1>3, <2>1, SeriesFacts
<1>4. QED
  BY <1>1, <1>2, <1>3

LEMMA RestFacts ==
  ASSUME Drawing, NEW mem \in Memories, NEW S \in [0 .. Slots -> Expr], NEW n \in 0 .. Slots - 1
  PROVE  /\ Rest(mem, S, n) \in Expr
         /\ Rest(mem, S, n).value =
              (\/ LineOn(mem, n) /\ S[n + 1].value
               \/ \E b \in BranchIds : /\ BranchOf(b).start = n
                                       /\ BranchOn(mem, b) /\ S[BranchOf(b).end].value)
<1> DEFINE edges == ladderEdges(mem, n)
           parts == {exprAnd(e.cond, S[e.to]) : e \in edges}
<1>1. ASSUME NEW e \in edges
      PROVE  /\ exprAnd(e.cond, S[e.to]) \in Expr
             /\ exprAnd(e.cond, S[e.to]).value = (e.cond.value /\ S[e.to].value)
  <2>1. e.to \in 0 .. Slots /\ e.cond \in Expr
    BY EdgeFacts
  <2>2. S[e.to] \in Expr
    BY <2>1
  <2>3. QED
    BY <2>1, <2>2, AndFacts
<1>2. parts \in SUBSET Expr
  BY <1>1
<1>3. Rest(mem, S, n) \in Expr /\ Rest(mem, S, n).value = (\E p \in parts : p.value)
  <2>1. Rest(mem, S, n) = exprOr(parts)
    BY DEF Rest
  <2> HIDE DEF parts
  <2>2. QED
    BY <1>2, <2>1, OrFacts
<1>4. (\E p \in parts : p.value) <=> \E e \in edges : e.cond.value /\ S[e.to].value
  <2>1. (\E p \in parts : p.value) <=> \E e \in edges : exprAnd(e.cond, S[e.to]).value
    OBVIOUS
  <2> HIDE DEF parts, edges
  <2>2. QED
    BY <1>1, <2>1
<1> DEFINE first == [to |-> n + 1, cond |-> elementCondition(mem, main[n])]
           other(b) == [to |-> BranchOf(b).end,
                        cond |-> seriesCondition(mem, BranchOf(b).cells, n, BranchOf(b).end)]
           here == {c \in BranchIds : BranchOf(c).start = n}
<1>5. (\E e \in edges : e.cond.value /\ S[e.to].value)
        <=> \/ first.cond.value /\ S[first.to].value
            \/ \E b \in here : other(b).cond.value /\ S[other(b).to].value
  <2>1. edges = {first} \cup {other(b) : b \in here}
    BY DEF ladderEdges
  <2> HIDE DEF first, other, edges, here
  <2>2. QED
    BY <2>1
<1>6. first.cond.value = LineOn(mem, n) /\ first.to = n + 1
  BY DEF LineOn
<1>7. \A b \in here : other(b).cond.value = BranchOn(mem, b) /\ other(b).to = BranchOf(b).end
  BY DEF BranchOn
<1>8. (\E b \in here : other(b).cond.value /\ S[other(b).to].value)
        <=> \E b \in BranchIds : /\ BranchOf(b).start = n
                                 /\ BranchOn(mem, b) /\ S[BranchOf(b).end].value
  <2> HIDE DEF other
  <2>1. QED
    BY <1>7
<1> HIDE DEF first, other, here, edges, parts
<1>9. (\E p \in parts : p.value)
        = (\/ LineOn(mem, n) /\ S[n + 1].value
           \/ \E b \in BranchIds : /\ BranchOf(b).start = n
                                   /\ BranchOn(mem, b) /\ S[BranchOf(b).end].value)
  BY <1>4, <1>5, <1>6, <1>8
<1>10. QED
  BY <1>3, <1>9

\* The equations of expressionFromNode.
IsRest(S, mem) ==
  /\ S \in [0 .. Slots -> Expr]
  /\ S[Slots] = Lit(TRUE)
  /\ \A n \in 0 .. Slots - 1 : S[n] = Rest(mem, S, n)

LEMMA RestIsRecursion ==
  ASSUME Drawing, NEW mem \in Memories
  PROVE  IsRest(expressionFromNode(mem), mem)
<1> DEFINE D == 0 .. Slots
           step == [n \in D |-> [h \in [D -> Expr] |->
                      IF n = Slots THEN Lit(TRUE) ELSE Rest(mem, h, n)]]
           size == [n \in D |-> Slots - n]
           Body(g) == [n \in 0 .. Slots |->
                         IF n = Slots THEN Lit(TRUE)
                         ELSE exprOr({exprAnd(e.cond, g[e.to]) : e \in ladderEdges(mem, n)})]
<1>1. Slots \in Nat /\ Slots \in D /\ \A n \in D : n # Slots => n \in 0 .. Slots - 1
  BY LadderAssumption
<1>2. step \in [D -> [[D -> Expr] -> Expr]]
  BY <1>1, RestFacts, TextFacts
<1>3. ASSUME NEW n \in D, NEW g, NEW h, \A m \in D : n < m => g[m] = h[m]
      PROVE  n # Slots => Rest(mem, g, n) = Rest(mem, h, n)
  <2>1. SUFFICES ASSUME n # Slots PROVE Rest(mem, g, n) = Rest(mem, h, n)
    OBVIOUS
  <2> DEFINE edges == ladderEdges(mem, n)
  <2>2. ASSUME NEW e \in edges PROVE exprAnd(e.cond, g[e.to]) = exprAnd(e.cond, h[e.to])
    <3>1. e.to \in D /\ n < e.to
      BY <1>1, <2>1, EdgeFacts
    <3>2. g[e.to] = h[e.to]
      BY <1>3, <3>1
    <3>3. QED
      BY <3>2
  <2>3. {exprAnd(e.cond, g[e.to]) : e \in edges} = {exprAnd(e.cond, h[e.to]) : e \in edges}
    <3> HIDE DEF edges
    <3>1. QED
      BY <2>2
  <2>4. QED
    BY <2>3 DEF Rest
<1>4. PICK f : Solution(f, D, Expr, step)
  <2>1. Expr # {}
    BY TextFacts, Zenon
  <2>2. size \in [D -> Nat] /\ Slots + 1 \in Nat /\ \A n \in D : size[n] < Slots + 1
    BY <1>1
  <2>3. ASSUME NEW n \in D, NEW g \in [D -> Expr], NEW h \in [D -> Expr],
               \A m \in D : size[m] < size[n] => g[m] = h[m]
        PROVE  step[n][g] = step[n][h]
    <3>1. \A m \in D : n < m => g[m] = h[m]
      BY <1>1, <2>3
    <3>2. n # Slots => Rest(mem, g, n) = Rest(mem, h, n)
      BY <1>3, <3>1
    <3>3. QED
      BY <3>2
  <2> HIDE DEF step, size, D
  <2>4. \A n \in D : \A g, h \in [D -> Expr] :
          (\A m \in D : size[m] < size[n] => g[m] = h[m]) => step[n][g] = step[n][h]
    BY <2>3, Zenon
  <2>5. WellDefined(D, Expr, size, Slots + 1, step)
    BY <1>2, <2>1, <2>2, <2>4, Zenon DEF WellDefined
  <2>6. QED
    BY <2>5, RecursiveFunction
<1>5. f \in [D -> Expr] /\ f = Body(f)
  <2>1. f \in [D -> Expr] /\ \A n \in D : f[n] = step[n][f]
    BY <1>4 DEF Solution
  <2>2. \A n \in D : f[n] = IF n = Slots THEN Lit(TRUE) ELSE Rest(mem, f, n)
    BY <2>1
  <2>3. \A n \in D : f[n] = Body(f)[n]
    BY <2>2 DEF Rest
  <2>4. QED
    BY <2>1, <2>3
<1> DEFINE F == CHOOSE g : g = Body(g)
<1>6. F = Body(F)
  BY <1>5
<1>7. expressionFromNode(mem) = F
  BY DEF expressionFromNode
<1> HIDE DEF F
<1>8. /\ \A n \in D : F[n] = IF n = Slots THEN Lit(TRUE) ELSE Rest(mem, F, n)
      /\ \A n \in D : f[n] = IF n = Slots THEN Lit(TRUE) ELSE Rest(mem, f, n)
  BY <1>5, <1>6 DEF Rest
<1>9. \A n \in D : F[n] = f[n]
  <2> DEFINE T == {n \in D : F[n] = f[n]}
  <2>1. ASSUME NEW n \in D, \A m \in D : size[m] < size[n] => m \in T
        PROVE  n \in T
    <3>1. \A m \in D : n < m => F[m] = f[m]
      BY <1>1, <2>1
    <3>2. n # Slots => Rest(mem, F, n) = Rest(mem, f, n)
      BY <1>3, <3>1
    <3> HIDE DEF step, size, Body
    <3>3. F[n] = f[n]
      <4>1. CASE n = Slots
        BY <1>8, <4>1, Zenon
      <4>2. CASE n # Slots
        BY <1>8, <3>2, <4>2, Zenon
      <4>3. QED
        BY <4>1, <4>2
    <3>4. QED
      BY <3>3
  <2>2. size \in [D -> Nat]
    BY <1>1
  <2> HIDE DEF T, size, step, D, Body
  <2>3. \A n \in D : n \in T
    BY <2>1, <2>2, InductionBySize
  <2>4. QED
    BY <2>3 DEF T
<1>10. F = f
  <2>1. F = [n \in D |-> F[n]] /\ f = [n \in D |-> f[n]]
    BY <1>5, <1>6
  <2> HIDE DEF D
  <2>2. QED
    BY <1>9, <2>1
<1>11. f[Slots] = Lit(TRUE) /\ \A n \in 0 .. Slots - 1 : f[n] = Rest(mem, f, n)
  <2>1. \A n \in 0 .. Slots - 1 : n \in D /\ n # Slots
    BY <1>1
  <2>2. QED
    BY <1>1, <1>8, <2>1
<1>12. QED
  BY <1>5, <1>7, <1>10, <1>11 DEF IsRest

\* Without stored outputs, a wire lets power through if it gets some and its
\* conditions hold.
LEMMA PlainWires ==
  ASSUME Drawing, NEW mem \in Memories, ~HasStoredOutput
  PROVE  /\ \A n \in 0 .. Slots - 1 : \A v \in BOOLEAN :
              Through(mem, n, v) = (v /\ LineOn(mem, n))
         /\ \A b \in BranchIds : \A v \in BOOLEAN :
              Along(mem, b, v) = (v /\ BranchOn(mem, b))
<1>1. ASSUME NEW n \in 0 .. Slots - 1, NEW v \in BOOLEAN
      PROVE  Through(mem, n, v) = (v /\ LineOn(mem, n))
  <2>1. main[n] \in AllSymbols
    BY DEF AllSymbols
  <2>2. main[n].type \notin StoredOutput
    BY <2>1 DEF HasStoredOutput
  <2>3. QED
    BY <2>2 DEF Through, LineOn, simPowerThroughElement, simEvalElement
<1>2. ASSUME NEW b \in BranchIds, NEW v \in BOOLEAN
      PROVE  Along(mem, b, v) = (v /\ BranchOn(mem, b))
  <2>1. /\ BranchOf(b).start \in 0 .. Slots /\ BranchOf(b).end \in BranchOf(b).start .. Slots
        /\ BranchOf(b).cells \in Cells
        /\ \A i \in BranchOf(b).start .. BranchOf(b).end - 1 : i \in 0 .. Slots - 1
    BY BranchFacts, LadderAssumption
  <2>2. \A i \in 0 .. Slots - 1 : BranchOf(b).cells[i] \in AllSymbols
    BY DEF AllSymbols
  <2>3. \A i \in BranchOf(b).start .. BranchOf(b).end - 1 :
          BranchOf(b).cells[i].type \notin StoredOutput
    BY <2>1, <2>2 DEF HasStoredOutput
  <2>4. simPowerThroughSeries(mem, v, BranchOf(b).cells, BranchOf(b).start, BranchOf(b).end)
          = (v /\ seriesCondition(mem, BranchOf(b).cells, BranchOf(b).start, BranchOf(b).end).value)
    BY <2>1, <2>3, SeriesFlowFacts
  <2>5. QED
    BY <2>4 DEF Along, BranchOn
<1>3. QED
  BY <1>1, <1>2

\* Power reaches the right end exactly if there is a path from the left end:
\* a node that has power and a path to the right end is pushed right along the
\* path, or left to where its power comes from.
LEMMA SameFromBothEnds ==
  ASSUME Drawing, NEW mem \in Memories, ~HasStoredOutput,
         NEW val, IsValue(val, mem), NEW S, IsRest(S, mem)
  PROVE  val[Slots] = S[0].value
<1> DEFINE live(n) == val[n] /\ S[n].value
<1>1. Slots \in Nat /\ 0 \in 0 .. Slots /\ Slots \in 0 .. Slots
  BY LadderAssumption
<1>2. /\ \A n \in 0 .. Slots : val[n] \in BOOLEAN /\ S[n].value \in BOOLEAN
      /\ val[0] = TRUE /\ S[Slots].value = TRUE
  BY TextFacts DEF IsValue, IsRest
<1>3. /\ \A n \in 0 .. Slots - 1 : LineOn(mem, n) \in BOOLEAN
      /\ \A b \in BranchIds : BranchOn(mem, b) \in BOOLEAN
  BY OnFacts
<1>4. ASSUME NEW n \in 1 .. Slots
      PROVE  val[n] <=> \/ val[n - 1] /\ LineOn(mem, n - 1)
                        \/ \E b \in BranchIds : /\ BranchOf(b).end = n
                                                /\ val[BranchOf(b).start] /\ BranchOn(mem, b)
  <2>1. n - 1 \in 0 .. Slots - 1 /\ n - 1 \in 0 .. Slots
    BY <1>1
  <2>2. Through(mem, n - 1, val[n - 1]) = (val[n - 1] /\ LineOn(mem, n - 1))
    BY <1>2, <2>1, PlainWires
  <2>3. \A b \in BranchIds :
          Along(mem, b, val[BranchOf(b).start]) = (val[BranchOf(b).start] /\ BranchOn(mem, b))
    BY <1>2, BranchFacts, PlainWires
  <2>4. QED
    BY <2>2, <2>3 DEF IsValue
<1>5. ASSUME NEW n \in 0 .. Slots - 1
      PROVE  S[n].value <=> \/ LineOn(mem, n) /\ S[n + 1].value
                            \/ \E b \in BranchIds : /\ BranchOf(b).start = n
                                                    /\ BranchOn(mem, b) /\ S[BranchOf(b).end].value
  <2>1. S \in [0 .. Slots -> Expr] /\ S[n] = Rest(mem, S, n)
    BY DEF IsRest
  <2>2. Rest(mem, S, n).value =
              (\/ LineOn(mem, n) /\ S[n + 1].value
               \/ \E b \in BranchIds : /\ BranchOf(b).start = n
                                       /\ BranchOn(mem, b) /\ S[BranchOf(b).end].value)
    BY <2>1, RestFacts, Zenon
  <2>3. QED
    BY <2>1, <2>2
<1>6. \A b \in BranchIds :
        /\ BranchOf(b).start \in 0 .. Slots - 1 /\ BranchOf(b).end \in 1 .. Slots
        /\ BranchOf(b).start < BranchOf(b).end
  BY <1>1, BranchFacts
<1>7. ASSUME S[0].value PROVE val[Slots]
  <2> DEFINE T == {k \in 0 .. Slots : \E n \in k .. Slots : live(n)}
  <2>1. 0 \in T
    BY <1>1, <1>2, <1>7
  <2>2. ASSUME NEW k \in 0 .. Slots, k \in T, k < Slots
        PROVE  k + 1 \in T
    <3>1. PICK n \in k .. Slots : live(n)
      BY <2>2
    <3>2. k \in 0 .. Slots - 1 /\ k + 1 \in 0 .. Slots /\ k + 1 \in 1 .. Slots
          /\ (k + 1) - 1 = k /\ k + 1 \in k + 1 .. Slots
      BY <1>1, <2>2
    <3>3. CASE n # k
      <4>1. n \in k + 1 .. Slots
        BY <1>1, <3>1, <3>2, <3>3
      <4>2. QED
        BY <3>1, <3>2, <4>1
    <3>4. CASE n = k
      <4>1. S[k].value /\ val[k]
        BY <3>1, <3>4
      <4>2. CASE LineOn(mem, k) /\ S[k + 1].value
        <5>1. val[(k + 1) - 1] /\ LineOn(mem, (k + 1) - 1)
          BY <3>2, <4>1, <4>2
        <5>2. val[k + 1]
          BY <1>4, <3>2, <5>1
        <5>3. QED
          BY <3>2, <4>2, <5>2
      <4>3. ASSUME NEW b \in BranchIds, BranchOf(b).start = k, BranchOn(mem, b),
                   S[BranchOf(b).end].value
            PROVE  k + 1 \in T
        <5>1. val[BranchOf(b).end]
          BY <1>4, <1>6, <4>1, <4>3
        <5>2. BranchOf(b).end \in k + 1 .. Slots
          BY <1>1, <1>6, <3>2, <4>3
        <5>3. QED
          BY <3>2, <4>3, <5>1, <5>2
      <4>4. QED
        BY <1>5, <3>2, <4>1, <4>2, <4>3
    <3>5. QED
      BY <3>3, <3>4
  <2>3. Slots \in T
    <3>1. \A k \in 0 .. Slots : k \in T
      <4> HIDE DEF T
      <4>1. QED
        BY <1>1, <2>1, <2>2, InductionUpTo
    <3>2. QED
      BY <1>1, <3>1
  <2>4. PICK n \in Slots .. Slots : live(n)
    BY <2>3
  <2>5. n = Slots
    BY <1>1
  <2>6. QED
    BY <2>4, <2>5
<1>8. ASSUME val[Slots] PROVE S[0].value
  <2> DEFINE T == {k \in 0 .. Slots : \E n \in 0 .. Slots - k : live(n)}
  <2>1. 0 \in T
    <3>1. Slots \in 0 .. Slots - 0
      BY <1>1
    <3>2. QED
      BY <1>1, <1>2, <1>8, <3>1
  <2>2. ASSUME NEW k \in 0 .. Slots, k \in T, k < Slots
        PROVE  k + 1 \in T
    <3>1. PICK n \in 0 .. Slots - k : live(n)
      BY <2>2
    <3> DEFINE m == Slots - k
    <3>2. m \in 1 .. Slots /\ m - 1 \in 0 .. Slots - 1 /\ m - 1 \in 0 .. Slots - (k + 1)
          /\ (m - 1) + 1 = m /\ k + 1 \in 0 .. Slots
      BY <1>1, <2>2
    <3>3. CASE n # m
      <4>1. n \in 0 .. Slots - (k + 1)
        BY <1>1, <3>1, <3>2, <3>3
      <4>2. QED
        BY <3>1, <3>2, <4>1
    <3>4. CASE n = m
      <4>1. S[m].value /\ val[m]
        BY <3>1, <3>4
      <4> HIDE DEF m
      <4>2. CASE val[m - 1] /\ LineOn(mem, m - 1)
        <5>1. LineOn(mem, m - 1) /\ S[(m - 1) + 1].value
          BY <3>2, <4>1, <4>2
        <5>2. S[m - 1].value
          BY <1>5, <3>2, <5>1
        <5>3. QED
          BY <3>2, <4>2, <5>2
      <4>3. ASSUME NEW b \in BranchIds, BranchOf(b).end = m, BranchOn(mem, b),
                   val[BranchOf(b).start]
            PROVE  k + 1 \in T
        <5>1. S[BranchOf(b).start].value
          BY <1>5, <1>6, <4>1, <4>3
        <5>2. BranchOf(b).start \in 0 .. Slots - (k + 1)
          BY <1>1, <1>6, <2>2, <4>3 DEF m
        <5>3. QED
          BY <3>2, <4>3, <5>1, <5>2
      <4>4. QED
        BY <1>4, <3>2, <4>1, <4>2, <4>3
    <3>5. QED
      BY <3>3, <3>4
  <2>3. Slots \in T
    <3>1. \A k \in 0 .. Slots : k \in T
      <4> HIDE DEF T
      <4>1. QED
        BY <1>1, <2>1, <2>2, InductionUpTo
    <3>2. QED
      BY <1>1, <3>1
  <2>4. PICK n \in 0 .. Slots - Slots : live(n)
    BY <2>3
  <2>5. n = 0
    BY <1>1
  <2>6. QED
    BY <2>4, <2>5
<1>9. QED
  BY <1>1, <1>2, <1>7, <1>8
-----------------------------------------------------------------------------
(***************************************************************************)
(* The readable form: readableExpressionFromNode                           *)
(***************************************************************************)
Reading == Expr \cup {Null}

LEMMA ReadingFacts ==
  /\ \A p \in Reading : p.text # "null" => p \in Expr
  /\ Null \in Reading /\ \A p \in Expr : p \in Reading
BY TextFacts DEF Reading

\* The parts of a section that starts with a group, and what follows.
Inner(s)     == Section(s.node, GroupEnd(s), s.ignored \cup Group(s))
Following(s) == Section(IF Group(s) = {} THEN s.node + 1 ELSE GroupEnd(s), s.stop, s.ignored)

LEMMA SectionFacts ==
  /\ \A s \in Sections : /\ s.node \in 0 .. Slots /\ s.stop \in 0 .. Slots
                         /\ s.node \in Nat /\ s.stop \in Nat
                         /\ s.ignored \in SUBSET BranchIds
  /\ \A node, stop \in 0 .. Slots : \A ignored \in SUBSET BranchIds :
       /\ Section(node, stop, ignored) \in Sections
       /\ Section(node, stop, ignored).node = node
       /\ Section(node, stop, ignored).stop = stop
       /\ Section(node, stop, ignored).ignored = ignored
BY LadderAssumption DEF Sections, Section

LEMMA GroupFacts ==
  ASSUME Drawing, NEW s \in Sections, Group(s) # {}
  PROVE  /\ \E b \in Group(s) : GroupEnd(s) = BranchOf(b).end
         /\ GroupEnd(s) \in s.node + 1 .. s.stop /\ GroupEnd(s) \in 0 .. Slots
         /\ Group(s) \in SUBSET BranchIds
         /\ Inner(s) \in Sections
         /\ Group(Inner(s)) = {}
<1>1. Group(s) \in SUBSET BranchIds
  BY DEF Group
<1>2. Group(s) \subseteq Nat
  BY <1>1 DEF BranchIds, Drawing
<1>3. \E b \in Group(s) : \A c \in Group(s) : b <= c
  BY <1>2, LeastNumber
<1>4. \E b \in Group(s) : GroupEnd(s) = BranchOf(b).end
  BY <1>3 DEF GroupEnd
<1>5. PICK b \in Group(s) : GroupEnd(s) = BranchOf(b).end
  BY <1>4
<1>6. /\ BranchOf(b).start = s.node /\ BranchOf(b).end <= s.stop
      /\ BranchOf(b).start < BranchOf(b).end
      /\ BranchOf(b).end \in 0 .. Slots /\ BranchOf(b).start \in 0 .. Slots
  BY <1>1, BranchFacts DEF Group
<1>7. s.node \in Nat /\ s.stop \in Nat /\ s.node \in 0 .. Slots /\ s.ignored \in SUBSET BranchIds
  BY SectionFacts
<1>8. GroupEnd(s) \in s.node + 1 .. s.stop /\ GroupEnd(s) \in 0 .. Slots
  BY <1>5, <1>6, <1>7
<1>9. s.ignored \cup Group(s) \in SUBSET BranchIds
  BY <1>1, <1>7
<1>10. /\ Inner(s) \in Sections
       /\ Inner(s).node = s.node /\ Inner(s).stop = GroupEnd(s)
       /\ Inner(s).ignored = s.ignored \cup Group(s)
  BY <1>7, <1>8, <1>9, SectionFacts DEF Inner
<1>11. Group(Inner(s)) = {}
  <2>1. SUFFICES ASSUME NEW c \in Group(Inner(s)) PROVE FALSE
    OBVIOUS
  <2>2. /\ c \in BranchIds /\ c \notin s.ignored /\ c \notin Group(s)
        /\ BranchOf(c).start = s.node /\ BranchOf(c).end <= GroupEnd(s)
    BY <1>10 DEF Group
  <2>3. BranchOf(c).end \in Nat /\ GroupEnd(s) \in Nat /\ GroupEnd(s) <= s.stop
    BY <1>7, <1>8, <2>2, BranchFacts, LadderAssumption
  <2>4. BranchOf(c).end <= s.stop
    BY <1>7, <2>2, <2>3
  <2>5. QED
    BY <2>2, <2>4 DEF Group
<1>12. QED
  BY <1>1, <1>4, <1>8, <1>10, <1>11

LEMMA FollowingFacts ==
  ASSUME Drawing, NEW s \in Sections, s.node < s.stop
  PROVE  /\ Following(s) \in Sections
         /\ Following(s).stop = s.stop /\ Following(s).ignored = s.ignored
         /\ Following(s).node = IF Group(s) = {} THEN s.node + 1 ELSE GroupEnd(s)
         /\ Following(s).node \in s.node + 1 .. s.stop
<1> DEFINE next == IF Group(s) = {} THEN s.node + 1 ELSE GroupEnd(s)
<1>1. /\ s.node \in Nat /\ s.stop \in Nat /\ s.stop \in 0 .. Slots /\ Slots \in Nat
      /\ s.ignored \in SUBSET BranchIds
  BY SectionFacts, LadderAssumption
<1>2. next \in s.node + 1 .. s.stop /\ next \in 0 .. Slots
  BY <1>1, GroupFacts
<1>3. Following(s) = Section(next, s.stop, s.ignored)
  BY DEF Following
<1> HIDE DEF next
<1>4. /\ Section(next, s.stop, s.ignored) \in Sections
      /\ Section(next, s.stop, s.ignored).node = next
      /\ Section(next, s.stop, s.ignored).stop = s.stop
      /\ Section(next, s.stop, s.ignored).ignored = s.ignored
  BY <1>1, <1>2 DEF Section, Sections
<1>5. /\ Following(s) \in Sections /\ Following(s).stop = s.stop /\ Following(s).ignored = s.ignored
      /\ Following(s).node = next
  BY <1>3, <1>4
<1>6. QED
  BY <1>2, <1>5 DEF next

\* The recursion goes to shorter sections, or to one that has no group left.
Size(s) ==
  IF s.node >= s.stop THEN 0
  ELSE 2 * (s.stop - s.node) + (IF Group(s) = {} THEN 0 ELSE 1)

LEMMA SizeFacts ==
  ASSUME Drawing, NEW s \in Sections
  PROVE  /\ Size(s) \in Nat /\ Size(s) < 2 * Slots + 2
         /\ s.node < s.stop => Size(Following(s)) < Size(s)
         /\ s.node < s.stop /\ Group(s) # {} => Size(Inner(s)) < Size(s)
<1>1. /\ s.node \in Nat /\ s.stop \in Nat /\ s.stop <= Slots /\ Slots \in Nat
  BY SectionFacts, LadderAssumption
<1>2. Size(s) \in Nat /\ Size(s) < 2 * Slots + 2
  BY <1>1 DEF Size
<1>3. ASSUME s.node < s.stop PROVE Size(Following(s)) < Size(s)
  <2>1. /\ Following(s).node \in s.node + 1 .. s.stop /\ Following(s).stop = s.stop
    BY <1>3, FollowingFacts
  <2>2. Size(Following(s)) \in Nat
    BY <1>1, <2>1 DEF Size
  <2>3. Size(Following(s)) < 2 * (s.stop - s.node)
    BY <1>1, <1>3, <2>1 DEF Size
  <2>4. Size(s) >= 2 * (s.stop - s.node)
    BY <1>1, <1>3 DEF Size
  <2>5. QED
    BY <1>1, <1>2, <2>2, <2>3, <2>4
<1>4. ASSUME s.node < s.stop, Group(s) # {} PROVE Size(Inner(s)) < Size(s)
  <2>1. GroupEnd(s) \in s.node + 1 .. s.stop /\ Group(Inner(s)) = {}
    BY <1>4, GroupFacts
  <2>2. Inner(s).node = s.node /\ Inner(s).stop = GroupEnd(s)
    BY DEF Inner, Section
  <2>3. Size(Inner(s)) = 2 * (GroupEnd(s) - s.node)
    BY <1>1, <2>1, <2>2 DEF Size
  <2>4. Size(s) = 2 * (s.stop - s.node) + 1
    BY <1>1, <1>4 DEF Size
  <2>5. QED
    BY <1>1, <2>1, <2>3, <2>4
<1>5. QED
  BY <1>2, <1>3, <1>4

\* The parallel parts of a group, and the expressions made of them.
Parts(mem, inner, s) ==
  {inner} \cup {seriesCondition(mem, BranchOf(b).cells, s.node, GroupEnd(s)) : b \in Group(s)}

Parallel(kept) == IF kept = {} THEN Lit(TRUE) ELSE exprOr(kept)

Grouped(mem, inner, s) ==
  IF \/ \E b \in Group(s) : BranchOf(b).end # GroupEnd(s)
     \/ \E b \in BranchIds \ (s.ignored \cup Group(s)) : Crosses(b, s, GroupEnd(s))
     \/ \E p \in Parts(mem, inner, s) : p.text = "null"
  THEN Null
  ELSE Parallel(alternatives(Parts(mem, inner, s)))

Joined(head, tail) ==
  IF head.text = "null" \/ tail.text = "null" THEN Null ELSE exprAnd(head, tail)

\* sectionExpression uses what has been solved at two places only.
LEMMA SectionUnfolds ==
  ASSUME NEW mem, NEW solve, NEW s
  PROVE  sectionExpression(mem, solve, s) =
           Joined(IF Group(s) = {} THEN elementCondition(mem, main[s.node])
                  ELSE Grouped(mem, solve[Inner(s)], s),
                  solve[Following(s)])
<1>1. groupExpression(mem, solve, s) = Grouped(mem, solve[Inner(s)], s)
  BY DEF groupExpression, Grouped, Parts, Parallel, Inner
<1>2. QED
  BY <1>1 DEF sectionExpression, Joined, Following

LEMMA PartsFacts ==
  ASSUME Drawing, NEW mem \in Memories, NEW s \in Sections, Group(s) # {}, NEW inner \in Reading
  PROVE  /\ Parts(mem, inner, s) \subseteq Reading
         /\ \A b \in Group(s) : 
              seriesCondition(mem, BranchOf(b).cells, s.node, GroupEnd(s)) \in Expr
<1>1. \A b \in Group(s) : BranchOf(b).cells \in Cells
  BY GroupFacts, BranchFacts
<1>2. s.node \in 0 .. Slots /\ GroupEnd(s) \in 0 .. Slots
  BY GroupFacts, SectionFacts
<1>3. \A b \in Group(s) :
        seriesCondition(mem, BranchOf(b).cells, s.node, GroupEnd(s)) \in Expr
  BY <1>1, <1>2, SeriesFacts
<1>4. QED
  BY <1>3, ReadingFacts DEF Parts

LEMMA GroupedIsReading ==
  ASSUME Drawing, NEW mem \in Memories, NEW s \in Sections, Group(s) # {}, NEW inner \in Reading
  PROVE  Grouped(mem, inner, s) \in Reading
<1> DEFINE parts == Parts(mem, inner, s)
<1>1. parts \subseteq Reading
  BY PartsFacts
<1>2. CASE \E p \in parts : p.text = "null"
  BY <1>2, ReadingFacts DEF Grouped
<1>3. CASE ~\E p \in parts : p.text = "null"
  <2>1. parts \subseteq Expr
    BY <1>1, <1>3, ReadingFacts
  <2>2. alternatives(parts) \in SUBSET Expr
    BY <2>1 DEF alternatives
  <2> HIDE DEF parts
  <2>3. Parallel(alternatives(parts)) \in Expr
    BY <2>2, OrFacts, TextFacts DEF Parallel
  <2>4. Grouped(mem, inner, s) \in {Null, Parallel(alternatives(parts))}
    BY DEF Grouped, parts
  <2>5. QED
    BY <2>3, <2>4, ReadingFacts
<1>4. QED
  BY <1>2, <1>3

LEMMA SectionIsReading ==
  ASSUME Drawing, NEW mem \in Memories, NEW s \in Sections, s.node < s.stop,
         NEW solve \in [Sections -> Reading]
  PROVE  sectionExpression(mem, solve, s) \in Reading
<1> DEFINE head == IF Group(s) = {} THEN elementCondition(mem, main[s.node])
                   ELSE Grouped(mem, solve[Inner(s)], s)
           tail == solve[Following(s)]
<1>1. ASSUME Group(s) = {} PROVE head \in Reading
  <2>1. s.node \in 0 .. Slots - 1
    BY <1>1, SectionFacts, LadderAssumption
  <2>2. main[s.node] \in Cell
    BY <2>1 DEF Drawing, Cells
  <2>3. elementCondition(mem, main[s.node]) \in Expr
    BY <2>2, ConditionFacts
  <2>4. QED
    BY <1>1, <2>3, ReadingFacts
<1>2. ASSUME Group(s) # {} PROVE head \in Reading
  <2>1. solve[Inner(s)] \in Reading
    BY <1>2, GroupFacts
  <2>2. QED
    BY <1>2, <2>1, GroupedIsReading
<1>3. head \in Reading
  BY <1>1, <1>2
<1>4. tail \in Reading
  BY FollowingFacts
<1> HIDE DEF head, tail
<1>5. Joined(head, tail) \in Reading
  <2>1. CASE head.text = "null" \/ tail.text = "null"
    BY <2>1, ReadingFacts DEF Joined
  <2>2. CASE head.text # "null" /\ tail.text # "null"
    <3>1. exprAnd(head, tail) \in Expr
      BY <1>3, <1>4, <2>2, ReadingFacts, AndFacts
    <3>2. QED
      BY <2>2, <3>1, ReadingFacts DEF Joined
  <2>3. QED
    BY <2>1, <2>2
<1>6. QED
  BY <1>5, SectionUnfolds DEF head, tail

\* The equations of readableExpressionFromNode.
Read(mem, solve, s) ==
  IF s.node = s.stop THEN Lit(TRUE)
  ELSE IF s.node > s.stop THEN Null
  ELSE sectionExpression(mem, solve, s)

LEMMA ReadFacts ==
  ASSUME NEW mem, NEW solve, NEW s \in Sections
  PROVE  /\ s.node = s.stop => Read(mem, solve, s) = Lit(TRUE)
         /\ s.node > s.stop => Read(mem, solve, s) = Null
         /\ s.node < s.stop => Read(mem, solve, s) = sectionExpression(mem, solve, s)
<1>1. /\ s.node > s.stop => s.node # s.stop
      /\ s.node < s.stop => s.node # s.stop /\ ~(s.node > s.stop)
  BY SectionFacts
<1>2. QED
  BY <1>1, Zenon DEF Read

IsReadable(R, mem) ==
  /\ R \in [Sections -> Reading]
  /\ \A s \in Sections : R[s] = Read(mem, R, s)

LEMMA ReadableIsRecursion ==
  ASSUME Drawing, NEW mem \in Memories
  PROVE  IsReadable(readableExpressionFromNode(mem), mem)
<1> DEFINE step == [s \in Sections |-> [h \in [Sections -> Reading] |-> Read(mem, h, s)]]
           size == [s \in Sections |-> Size(s)]
           Body(g) == [s \in Sections |->
                         IF s.node = s.stop THEN Lit(TRUE)
                         ELSE IF s.node > s.stop THEN Null
                         ELSE sectionExpression(mem, g, s)]
<1>1. \A s \in Sections : s.node \in Nat /\ s.stop \in Nat
  BY SectionFacts
<1>2. step \in [Sections -> [[Sections -> Reading] -> Reading]]
  <2>1. ASSUME NEW s \in Sections, NEW h \in [Sections -> Reading]
        PROVE  Read(mem, h, s) \in Reading
    <3>1. Lit(TRUE) \in Reading /\ Null \in Reading
      BY ReadingFacts, TextFacts
    <3>2. s.node = s.stop \/ s.node > s.stop \/ s.node < s.stop
      BY <1>1
    <3>3. QED
      BY <3>1, <3>2, SectionIsReading DEF Read
  <2>2. QED
    BY <2>1
<1>3. ASSUME NEW s \in Sections, NEW g, NEW h,
             \A r \in Sections : Size(r) < Size(s) => g[r] = h[r]
      PROVE  Read(mem, g, s) = Read(mem, h, s)
  <2>1. SUFFICES ASSUME s.node < s.stop
                 PROVE  sectionExpression(mem, g, s) = sectionExpression(mem, h, s)
    <3>1. s.node = s.stop \/ s.node > s.stop \/ s.node < s.stop
      BY <1>1
    <3>2. QED
      BY <3>1, Zenon DEF Read
  <2>2. g[Following(s)] = h[Following(s)]
    BY <1>3, <2>1, FollowingFacts, SizeFacts
  <2>3. Group(s) # {} => g[Inner(s)] = h[Inner(s)]
    BY <1>3, <2>1, GroupFacts, SizeFacts
  <2>4. /\ sectionExpression(mem, g, s) =
             Joined(IF Group(s) = {} THEN elementCondition(mem, main[s.node])
                    ELSE Grouped(mem, g[Inner(s)], s), g[Following(s)])
        /\ sectionExpression(mem, h, s) =
             Joined(IF Group(s) = {} THEN elementCondition(mem, main[s.node])
                    ELSE Grouped(mem, h[Inner(s)], s), h[Following(s)])
    BY SectionUnfolds
  <2>5. QED
    BY <2>2, <2>3, <2>4
<1>4. PICK f : Solution(f, Sections, Reading, step)
  <2>1. Reading # {}
    BY ReadingFacts, Zenon
  <2>2. /\ size \in [Sections -> Nat] /\ 2 * Slots + 2 \in Nat
        /\ \A s \in Sections : size[s] < 2 * Slots + 2
    BY SizeFacts, LadderAssumption
  <2>3. ASSUME NEW s \in Sections,
               NEW g \in [Sections -> Reading], NEW h \in [Sections -> Reading],
               \A r \in Sections : size[r] < size[s] => g[r] = h[r]
        PROVE  step[s][g] = step[s][h]
    <3>1. \A r \in Sections : Size(r) < Size(s) => g[r] = h[r]
      BY <2>3
    <3>2. Read(mem, g, s) = Read(mem, h, s)
      BY <1>3, <3>1
    <3>3. QED
      BY <3>2
  <2> HIDE DEF step, size
  <2>4. \A s \in Sections : \A g, h \in [Sections -> Reading] :
          (\A r \in Sections : size[r] < size[s] => g[r] = h[r]) => step[s][g] = step[s][h]
    BY <2>3, Zenon
  <2> DEFINE N == 2 * Slots + 2
  <2>5. N \in Nat /\ \A s \in Sections : size[s] < N
    BY <2>2
  <2> HIDE DEF N
  <2>6. WellDefined(Sections, Reading, size, N, step)
    BY <1>2, <2>1, <2>2, <2>4, <2>5, Zenon DEF WellDefined
  <2>7. QED
    BY <2>6, RecursiveFunction
<1>5. f \in [Sections -> Reading] /\ f = Body(f)
  <2>1. f \in [Sections -> Reading] /\ \A s \in Sections : f[s] = step[s][f]
    BY <1>4 DEF Solution
  <2>2. \A s \in Sections : f[s] = Read(mem, f, s)
    BY <2>1
  <2>3. \A s \in Sections : f[s] = Body(f)[s]
    BY <2>2 DEF Read
  <2>4. QED
    BY <2>1, <2>3
<1> DEFINE F == CHOOSE g : g = Body(g)
<1>6. F = Body(F)
  BY <1>5
<1>7. readableExpressionFromNode(mem) = F
  BY DEF readableExpressionFromNode
<1> HIDE DEF F
<1>8. /\ \A s \in Sections : F[s] = Read(mem, F, s)
      /\ \A s \in Sections : f[s] = Read(mem, f, s)
  BY <1>5, <1>6 DEF Read
<1>9. \A s \in Sections : F[s] = f[s]
  <2> DEFINE T == {s \in Sections : F[s] = f[s]}
  <2>1. ASSUME NEW s \in Sections, \A r \in Sections : size[r] < size[s] => r \in T
        PROVE  s \in T
    <3>1. \A r \in Sections : Size(r) < Size(s) => F[r] = f[r]
      BY <2>1
    <3>2. Read(mem, F, s) = Read(mem, f, s)
      BY <1>3, <3>1
    <3>3. F[s] = f[s]
      BY <1>8, <3>2, Zenon
    <3>4. QED
      BY <3>3
  <2>2. size \in [Sections -> Nat]
    BY SizeFacts
  <2> HIDE DEF T, size, step, Body
  <2>3. \A s \in Sections : s \in T
    BY <2>1, <2>2, InductionBySize
  <2>4. QED
    BY <2>3 DEF T
<1>10. F = f
  <2>1. F = [s \in Sections |-> F[s]] /\ f = [s \in Sections |-> f[s]]
    BY <1>5, <1>6
  <2>2. QED
    BY <1>9, <2>1, Zenon
<1>11. QED
  BY <1>5, <1>7, <1>8, <1>10 DEF IsReadable

\* From node n a wire that lets power through leads into V, within a section.
Leads(mem, V, n, stop, ignored) ==
  \/ LineOn(mem, n) /\ n + 1 \in V
  \/ \E b \in BranchIds \ ignored :
       /\ BranchOf(b).start = n /\ BranchOf(b).end <= stop
       /\ BranchOn(mem, b) /\ BranchOf(b).end \in V

\* V is the set of nodes from which a path leads to the end of a section.
Live(mem, V, stop, ignored) ==
  /\ V \in SUBSET (0 .. stop) /\ stop \in V
  /\ \A n \in 0 .. stop - 1 : n \in V <=> Leads(mem, V, n, stop, ignored)

LEMMA LiveExists ==
  ASSUME Drawing, NEW mem \in Memories, NEW stop \in 0 .. Slots, NEW ignored
  PROVE  \E V : Live(mem, V, stop, ignored)
<1> DEFINE From(V, m) == /\ V \in SUBSET (m .. stop) /\ stop \in V
                         /\ \A n \in m .. stop - 1 : n \in V <=> Leads(mem, V, n, stop, ignored)
           T == {k \in 0 .. stop : \E V : From(V, stop - k)}
<1>1. stop \in Nat
  BY LadderAssumption
<1>2. 0 \in T
  <2>1. From({stop}, stop - 0)
    BY <1>1
  <2>2. QED
    BY <1>1, <2>1
<1>3. ASSUME NEW k \in 0 .. stop, k \in T, k < stop
      PROVE  k + 1 \in T
  <2>1. PICK V : From(V, stop - k)
    BY <1>3
  <2> DEFINE m == stop - (k + 1)
             W == V \cup {n \in {m} : Leads(mem, V, m, stop, ignored)}
  <2>2. m \in Nat /\ stop - k = m + 1 /\ m < stop /\ k + 1 \in 0 .. stop
    BY <1>1, <1>3
  <2> HIDE DEF m
  <2>3. \A n \in m + 1 .. stop : n \in W <=> n \in V
    BY <2>2
  <2>4. ASSUME NEW n \in m .. stop - 1
        PROVE  Leads(mem, W, n, stop, ignored) <=> Leads(mem, V, n, stop, ignored)
    <3>1. n + 1 \in m + 1 .. stop
      BY <1>1, <2>2
    <3>2. \A b \in BranchIds :
            BranchOf(b).start = n /\ BranchOf(b).end <= stop => BranchOf(b).end \in m + 1 .. stop
      BY <1>1, <2>2, BranchFacts, LadderAssumption
    <3> HIDE DEF W
    <3>3. QED
      BY <2>3, <3>1, <3>2 DEF Leads
  <2>5. V \in SUBSET (m + 1 .. stop) /\ stop \in V
        /\ \A n \in m + 1 .. stop - 1 : n \in V <=> Leads(mem, V, n, stop, ignored)
    BY <2>1, <2>2
  <2>6. W \in SUBSET (m .. stop) /\ stop \in W
    <3>1. m \in m .. stop /\ \A x \in m + 1 .. stop : x \in m .. stop
      BY <1>1, <2>2
    <3>2. \A x \in W : x = m \/ x \in V
      OBVIOUS
    <3>3. stop \in W
      BY <2>5
    <3> HIDE DEF W
    <3>4. QED
      BY <2>5, <3>1, <3>2, <3>3
  <2>7. m \notin V
    BY <2>2, <2>5
  <2>8. m \in W <=> Leads(mem, V, m, stop, ignored)
    BY <2>7
  <2>9. ASSUME NEW n \in m .. stop - 1
        PROVE  n \in W <=> Leads(mem, W, n, stop, ignored)
    <3>1. n = m \/ n \in m + 1 .. stop - 1
      BY <1>1, <2>2
    <3>2. CASE n = m
      BY <2>4, <2>8, <3>2
    <3>3. CASE n \in m + 1 .. stop - 1
      <4>1. n \in m + 1 .. stop
        BY <1>1, <2>2, <3>3
      <4>2. n \in W <=> n \in V
        BY <2>3, <4>1
      <4>3. n \in V <=> Leads(mem, V, n, stop, ignored)
        BY <2>5, <3>3
      <4> HIDE DEF W
      <4>4. QED
        BY <2>4, <4>2, <4>3
    <3>4. QED
      BY <3>1, <3>2, <3>3
  <2> HIDE DEF W
  <2>10. From(W, m)
    BY <2>6, <2>9
  <2>11. QED
    BY <2>2, <2>10 DEF m
<1>4. stop \in T
  <2>1. \A k \in 0 .. stop : k \in T
    <3> HIDE DEF T
    <3>1. QED
      BY <1>1, <1>2, <1>3, InductionUpTo
  <2>2. QED
    BY <1>1, <2>1
<1>5. PICK V : From(V, stop - stop)
  BY <1>4
<1>6. stop - stop = 0
  BY <1>1
<1>7. Live(mem, V, stop, ignored)
  BY <1>5, <1>6 DEF Live
<1>8. QED
  BY <1>7

\* Where a group can be formed, what leads to the end of its section goes
\* through the end of the group.
LEMMA GroupIsSeries ==
  ASSUME Drawing, NEW mem \in Memories, NEW s \in Sections, s.node < s.stop,
         Group(s) # {},
         \A b \in Group(s) : BranchOf(b).end = GroupEnd(s),
         \A b \in BranchIds \ (s.ignored \cup Group(s)) : ~Crosses(b, s, GroupEnd(s)),
         NEW V, Live(mem, V, s.stop, s.ignored),
         NEW W, Live(mem, W, GroupEnd(s), s.ignored \cup Group(s))
  PROVE  s.node \in V <=> /\ GroupEnd(s) \in V
                          /\ s.node \in W \/ \E b \in Group(s) : BranchOn(mem, b)
<1> DEFINE end == GroupEnd(s)
           node == s.node
           stop == s.stop
<1>1. /\ node \in Nat /\ stop \in Nat /\ end \in node + 1 .. stop /\ end \in Nat
      /\ Group(s) \subseteq BranchIds
  BY SectionFacts, GroupFacts
<1>2. ASSUME NEW b \in BranchIds
      PROVE  /\ BranchOf(b).start \in Nat /\ BranchOf(b).end \in Nat
             /\ BranchOf(b).start < BranchOf(b).end
  BY BranchFacts, LadderAssumption
<1>3. /\ stop \in V /\ end \in W
      /\ \A n \in 0 .. stop - 1 : n \in V <=> Leads(mem, V, n, stop, s.ignored)
      /\ \A n \in 0 .. end - 1 : n \in W <=> Leads(mem, W, n, end, s.ignored \cup Group(s))
  BY DEF Live
<1>4. \A b \in BranchIds \ s.ignored :
        b \in Group(s) <=> BranchOf(b).start = node /\ BranchOf(b).end <= stop
  BY DEF Group
<1>5. ASSUME NEW b \in BranchIds \ s.ignored,
             BranchOf(b).start \in node + 1 .. end - 1, BranchOf(b).end <= stop
      PROVE  b \notin Group(s) /\ BranchOf(b).end <= end
  <2>1. b \notin Group(s)
    BY <1>1, <1>4, <1>5
  <2>2. ~Crosses(b, s, end)
    BY <2>1
  <2>3. BranchOf(b).end \notin end + 1 .. stop
    BY <1>5, <2>2 DEF Crosses
  <2>4. QED
    BY <1>1, <1>2, <1>5, <2>1, <2>3
<1> HIDE DEF end, node, stop
<1> DEFINE Same(m) == m \in V <=> m \in W /\ end \in V
           T == {k \in 0 .. end - node - 1 : \A m \in end - k .. end : Same(m)}
<1>6. 0 \in T
  <2>1. \A m \in end - 0 .. end : m = end
    BY <1>1
  <2>2. \A m \in end - 0 .. end : Same(m)
    BY <1>3, <2>1
  <2>3. QED
    BY <1>1, <2>2
<1>7. ASSUME NEW k \in 0 .. end - node - 1, k \in T, k < end - node - 1
      PROVE  k + 1 \in T
  <2> DEFINE n == end - (k + 1)
  <2>1. /\ n \in node + 1 .. end - 1 /\ n \in 0 .. stop - 1 /\ n \in 0 .. end - 1
        /\ n + 1 = end - k /\ n + 1 \in n + 1 .. end /\ n \in Nat
        /\ k + 1 \in 0 .. end - node - 1
    BY <1>1, <1>7
  <2>2. \A m \in n + 1 .. end : Same(m)
    BY <1>7, <2>1
  <2> HIDE DEF n
  <2>3. ASSUME NEW b \in BranchIds, BranchOf(b).start = n
        PROVE  b \in BranchIds \ s.ignored /\ BranchOf(b).end <= stop
               <=> b \in BranchIds \ (s.ignored \cup Group(s)) /\ BranchOf(b).end <= end
    BY <1>1, <1>2, <1>4, <1>5, <2>1, <2>3
  <2>4. ASSUME NEW b \in BranchIds, BranchOf(b).start = n, BranchOf(b).end <= end
        PROVE  Same(BranchOf(b).end)
    <3>1. BranchOf(b).end \in n + 1 .. end
      BY <1>1, <1>2, <2>1, <2>4
    <3>2. QED
      BY <2>2, <3>1
  <2>5. Same(n + 1)
    BY <2>1, <2>2
  <2>6. (\E b \in BranchIds \ s.ignored :
           /\ BranchOf(b).start = n /\ BranchOf(b).end <= stop
           /\ BranchOn(mem, b) /\ BranchOf(b).end \in V)
        <=> /\ end \in V
            /\ \E b \in BranchIds \ (s.ignored \cup Group(s)) :
                 /\ BranchOf(b).start = n /\ BranchOf(b).end <= end
                 /\ BranchOn(mem, b) /\ BranchOf(b).end \in W
    BY <2>3, <2>4
  <2>7. Leads(mem, V, n, stop, s.ignored)
        <=> Leads(mem, W, n, end, s.ignored \cup Group(s)) /\ end \in V
    BY <2>5, <2>6 DEF Leads
  <2>8. Same(n)
    BY <1>3, <2>1, <2>7
  <2>9. \A m \in n .. end : m = n \/ m \in n + 1 .. end
    BY <1>1, <2>1
  <2>10. \A m \in n .. end : Same(m)
    BY <2>2, <2>8, <2>9
  <2>11. QED
    BY <2>1, <2>10 DEF n
<1>8. Same(node + 1)
  <2> DEFINE last == end - node - 1
  <2>1. last \in Nat /\ last \in 0 .. last /\ node + 1 = end - last /\ node + 1 \in end - last .. end
    BY <1>1
  <2>2. \A k \in 0 .. last : k \in T
    <3> HIDE DEF T
    <3>1. 0 \in T /\ \A k \in 0 .. last : k \in T /\ k < last => k + 1 \in T
      BY <1>6, <1>7
    <3> HIDE DEF last
    <3>2. QED
      BY <2>1, <3>1, InductionUpTo
  <2>3. QED
    BY <2>1, <2>2
<1>9. node \in W <=> LineOn(mem, node) /\ node + 1 \in W
  <2>1. node \in 0 .. end - 1
    BY <1>1
  <2>2. node \in W <=> Leads(mem, W, node, end, s.ignored \cup Group(s))
    BY <1>3, <2>1
  <2>3. \A b \in BranchIds \ (s.ignored \cup Group(s)) :
          ~(BranchOf(b).start = node /\ BranchOf(b).end <= end)
    BY <1>1, <1>2, <1>4
  <2>4. QED
    BY <2>2, <2>3 DEF Leads
<1>10. node \in V <=> \/ LineOn(mem, node) /\ node + 1 \in V
                      \/ (\E b \in Group(s) : BranchOn(mem, b)) /\ end \in V
  <2>1. node \in 0 .. stop - 1
    BY <1>1
  <2>2. node \in V <=> Leads(mem, V, node, stop, s.ignored)
    BY <1>3, <2>1
  <2>3. (\E b \in BranchIds \ s.ignored :
           /\ BranchOf(b).start = node /\ BranchOf(b).end <= stop
           /\ BranchOn(mem, b) /\ BranchOf(b).end \in V)
        <=> (\E b \in Group(s) : BranchOn(mem, b)) /\ end \in V
    <3>1. \A b \in Group(s) : /\ b \in BranchIds \ s.ignored
                              /\ BranchOf(b).start = node /\ BranchOf(b).end <= stop
      BY DEF Group, node, stop
    <3>2. \A b \in Group(s) : BranchOf(b).end = end
      BY DEF end
    <3>3. QED
      BY <1>4, <3>1, <3>2
  <2>4. QED
    BY <2>2, <2>3 DEF Leads
<1>11. QED
  BY <1>8, <1>9, <1>10 DEF node, end

\* What the readable form of a section says, if there is one.
Right(mem, R, s) ==
  R[s].text # "null" =>
    /\ s.node <= s.stop
    /\ R[s].text = "true" => \A i \in s.node .. s.stop - 1 : ~IsCondition(main[i])
    /\ \A V \in SUBSET (0 .. s.stop) :
         Live(mem, V, s.stop, s.ignored) => (R[s].value <=> s.node \in V)

LEMMA SingleIsRight ==
  ASSUME Drawing, NEW mem \in Memories, NEW R, IsReadable(R, mem),
         NEW s \in Sections, s.node < s.stop, Group(s) = {}, Right(mem, R, Following(s))
  PROVE  Right(mem, R, s)
<1> DEFINE e == elementCondition(mem, main[s.node])
           tail == R[Following(s)]
<1>1. /\ s.node \in Nat /\ s.stop \in Nat /\ s.node \in 0 .. Slots - 1
      /\ s.node \in 0 .. s.stop - 1
  BY SectionFacts, LadderAssumption
<1>2. main[s.node] \in Cell
  BY <1>1 DEF Drawing, Cells
<1>3. e \in Expr
  BY <1>2, ConditionFacts
<1>4. /\ Following(s) \in Sections
      /\ Following(s).node = s.node + 1 /\ Following(s).stop = s.stop
      /\ Following(s).ignored = s.ignored
  BY FollowingFacts
<1>5. tail \in Reading
  BY <1>4 DEF IsReadable
<1>6. R[s] = Joined(e, tail)
  <2>1. R[s] = sectionExpression(mem, R, s)
    BY ReadFacts DEF IsReadable
  <2>2. QED
    BY <2>1, SectionUnfolds
<1> HIDE DEF e, tail
<1>7. SUFFICES ASSUME R[s].text # "null"
               PROVE  /\ s.node <= s.stop
                      /\ R[s].text = "true" => \A i \in s.node .. s.stop - 1 : ~IsCondition(main[i])
                      /\ \A V \in SUBSET (0 .. s.stop) :
                           Live(mem, V, s.stop, s.ignored) => (R[s].value <=> s.node \in V)
  BY DEF Right
<1>8. tail.text # "null" /\ R[s] = exprAnd(e, tail)
  BY <1>6, <1>7, TextFacts DEF Joined
<1>9. tail \in Expr
  BY <1>5, <1>8, ReadingFacts
<1>10. /\ R[s].value = (e.value /\ tail.value)
       /\ R[s].text = "true" => e.text = "true" /\ tail.text = "true"
  BY <1>3, <1>8, <1>9, AndFacts
<1>11. /\ tail.text = "true" => \A i \in s.node + 1 .. s.stop - 1 : ~IsCondition(main[i])
       /\ \A V \in SUBSET (0 .. s.stop) :
            Live(mem, V, s.stop, s.ignored) => (tail.value <=> s.node + 1 \in V)
  BY <1>4, <1>8 DEF Right, tail
<1>12. ASSUME R[s].text = "true"
       PROVE  \A i \in s.node .. s.stop - 1 : ~IsCondition(main[i])
  <2>1. e.text = "true"
    BY <1>10, <1>12
  <2>2. ~IsCondition(main[s.node])
    BY <1>2, <2>1, ConditionFacts DEF e
  <2>3. \A i \in s.node .. s.stop - 1 : i = s.node \/ i \in s.node + 1 .. s.stop - 1
    BY <1>1
  <2>4. QED
    BY <1>10, <1>11, <1>12, <2>2, <2>3
<1>13. ASSUME NEW V \in SUBSET (0 .. s.stop), Live(mem, V, s.stop, s.ignored)
       PROVE  R[s].value <=> s.node \in V
  <2>1. s.node \in V <=> Leads(mem, V, s.node, s.stop, s.ignored)
    BY <1>1, <1>13 DEF Live
  <2>2. \A b \in BranchIds \ s.ignored :
          ~(BranchOf(b).start = s.node /\ BranchOf(b).end <= s.stop)
    BY DEF Group
  <2>3. s.node \in V <=> LineOn(mem, s.node) /\ s.node + 1 \in V
    BY <2>1, <2>2 DEF Leads
  <2>4. LineOn(mem, s.node) = e.value
    BY DEF LineOn, e
  <2>5. QED
    BY <1>10, <1>11, <1>13, <2>3, <2>4
<1>14. s.node <= s.stop
  BY <1>1
<1>15. QED
  BY <1>12, <1>13, <1>14, Zenon

LEMMA GroupIsRight ==
  ASSUME Drawing, NEW mem \in Memories, NEW R, IsReadable(R, mem), NoBareWireInParallel,
         NEW s \in Sections, s.node < s.stop, Group(s) # {},
         Right(mem, R, Inner(s)), Right(mem, R, Following(s))
  PROVE  Right(mem, R, s)
<1> DEFINE inner == R[Inner(s)]
           tail  == R[Following(s)]
           parts == Parts(mem, inner, s)
           end   == GroupEnd(s)
           group == Grouped(mem, inner, s)
<1>1. /\ s.node \in Nat /\ s.stop \in Nat /\ s.stop \in 0 .. Slots /\ Slots \in Nat
      /\ end \in s.node + 1 .. s.stop /\ end \in 0 .. Slots
      /\ Group(s) \subseteq BranchIds /\ s.ignored \cup Group(s) \in SUBSET BranchIds
  BY SectionFacts, GroupFacts, LadderAssumption
<1>2. /\ Following(s) \in Sections
      /\ Following(s).node = end /\ Following(s).stop = s.stop
      /\ Following(s).ignored = s.ignored
  BY FollowingFacts
<1>3. /\ Inner(s) \in Sections
      /\ Inner(s).node = s.node /\ Inner(s).stop = end
      /\ Inner(s).ignored = s.ignored \cup Group(s)
  BY GroupFacts DEF Inner, Section
<1>4. tail \in Reading /\ inner \in Reading
  BY <1>2, <1>3 DEF IsReadable
<1>5. R[s] = Joined(group, tail)
  <2>1. R[s] = sectionExpression(mem, R, s)
    BY ReadFacts DEF IsReadable
  <2>2. QED
    BY <2>1, SectionUnfolds
<1>6. /\ parts \subseteq Reading
      /\ \A b \in Group(s) : seriesCondition(mem, BranchOf(b).cells, s.node, end) \in Expr
  BY <1>4, PartsFacts
<1> HIDE DEF inner, tail, group, end
<1>7. SUFFICES ASSUME R[s].text # "null"
               PROVE  /\ s.node <= s.stop
                      /\ R[s].text # "true"
                      /\ \A V \in SUBSET (0 .. s.stop) :
                           Live(mem, V, s.stop, s.ignored) => (R[s].value <=> s.node \in V)
  BY DEF Right
<1>8. group.text # "null" /\ tail.text # "null" /\ R[s] = exprAnd(group, tail)
  BY <1>5, <1>7, TextFacts DEF Joined
<1>9. /\ \A b \in Group(s) : BranchOf(b).end = end
      /\ \A b \in BranchIds \ (s.ignored \cup Group(s)) : ~Crosses(b, s, end)
      /\ \A p \in parts : p.text # "null"
      /\ group = Parallel(alternatives(parts))
  <2>1. group # Null
    BY <1>8, TextFacts
  <2> HIDE DEF parts
  <2>2. QED
    BY <2>1 DEF group, Grouped, parts, end
<1>10. parts \in SUBSET Expr
  BY <1>6, <1>9, ReadingFacts
<1>11. inner \in parts /\ \A b \in Group(s) :
         seriesCondition(mem, BranchOf(b).cells, s.node, end) \in parts
  BY DEF Parts, end
<1>12. inner \in Expr /\ inner.text # "null" /\ tail \in Expr
  BY <1>4, <1>8, <1>9, <1>10, <1>11, ReadingFacts
<1>13. ASSUME NEW b \in Group(s)
       PROVE  /\ seriesCondition(mem, BranchOf(b).cells, s.node, end).text # "true"
              /\ seriesCondition(mem, BranchOf(b).cells, s.node, end).value = BranchOn(mem, b)
              /\ \E i \in s.node .. end - 1 : IsCondition(main[i])
  <2>1. b \in BranchIds /\ BranchOf(b).start = s.node /\ BranchOf(b).end = end
    BY <1>9 DEF Group
  <2>2. /\ \E i \in s.node .. end - 1 : IsCondition(BranchOf(b).cells[i])
        /\ \E i \in s.node .. end - 1 : IsCondition(main[i])
    BY <2>1 DEF NoBareWireInParallel
  <2>3. BranchOf(b).cells \in Cells /\ s.node \in 0 .. Slots
    BY <2>1, BranchFacts, SectionFacts
  <2>4. QED
    BY <1>1, <2>1, <2>2, <2>3, SeriesFacts DEF BranchOn
<1>14. inner.text # "true"
  <2>1. inner.text = "true" => \A i \in s.node .. end - 1 : ~IsCondition(main[i])
    BY <1>3, <1>12 DEF Right, inner
  <2>2. PICK b \in Group(s) : TRUE
    OBVIOUS
  <2>3. QED
    BY <1>13, <2>1
<1>15. \A p \in parts : p.text # "true"
  BY <1>13, <1>14 DEF Parts, end
<1>16. alternatives(parts) = parts /\ parts # {}
  BY <1>11, <1>15 DEF alternatives
<1>17. group = exprOr(parts)
  BY <1>9, <1>16 DEF Parallel
<1>18. /\ group \in Expr /\ group.text # "true"
       /\ group.value = (\E p \in parts : p.value)
  <2> HIDE DEF parts
  <2>1. QED
    BY <1>10, <1>15, <1>17, OrFacts
<1>19. (\E p \in parts : p.value) <=> inner.value \/ \E b \in Group(s) : BranchOn(mem, b)
  <2>1. (\E p \in parts : p.value)
          <=> \/ inner.value
              \/ \E b \in Group(s) : seriesCondition(mem, BranchOf(b).cells, s.node, end).value
    BY DEF Parts, end
  <2>2. QED
    BY <1>13, <2>1
<1> HIDE DEF parts
<1>20. R[s].text # "true" /\ R[s].value = (group.value /\ tail.value)
  <2>1. /\ exprAnd(group, tail).value = (group.value /\ tail.value)
        /\ exprAnd(group, tail).text = "true" => group.text = "true"
    BY <1>12, <1>18, AndFacts, Zenon
  <2>2. QED
    BY <1>8, <1>18, <2>1
<1>21. ASSUME NEW V \in SUBSET (0 .. s.stop), Live(mem, V, s.stop, s.ignored)
       PROVE  R[s].value <=> s.node \in V
  <2>1. PICK W : Live(mem, W, end, s.ignored \cup Group(s))
    BY <1>1, LiveExists
  <2>2. W \in SUBSET (0 .. end)
    BY <2>1 DEF Live
  <2>3. inner.value <=> s.node \in W
    BY <1>3, <1>12, <2>1, <2>2 DEF Right, inner
  <2>4. tail.value <=> end \in V
    BY <1>2, <1>8, <1>21 DEF Right, tail
  <2>5. s.node \in V <=> end \in V /\ (s.node \in W \/ \E b \in Group(s) : BranchOn(mem, b))
    BY <1>9, <1>21, <2>1, GroupIsSeries DEF end
  <2>6. QED
    BY <1>18, <1>19, <1>20, <2>3, <2>4, <2>5
<1>22. QED
  BY <1>1, <1>20, <1>21

\* The readable form of every section is right: induction over the sections.
LEMMA ReadableIsRight ==
  ASSUME Drawing, NEW mem \in Memories, NEW R, IsReadable(R, mem), NoBareWireInParallel
  PROVE  \A s \in Sections : Right(mem, R, s)
<1> DEFINE size == [s \in Sections |-> Size(s)]
           T == {s \in Sections : Right(mem, R, s)}
<1>1. size \in [Sections -> Nat]
  BY SizeFacts
<1>2. ASSUME NEW s \in Sections, \A r \in Sections : size[r] < size[s] => r \in T
      PROVE  s \in T
  <2>1. \A r \in Sections : Size(r) < Size(s) => Right(mem, R, r)
    BY <1>2
  <2>2. s.node \in Nat /\ s.stop \in Nat /\ R[s] = Read(mem, R, s)
    BY SectionFacts DEF IsReadable
  <2>3. CASE s.node = s.stop
    <3>1. R[s].text # "null" /\ R[s].value = TRUE
      <4>1. R[s] = Lit(TRUE)
        BY <2>2, <2>3, ReadFacts
      <4>2. QED
        BY <4>1, TextFacts
    <3>2. \A i \in s.node .. s.stop - 1 : FALSE
      BY <2>2, <2>3
    <3>3. \A V : Live(mem, V, s.stop, s.ignored) => s.node \in V
      BY <2>3 DEF Live
    <3>4. Right(mem, R, s)
      BY <2>2, <2>3, <3>1, <3>2, <3>3 DEF Right
    <3>5. QED
      BY <3>4
  <2>4. CASE s.node > s.stop
    <3>1. R[s] = Null
      BY <2>2, <2>4, ReadFacts
    <3>2. QED
      BY <3>1, TextFacts DEF Right
  <2>5. CASE s.node < s.stop
    <3>1. Following(s) \in Sections /\ Right(mem, R, Following(s))
      BY <2>1, <2>5, FollowingFacts, SizeFacts
    <3>2. CASE Group(s) = {}
      BY <2>5, <3>1, <3>2, SingleIsRight
    <3>3. CASE Group(s) # {}
      <4>1. Inner(s) \in Sections /\ Right(mem, R, Inner(s))
        BY <2>1, <2>5, <3>3, GroupFacts, SizeFacts
      <4>2. QED
        BY <2>5, <3>1, <3>3, <4>1, GroupIsRight
    <3>4. QED
      BY <3>2, <3>3
  <2>6. QED
    BY <2>2, <2>3, <2>4, <2>5
<1> HIDE DEF T, size
<1>3. \A s \in Sections : s \in T
  BY <1>1, <1>2, InductionBySize
<1>4. QED
  BY <1>3 DEF T
-----------------------------------------------------------------------------
(***************************************************************************)
(* The expression of the rung                                              *)
(***************************************************************************)

LEMMA ReadableIsPath ==
  ASSUME Drawing, NEW mem \in Memories, NoBareWireInParallel,
         NEW S, IsRest(S, mem), NEW R, IsReadable(R, mem),
         R[Section(0, Slots, {})].text # "null"
  PROVE  R[Section(0, Slots, {})].value = S[0].value
<1> DEFINE all == Section(0, Slots, {})
           V   == {n \in 0 .. Slots : S[n].value}
<1>1. Slots \in Nat /\ 0 \in 0 .. Slots /\ Slots \in 0 .. Slots /\ 0 <= Slots
  BY LadderAssumption
<1>2. all \in Sections /\ all.node = 0 /\ all.stop = Slots /\ all.ignored = {}
  BY <1>1, SectionFacts
<1>3. \A n \in 0 .. Slots : n \in V <=> S[n].value
  OBVIOUS
<1>4. S \in [0 .. Slots -> Expr] /\ S[Slots].value = TRUE
  BY TextFacts DEF IsRest
<1>5. ASSUME NEW n \in 0 .. Slots - 1
      PROVE  n \in V <=> Leads(mem, V, n, Slots, {})
  <2>1. n \in 0 .. Slots /\ n + 1 \in 0 .. Slots
    BY <1>1
  <2>2. Rest(mem, S, n).value =
              (\/ LineOn(mem, n) /\ S[n + 1].value
               \/ \E b \in BranchIds : /\ BranchOf(b).start = n
                                       /\ BranchOn(mem, b) /\ S[BranchOf(b).end].value)
    BY <1>4, RestFacts, Zenon
  <2>3. S[n] = Rest(mem, S, n)
    BY DEF IsRest
  <2>4. \A b \in BranchIds : BranchOf(b).end \in 0 .. Slots /\ BranchOf(b).end <= Slots
    BY <1>1, BranchFacts
  <2> HIDE DEF V
  <2>5. n \in V <=> \/ LineOn(mem, n) /\ n + 1 \in V
                    \/ \E b \in BranchIds : /\ BranchOf(b).start = n
                                            /\ BranchOn(mem, b) /\ BranchOf(b).end \in V
    BY <1>3, <2>1, <2>2, <2>3, <2>4
  <2>6. QED
    BY <2>4, <2>5 DEF Leads
<1>6. V \in SUBSET (0 .. Slots) /\ Slots \in V
  BY <1>1, <1>4
<1> HIDE DEF V
<1>7. Live(mem, V, Slots, {})
  BY <1>5, <1>6 DEF Live
<1>8. Right(mem, R, all)
  BY <1>2, ReadableIsRight
<1>9. R[all].value <=> 0 \in V
  BY <1>2, <1>6, <1>7, <1>8 DEF Right
<1>10. R[all].value \in BOOLEAN /\ S[0].value \in BOOLEAN
  <2>1. R[all] \in Reading
    BY <1>2 DEF IsReadable
  <2>2. R[all] \in Expr /\ S[0] \in Expr
    BY <1>1, <1>4, <2>1, ReadingFacts
  <2>3. QED
    BY <2>2, TextFacts
<1>11. QED
  BY <1>1, <1>3, <1>9, <1>10

LEMMA RungIsExpression ==
  ASSUME Drawing, NEW mem \in Memories
  PROVE  rungExpression(mem) \in Expr
<1> DEFINE R == readableExpressionFromNode(mem)
           r == R[Section(0, Slots, {})]
<1>1. 0 \in 0 .. Slots /\ Slots \in 0 .. Slots
  BY LadderAssumption
<1>2. powerExpressionsByNode(mem)[Slots] \in Expr
  BY <1>1, PowerIsRecursion DEF IsPower
<1>3. expressionFromNode(mem)[0] \in Expr
  BY <1>1, RestIsRecursion DEF IsRest
<1>4. r \in Reading
  <2>1. Section(0, Slots, {}) \in Sections
    BY <1>1, SectionFacts
  <2>2. QED
    BY <2>1, ReadableIsRecursion DEF IsReadable
<1>5. r.text # "null" => r \in Expr
  BY <1>4, ReadingFacts
<1>6. \/ rungExpression(mem) = powerExpressionsByNode(mem)[Slots]
      \/ rungExpression(mem) = expressionFromNode(mem)[0]
      \/ rungExpression(mem) = r /\ r.text \notin {"null", "false"}
  BY DEF rungExpression
<1>7. QED
  BY <1>2, <1>3, <1>5, <1>6

LEMMA InputIsValue ==
  ASSUME Drawing, NEW mem \in Memories, NEW b \in BranchIds \cup {0}, NEW slot \in 0 .. Slots - 1
  PROVE  /\ InputTo(mem, b, slot) \in BOOLEAN
         /\ b = 0 => InputTo(mem, b, slot) = powerExpressionsByNode(mem)[slot].value
<1>1. powerExpressionsByNode(mem) \in [0 .. Slots -> Expr]
  BY PowerIsRecursion DEF IsPower
<1>2. slot \in 0 .. Slots
  BY LadderAssumption
<1>3. CASE b = 0
  <2>1. InputTo(mem, b, slot) = powerExpressionsByNode(mem)[slot].value
    BY <1>3 DEF InputTo
  <2>2. powerExpressionsByNode(mem)[slot] \in Expr
    BY <1>1, <1>2
  <2>3. QED
    BY <2>1, <2>2, TextFacts
<1>4. CASE b # 0
  <2>1. b \in BranchIds
    BY <1>4
  <2>2. BranchOf(b).start \in 0 .. Slots /\ BranchOf(b).cells \in Cells
    BY <2>1, BranchFacts
  <2>3. seriesCondition(mem, BranchOf(b).cells, BranchOf(b).start, slot) \in Expr
    BY <1>2, <2>2, SeriesFacts
  <2>4. powerExpressionsByNode(mem)[BranchOf(b).start] \in Expr
    BY <1>1, <2>2
  <2>5. exprAnd(powerExpressionsByNode(mem)[BranchOf(b).start],
                seriesCondition(mem, BranchOf(b).cells, BranchOf(b).start, slot)) \in Expr
    BY <2>3, <2>4, AndFacts
  <2>6. QED
    BY <1>4, <2>5, TextFacts DEF InputTo
<1>5. QED
  BY <1>3, <1>4

\* For every drawing and every state of its tags and blocks.
LEMMA DrawingIsFollowed ==
  ASSUME Drawing, Memory \in Memories
  PROVE  ProgramFollowsWires
<1> DEFINE mem == Memory
<1>1. PICK val : /\ IsValue(val, mem)
                 /\ \A n \in 0 .. Slots : val[n] = powerExpressionsByNode(mem)[n].value
  BY PowerValues
<1>2. \A target \in 0 .. Slots : simEvaluateRungFlowToNode(mem, target)[target] = val[target]
  BY <1>1, FlowFacts
<1> HIDE DEF mem
<1>3. Slots \in 0 .. Slots /\ 0 \in 0 .. Slots
      /\ \A slot \in 0 .. Slots - 1 : slot \in 0 .. Slots
  BY LadderAssumption
<1>4. ASSUME HasStoredOutput \/ NoBareWireInParallel
      PROVE  rungExpression(mem).value = simEvaluateRungFlow(mem)[Slots]
  <2>1. simEvaluateRungFlow(mem)[Slots] = val[Slots]
    BY <1>2, <1>3 DEF simEvaluateRungFlow
  <2>2. CASE HasStoredOutput
    <3>1. rungExpression(mem) = powerExpressionsByNode(mem)[Slots]
      BY <2>2 DEF rungExpression
    <3>2. QED
      BY <1>1, <1>3, <2>1, <3>1
  <2>3. CASE ~HasStoredOutput /\ NoBareWireInParallel
    <3> DEFINE S == expressionFromNode(mem)
               R == readableExpressionFromNode(mem)
               r == R[Section(0, Slots, {})]
    <3>1. mem \in Memories
      BY DEF mem
    <3>2. IsRest(S, mem) /\ IsReadable(R, mem)
      BY <3>1, RestIsRecursion, ReadableIsRecursion
    <3> HIDE DEF S, R
    <3>3. val[Slots] = S[0].value
      BY <1>1, <2>3, <3>1, <3>2, SameFromBothEnds
    <3>4. r.text # "null" => r.value = S[0].value
      BY <2>3, <3>1, <3>2, ReadableIsPath
    <3>5. \/ rungExpression(mem) = S[0]
          \/ rungExpression(mem) = r /\ r.text # "null"
      BY <2>3 DEF rungExpression, S, R
    <3>6. QED
      BY <2>1, <3>3, <3>4, <3>5
  <2>4. QED
    BY <1>4, <2>2, <2>3
<1>5. ASSUME NEW slot \in 0 .. Slots - 1
      PROVE  InputTo(mem, 0, slot) = simElementInputPower(mem, 0, slot)
  <2>1. InputTo(mem, 0, slot) = powerExpressionsByNode(mem)[slot].value
    BY DEF InputTo
  <2>2. simElementInputPower(mem, 0, slot) = simEvaluateRungFlowToNode(mem, slot)[slot]
    BY DEF simElementInputPower
  <2>3. QED
    BY <1>1, <1>2, <1>3, <2>1, <2>2
<1>6. ASSUME NEW b \in BranchIds, NEW slot \in BranchOf(b).start .. BranchOf(b).end - 1
      PROVE  InputTo(mem, b, slot) = simElementInputPower(mem, b, slot)
  <2> DEFINE start == BranchOf(b).start
             cells == BranchOf(b).cells
             P == powerExpressionsByNode(mem)
  <2>1. mem \in Memories
    BY DEF mem
  <2>2. start \in 0 .. Slots /\ slot \in 0 .. Slots /\ cells \in Cells /\ b # 0
    BY BranchFacts, LadderAssumption DEF BranchIds, Drawing
  <2>3. P[start] \in Expr
    BY <2>1, <2>2, PowerIsRecursion DEF IsPower
  <2>4. InputTo(mem, b, slot) = exprAnd(P[start], seriesCondition(mem, cells, start, slot)).value
    BY <2>2 DEF InputTo
  <2>5. simElementInputPower(mem, b, slot)
          = (/\ simEvaluateRungFlowToNode(mem, start)[start]
             /\ \A i \in start .. slot - 1 : elementCondition(mem, cells[i]).value)
    BY <2>2 DEF simElementInputPower, simEvalElement
  <2> HIDE DEF start, cells, P
  <2>6. /\ seriesCondition(mem, cells, start, slot) \in Expr
        /\ seriesCondition(mem, cells, start, slot).value
             = \A i \in start .. slot - 1 : elementCondition(mem, cells[i]).value
    BY <2>1, <2>2, SeriesFacts
  <2>7. exprAnd(P[start], seriesCondition(mem, cells, start, slot)).value
          = (P[start].value /\ seriesCondition(mem, cells, start, slot).value)
    BY <2>3, <2>6, AndFacts
  <2>8. simEvaluateRungFlowToNode(mem, start)[start] = P[start].value
    BY <1>1, <1>2, <2>2 DEF P
  <2>9. QED
    BY <2>4, <2>5, <2>6, <2>7, <2>8
<1>7. QED
  BY <1>4, <1>5, <1>6 DEF ProgramFollowsWires, mem

-----------------------------------------------------------------------------
(***************************************************************************)
(* A scan: whatever the parts of the program do, tags stay tags and blocks *)
(* stay blocks                                                             *)
(***************************************************************************)

LEMMA DivisionFacts ==
  ASSUME NEW a \in Nat, NEW n \in Nat \ {0}, NEW L \in Nat, a < L * n
  PROVE  a % n \in 0 .. n - 1 /\ a \div n \in 0 .. L - 1
<1>1. a % n \in 0 .. n - 1 /\ a \div n \in Nat /\ a = (a \div n) * n + (a % n)
  OBVIOUS
<1>2. ASSUME NEW p \in Nat, NEW q \in Nat, p <= q
      PROVE  p * n <= q * n
  BY <1>2
<1>3. L <= a \div n => L * n <= (a \div n) * n
  BY <1>1, <1>2
<1>4. QED
  BY <1>1, <1>3

LEMMA PlacedFacts ==
  ASSUME Drawing
  PROVE  /\ Len(Placed) \in Nat
         /\ \A k \in 1 .. Len(Placed) :
              /\ Placed[k].lane \in BranchIds \cup {0}
              /\ Placed[k].slot \in 0 .. Slots - 1
              /\ Placed[k].e \in Cell
<1> DEFINE N == (Len(branches) + 1) * Slots
           b(k) == (k - 1) \div Slots
           i(k) == (k - 1) % Slots
<1>1. Len(branches) \in Nat /\ BranchIds = 1 .. Len(branches)
  BY DEF Drawing, BranchIds
<1>2. Slots \in Nat \ {0} /\ N \in Nat
  BY <1>1, LadderAssumption
<1>3. ASSUME NEW k \in 1 .. N
      PROVE  b(k) \in BranchIds \cup {0} /\ i(k) \in 0 .. Slots - 1
  <2>1. k - 1 \in Nat /\ k - 1 < (Len(branches) + 1) * Slots
    BY <1>2
  <2>2. Len(branches) + 1 \in Nat
    BY <1>1
  <2>3. i(k) \in 0 .. Slots - 1 /\ b(k) \in 0 .. (Len(branches) + 1) - 1
    BY <1>2, <2>1, <2>2, DivisionFacts
  <2>4. QED
    BY <1>1, <2>3
<1>4. Placed = [k \in 1 .. N |->
                  [lane |-> b(k), slot |-> i(k),
                   e |-> IF b(k) = 0 THEN main[i(k)] ELSE BranchOf(b(k)).cells[i(k)]]]
  BY DEF Placed
<1> HIDE DEF N, b, i
<1>5. Len(Placed) = N
  <2>1. DOMAIN Placed = 1 .. N
    BY <1>4
  <2>2. QED
    BY <1>2, <2>1
<1>6. ASSUME NEW k \in 1 .. N
      PROVE  Placed[k].e \in Cell
  <2>1. Placed[k].e = IF b(k) = 0 THEN main[i(k)] ELSE BranchOf(b(k)).cells[i(k)]
    BY <1>4
  <2>2. CASE b(k) = 0
    BY <1>3, <2>1, <2>2 DEF Drawing, Cells
  <2>3. CASE b(k) # 0
    <3>1. BranchOf(b(k)).cells \in Cells
      BY <1>3, <2>3, BranchFacts
    <3>2. QED
      BY <1>3, <2>1, <2>3, <3>1 DEF Cells
  <2>4. QED
    BY <2>2, <2>3
<1>7. QED
  BY <1>2, <1>3, <1>4, <1>5, <1>6

LEMMA BlockFacts ==
  ASSUME NEW b \in Block, NEW type, NEW input \in BOOLEAN, NEW reset \in BOOLEAN
  PROVE  UpdatedBlock(b, type, input, reset) \in Block
<1>1. Preset \in Nat /\ b.n \in Nat /\ b.last \in BOOLEAN /\ b.output \in BOOLEAN
  BY LadderAssumption DEF Block
<1>2. Lesser(b.n + 1, Preset) \in Nat
  BY <1>1 DEF Lesser
<1>3. Timer(b, type, input) \in Block
  <2> DEFINE up == Lesser(b.n + 1, Preset)
  <2>1. up \in Nat
    BY <1>2
  <2>2. /\ (input /\ up >= Preset) \in BOOLEAN
        /\ (input \/ (b.output /\ up < Preset)) \in BOOLEAN
    OBVIOUS
  <2>3. /\ (IF input THEN up ELSE 0) \in Nat
        /\ (IF input THEN 0 ELSE IF b.output THEN up ELSE Preset) \in Nat
    BY <1>1, <2>1
  <2>4. Timer(b, type, input) =
          IF type = "TON"
          THEN [n |-> IF input THEN up ELSE 0, last |-> b.last,
                output |-> input /\ up >= Preset]
          ELSE [n |-> IF input THEN 0 ELSE IF b.output THEN up ELSE Preset, last |-> b.last,
                output |-> input \/ (b.output /\ up < Preset)]
    BY DEF Timer
  <2> HIDE DEF up
  <2>5. QED
    BY <1>1, <2>2, <2>3, <2>4 DEF Block
<1>4. Counter(b, type, input, reset) \in Block
  <2> DEFINE rise == input /\ ~b.last
             n == IF reset THEN IF type = "CTU" THEN 0 ELSE Preset
                  ELSE IF ~rise THEN b.n
                  ELSE IF type = "CTU" THEN Lesser(b.n + 1, Preset)
                  ELSE IF b.n > 0 THEN b.n - 1 ELSE 0
             output == ~reset /\ IF type = "CTU" THEN n >= Preset ELSE n = 0
  <2>1. n \in Nat
    <3>1. b.n > 0 => b.n - 1 \in Nat
      BY <1>1
    <3> HIDE DEF rise
    <3>2. QED
      BY <1>1, <1>2, <3>1
  <2>2. output \in BOOLEAN
    OBVIOUS
  <2>3. Counter(b, type, input, reset) = [n |-> n, last |-> input, output |-> output]
    BY DEF Counter
  <2> HIDE DEF n, output
  <2>4. QED
    BY <2>1, <2>2, <2>3 DEF Block
<1>5. OneShot(b, input) \in Block
  <2>1. (input /\ ~b.last) \in BOOLEAN
    OBVIOUS
  <2>2. QED
    BY <1>1, <2>1 DEF OneShot, Block
<1>6. QED
  BY <1>3, <1>4, <1>5 DEF UpdatedBlock

LEMMA WriteFacts ==
  ASSUME Drawing, NEW mem \in Memories, NEW p,
         p.lane \in BranchIds \cup {0}, p.slot \in 0 .. Slots - 1, p.e \in Symbols
  PROVE  /\ p.e.type \in BlockTypes => UpdateBlock(mem, p) \in Memories
         /\ LatchWrite(mem, p) \in Memories
<1>1. p.e \in Cell /\ p.e.tag \in Tags /\ p.e.reset \in Tags
  BY CellFacts DEF Cell
<1>2. InputTo(mem, p.lane, p.slot) \in BOOLEAN
  BY InputIsValue
<1>3. mem.tags \in [Tags -> BOOLEAN] /\ mem.blocks \in [BlockTags -> Block]
  BY DEF Memories
<1>4. ASSUME p.e.type \in BlockTypes
      PROVE  UpdateBlock(mem, p) \in Memories
  <2> DEFINE reset == IF p.e.reset = "" THEN FALSE ELSE TagValue(mem, p.e.reset)
             new == UpdatedBlock(mem.blocks[p.e.tag], p.e.type,
                                 InputTo(mem, p.lane, p.slot), reset)
  <2>1. TagValue(mem, p.e.reset) \in BOOLEAN
    BY <1>1, ValueOfTag
  <2>2. reset \in BOOLEAN
    BY <2>1
  <2>3. p.e.tag \in BlockTags
    BY <1>1, <1>4, CellFacts
  <2>4. mem.blocks[p.e.tag] \in Block
    BY <1>3, <2>3
  <2> HIDE DEF reset
  <2>5. new \in Block
    BY <1>2, <2>2, <2>4, BlockFacts
  <2>6. UpdateBlock(mem, p)
          = [tags |-> mem.tags, blocks |-> [mem.blocks EXCEPT ![p.e.tag] = new]]
    BY DEF UpdateBlock, reset
  <2> HIDE DEF new
  <2>7. [mem.blocks EXCEPT ![p.e.tag] = new] \in [BlockTags -> Block]
    BY <1>3, <2>5
  <2>8. QED
    BY <1>3, <2>6, <2>7 DEF Memories
<1>5. LatchWrite(mem, p) \in Memories
  <2> DEFINE new == IF InputTo(mem, p.lane, p.slot)
                    THEN [mem.tags EXCEPT ![p.e.tag] = (p.e.type = "SET")] ELSE mem.tags
  <2>1. (p.e.type = "SET") \in BOOLEAN
    OBVIOUS
  <2>2. new \in [Tags -> BOOLEAN]
    BY <1>2, <1>3, <2>1
  <2>3. LatchWrite(mem, p) = [tags |-> new, blocks |-> mem.blocks]
    BY DEF LatchWrite
  <2> HIDE DEF new
  <2>4. QED
    BY <1>3, <2>2, <2>3 DEF Memories
<1>6. QED
  BY <1>4, <1>5

\* One step of a part: the statement for the symbol p.
Stepped(types, p, mem) ==
  IF p.e.type \notin types THEN mem
  ELSE IF p.e.type \in BlockTypes THEN UpdateBlock(mem, p)
  ELSE LatchWrite(mem, p)

LEMMA SteppedFacts ==
  ASSUME Drawing, NEW types \in SUBSET (BlockTypes \cup {"SET", "RST"}),
         NEW k \in 1 .. Len(Placed), NEW mem \in Memories
  PROVE  Stepped(types, Placed[k], mem) \in Memories
<1> DEFINE p == Placed[k]
<1>1. p.lane \in BranchIds \cup {0} /\ p.slot \in 0 .. Slots - 1 /\ p.e \in Cell
  BY PlacedFacts
<1> HIDE DEF p
<1>2. CASE p.e.type \notin types
  BY <1>2 DEF Stepped, p
<1>3. CASE p.e.type \in types
  <2>1. Empty.type \notin BlockTypes \cup {"SET", "RST"}
    BY DEF Empty, BlockTypes, Timers, Counters
  <2>2. p.e \in Symbols
    BY <1>1, <1>3, <2>1 DEF Cell
  <2>3. /\ p.e.type \in BlockTypes => UpdateBlock(mem, p) \in Memories
        /\ LatchWrite(mem, p) \in Memories
    BY <1>1, <2>2, WriteFacts
  <2>4. QED
    BY <1>3, <2>3 DEF Stepped, p
<1>4. QED
  BY <1>2, <1>3

LEMMA PartFacts ==
  ASSUME Drawing, NEW types \in SUBSET (BlockTypes \cup {"SET", "RST"}), NEW mem \in Memories
  PROVE  Part(types, mem) \in Memories
<1> DEFINE N == Len(Placed)
           step == [k \in 0 + 1 .. N |-> [m \in Memories |-> Stepped(types, Placed[k], m)]]
           Body(g) == [k \in 0 .. N |->
                         IF k = 0 THEN mem
                         ELSE IF Placed[k].e.type \notin types THEN g[k - 1]
                         ELSE IF Placed[k].e.type \in BlockTypes
                              THEN UpdateBlock(g[k - 1], Placed[k])
                         ELSE LatchWrite(g[k - 1], Placed[k])]
           F == CHOOSE g : g = Body(g)
<1>1. N \in Nat
  BY PlacedFacts
<1>2. step \in [0 + 1 .. N -> [Memories -> Memories]]
  <2>1. ASSUME NEW k \in 0 + 1 .. N, NEW m \in Memories
        PROVE  Stepped(types, Placed[k], m) \in Memories
    <3>1. k \in 1 .. Len(Placed)
      OBVIOUS
    <3>2. QED
      BY <3>1, SteppedFacts
  <2> HIDE DEF N
  <2>2. QED
    BY <2>1
<1>3. PICK f : Chain(f, 0, N, Memories, mem, step)
  <2> HIDE DEF step, N
  <2>1. 0 \in Nat /\ 0 <= N
    BY <1>1
  <2>2. QED
    BY <1>1, <1>2, <2>1, ChainRecursion
<1>4. Part(types, mem) = F[N]
  BY DEF Part
<1>5. \A g : Body(g) = [k \in 0 .. N |->
                          IF k = 0 THEN mem ELSE Stepped(types, Placed[k], g[k - 1])]
  BY DEF Stepped
<1>6. f = Body(f)
  <2>1. f \in [0 .. N -> Memories] /\ f[0] = mem
    BY <1>3 DEF Chain
  <2>2. ASSUME NEW k \in 0 .. N, k # 0
        PROVE  f[k] = Stepped(types, Placed[k], f[k - 1])
    <3>1. k \in 0 + 1 .. N /\ k - 1 \in 0 .. N
      BY <1>1, <2>2
    <3>2. f[k] = step[k][f[k - 1]]
      BY <1>3, <3>1 DEF Chain
    <3>3. f[k - 1] \in Memories
      BY <2>1, <3>1
    <3>4. QED
      BY <3>1, <3>2, <3>3
  <2> HIDE DEF Body
  <2>3. QED
    BY <1>5, <2>1, <2>2
<1>7. F = Body(F)
  <2> HIDE DEF Body
  <2>1. QED
    BY <1>6
<1> HIDE DEF F
<1>8. F = [k \in 0 .. N |-> IF k = 0 THEN mem ELSE Stepped(types, Placed[k], F[k - 1])]
  <2> HIDE DEF Body
  <2>1. QED
    BY <1>5, <1>7
<1> DEFINE T == {k \in 0 .. N : F[k] \in Memories}
<1>9. \A k \in 0 .. N : k \in T
  <2> HIDE DEF N
  <2>1. 0 \in T
    BY <1>1, <1>8
  <2>2. ASSUME NEW k \in 0 .. N, k \in T, k < N
        PROVE  k + 1 \in T
    <3>1. k + 1 \in 1 .. N /\ k + 1 \in 0 .. N /\ k + 1 # 0 /\ (k + 1) - 1 = k
      BY <1>1, <2>2
    <3>2. F[k + 1] = Stepped(types, Placed[k + 1], F[(k + 1) - 1])
      BY <1>8, <3>1, Zenon
    <3>3. F[k + 1] = Stepped(types, Placed[k + 1], F[k])
      BY <3>1, <3>2
    <3>4. F[k] \in Memories
      BY <2>2
    <3>5. Stepped(types, Placed[k + 1], F[k]) \in Memories
      BY <3>1, <3>4, SteppedFacts DEF N
    <3>6. QED
      BY <3>1, <3>3, <3>5
  <2> HIDE DEF T
  <2>3. 0 \in Nat /\ 0 <= N
    BY <1>1
  <2>4. QED
    BY <1>1, <2>1, <2>2, <2>3, InductionFromTo
<1>10. QED
  BY <1>1, <1>4, <1>9

LEMMA ScannedFacts ==
  ASSUME Drawing, NEW mem \in Memories
  PROVE  Scanned(mem) \in Memories
<1> DEFINE counted == Part(Counters, Part({"ONS"}, mem))
           on == rungExpression(counted).value
           latched == Part({"SET", "RST"}, counted)
<1>1. /\ Counters \in SUBSET (BlockTypes \cup {"SET", "RST"})
      /\ Timers \in SUBSET (BlockTypes \cup {"SET", "RST"})
      /\ {"ONS"} \in SUBSET (BlockTypes \cup {"SET", "RST"})
      /\ {"SET", "RST"} \in SUBSET (BlockTypes \cup {"SET", "RST"})
  BY DEF BlockTypes
<1>2. counted \in Memories
  BY <1>1, PartFacts
<1>3. on \in BOOLEAN
  <2> HIDE DEF counted
  <2>1. rungExpression(counted) \in Expr
    BY <1>2, RungIsExpression
  <2>2. QED
    BY <2>1, TextFacts
<1>4. latched \in Memories
  <2> HIDE DEF counted
  <2>1. QED
    BY <1>1, <1>2, PartFacts
<1>5. Scanned(mem) = Part(Timers, CoilWrite(latched, on))
  BY DEF Scanned
<1> HIDE DEF latched, on
<1>6. CoilWrite(latched, on) \in Memories
  <2>1. latched.tags \in [Tags -> BOOLEAN] /\ latched.blocks \in [BlockTags -> Block]
    BY <1>4 DEF Memories
  <2>2. QED
    BY <1>3, <2>1 DEF CoilWrite, Memories
<1>7. QED
  BY <1>1, <1>5, <1>6, PartFacts

-----------------------------------------------------------------------------
(***************************************************************************)
(* Every reachable rung is a drawing with tags and blocks                  *)
(***************************************************************************)
TypeOK == Drawing /\ Memory \in Memories

LEMMA StartFacts ==
  /\ NoTags \in [Tags -> BOOLEAN]
  /\ NoBlocks \in [BlockTags -> Block]
<1>1. ASSUME NEW type
      PROVE  NewBlock(type) \in Block
  BY LadderAssumption DEF NewBlock, Block
<1>2. QED
  BY <1>1 DEF NoTags, NoBlocks, BlockTags

LEMMA Start == Init => TypeOK
<1> SUFFICES ASSUME Init PROVE TypeOK
  OBVIOUS
<1>1. main \in Cells
  BY DEF Init, Cells, Cell
<1>2. branches \in Seq(Branch)
  BY DEF Init
<1>3. Memory = [tags |-> NoTags, blocks |-> NoBlocks]
  BY DEF Init, Memory
<1>4. QED
  BY <1>1, <1>2, <1>3, StartFacts DEF TypeOK, Drawing, Memories

LEMMA CellsFacts ==
  ASSUME NEW cells \in Cells, NEW slot \in 0 .. Slots - 1, NEW e \in Cell
  PROVE  [cells EXCEPT ![slot] = e] \in Cells
BY DEF Cells

\* A symbol put into, or taken out of, a slot of a branch.
LEMMA BranchSlotFacts ==
  ASSUME Drawing, NEW b \in BranchIds, NEW slot \in 0 .. Slots - 1, NEW e \in Cell
  PROVE  [branches EXCEPT ![b].cells[slot] = e] \in Seq(Branch)
<1> DEFINE old == branches[b]
           new == [old EXCEPT !.cells[slot] = e]
<1>1. branches \in Seq(Branch) /\ b \in 1 .. Len(branches)
  BY DEF Drawing, BranchIds
<1>2. old \in Branch
  BY <1>1
<1>3. /\ old \in [start : 0 .. Slots, end : 0 .. Slots, cells : Cells]
      /\ old.start < old.end
  BY <1>2 DEF Branch
<1>4. [old.cells EXCEPT ![slot] = e] \in Cells
  BY <1>3, CellsFacts
<1> HIDE DEF old
<1>5. new = [start |-> old.start, end |-> old.end, cells |-> [old.cells EXCEPT ![slot] = e]]
  BY <1>3
<1>6. new \in Branch
  <2> HIDE DEF new
  <2>1. new.start < new.end
    BY <1>3, <1>5
  <2>2. QED
    BY <1>3, <1>4, <1>5, <2>1 DEF Branch
<1>7. [branches EXCEPT ![b].cells[slot] = e] = [branches EXCEPT ![b] = new]
  BY DEF old
<1> HIDE DEF new
<1>8. QED
  BY <1>1, <1>6, <1>7

LEMMA EditKeepsDrawing ==
  ASSUME Drawing, Edit
  PROVE  Drawing' /\ UNCHANGED <<tags, blocks>>
<1>1. main \in Cells /\ branches \in Seq(Branch) /\ BranchIds = 1 .. Len(branches)
  BY DEF Drawing, BranchIds
<1>2. Empty \in Cell /\ Symbols \subseteq Cell
  BY DEF Cell
<1>3. ASSUME NEW slot \in 0 .. Slots - 1, NEW e \in Symbols, DropOnMain(slot, e)
      PROVE  Drawing' /\ UNCHANGED <<tags, blocks>>
  <2>1. [main EXCEPT ![slot] = e] \in Cells
    BY <1>1, <1>2, CellsFacts
  <2>2. QED
    BY <1>1, <1>3, <2>1 DEF DropOnMain, Drawing
<1>4. ASSUME NEW start \in 0 .. Slots, NEW end \in 0 .. Slots, AddBranch(start, end)
      PROVE  Drawing' /\ UNCHANGED <<tags, blocks>>
  <2> DEFINE new == [start |-> start, end |-> end, cells |-> [i \in 0 .. Slots - 1 |-> Empty]]
  <2>1. start < end
    BY <1>4 DEF AddBranch
  <2>2. [i \in 0 .. Slots - 1 |-> Empty] \in Cells
    BY <1>2 DEF Cells
  <2>3. new \in Branch
    BY <2>1, <2>2 DEF Branch
  <2>4. branches' = Append(branches, new) /\ UNCHANGED <<main, tags, blocks>>
    BY <1>4 DEF AddBranch
  <2> HIDE DEF new
  <2>5. branches' \in Seq(Branch)
    BY <1>1, <2>3, <2>4
  <2>6. QED
    BY <1>1, <2>4, <2>5 DEF Drawing
<1>5. ASSUME NEW b \in BranchIds, NEW slot \in 0 .. Slots - 1, NEW e \in Symbols,
             DropOnBranch(b, slot, e)
      PROVE  Drawing' /\ UNCHANGED <<tags, blocks>>
  <2>1. [branches EXCEPT ![b].cells[slot] = e] \in Seq(Branch)
    BY <1>2, BranchSlotFacts
  <2>2. QED
    BY <1>1, <1>5, <2>1 DEF DropOnBranch, Drawing
<1>6. ASSUME NEW b \in BranchIds \cup {0}, NEW slot \in 0 .. Slots - 1, DeleteSymbol(b, slot)
      PROVE  Drawing' /\ UNCHANGED <<tags, blocks>>
  <2>1. CASE b = 0
    <3>1. [main EXCEPT ![slot] = Empty] \in Cells
      BY <1>1, <1>2, CellsFacts
    <3>2. QED
      BY <1>1, <1>6, <2>1, <3>1 DEF DeleteSymbol, Drawing
  <2>2. CASE b # 0
    <3>1. [branches EXCEPT ![b].cells[slot] = Empty] \in Seq(Branch)
      BY <1>2, <2>2, BranchSlotFacts
    <3>2. QED
      BY <1>1, <1>6, <2>2, <3>1 DEF DeleteSymbol, Drawing
  <2>3. QED
    BY <2>1, <2>2
<1>7. ASSUME NEW b \in BranchIds, DeleteBranch(b)
      PROVE  Drawing' /\ UNCHANGED <<tags, blocks>>
  <2>1. b \in 1 .. Len(branches) /\ Len(branches) \in Nat
    BY <1>1
  <2>2. SubSeq(branches, 1, b - 1) \in Seq(Branch)
    BY <1>1, <2>1
  <2>3. SubSeq(branches, b + 1, Len(branches)) \in Seq(Branch)
    BY <1>1, <2>1
  <2>4. branches' \in Seq(Branch)
    BY <1>7, <2>2, <2>3 DEF DeleteBranch, RemoveAt
  <2>5. QED
    BY <1>1, <1>7, <2>4 DEF DeleteBranch, Drawing
<1>8. QED
  BY <1>3, <1>4, <1>5, <1>6, <1>7 DEF Edit

\* One scan, from whatever tags and blocks it starts.
LEMMA ScanKeepsMemory ==
  ASSUME Drawing, NEW mem \in Memories, ScanFrom(mem)
  PROVE  Memory' \in Memories /\ UNCHANGED <<main, branches>>
<1>1. Scanned(mem) \in Memories
  BY ScannedFacts
<1>2. /\ tags' = Scanned(mem).tags /\ blocks' = Scanned(mem).blocks
      /\ UNCHANGED <<main, branches>>
  BY DEF ScanFrom
<1>3. Memory' = [tags |-> tags', blocks |-> blocks']
  BY DEF Memory
<1>4. QED
  BY <1>1, <1>2, <1>3 DEF Memories

LEMMA RunKeepsMemory ==
  ASSUME TypeOK, Run
  PROVE  Memory' \in Memories /\ UNCHANGED <<main, branches>>
<1>1. Drawing /\ Memory \in Memories
  BY DEF TypeOK
<1>2. tags \in [Tags -> BOOLEAN] /\ blocks \in [BlockTags -> Block]
  BY <1>1 DEF Memories, Memory
<1>3. CASE simStep
  BY <1>1, <1>3, ScanKeepsMemory DEF simStep
<1>4. ASSUME NEW t \in Inputs, toggleSimTag(t)
      PROVE  Memory' \in Memories /\ UNCHANGED <<main, branches>>
  <2> DEFINE mem == [tags |-> [tags EXCEPT ![t] = ~@], blocks |-> blocks]
  <2>1. [tags EXCEPT ![t] = ~@] \in [Tags -> BOOLEAN]
    BY <1>2
  <2>2. mem \in Memories
    BY <1>2, <2>1 DEF Memories
  <2>3. ScanFrom(mem)
    BY <1>4 DEF toggleSimTag
  <2> HIDE DEF mem
  <2>4. QED
    BY <1>1, <2>2, <2>3, ScanKeepsMemory
<1>5. CASE simReset
  <2>1. [tags |-> NoTags, blocks |-> NoBlocks] \in Memories
    BY StartFacts DEF Memories
  <2>2. QED
    BY <1>1, <1>5, <2>1, ScanKeepsMemory DEF simReset
<1>6. QED
  BY <1>3, <1>4, <1>5 DEF Run

LEMMA StepKeepsType == TypeOK /\ [Next]_vars => TypeOK'
<1> SUFFICES ASSUME TypeOK, [Next]_vars PROVE TypeOK'
  OBVIOUS
<1>1. Drawing /\ Memory \in Memories
  BY DEF TypeOK
<1>2. CASE Edit
  <2>1. Drawing' /\ UNCHANGED <<tags, blocks>>
    BY <1>1, <1>2, EditKeepsDrawing
  <2>2. Memory' = Memory
    BY <2>1 DEF Memory
  <2>3. QED
    BY <1>1, <2>1, <2>2 DEF TypeOK, Memories, Tags, BlockTags, Block
<1>3. CASE Run
  <2>1. Memory' \in Memories /\ UNCHANGED <<main, branches>>
    BY <1>3, RunKeepsMemory
  <2>2. QED
    BY <1>1, <2>1 DEF TypeOK, Drawing
<1>4. CASE UNCHANGED vars
  BY <1>1, <1>4 DEF TypeOK, Drawing, Memory, vars
<1>5. QED
  BY <1>2, <1>3, <1>4 DEF Next

\* The rung is always a drawing (branches go from left to right, every slot
\* holds a symbol or nothing), and no edit, scan, toggle or reset leaves a tag
\* without a value or a block with a count below zero.
THEOREM TypeCorrect == Spec => []TypeOK
<1>1. Init => TypeOK
  BY Start
<1>2. TypeOK /\ [Next]_vars => TypeOK'
  BY StepKeepsType
<1>3. QED
  BY <1>1, <1>2, PTL DEF Spec

\* What the controller computes is what the drawing shows, for every number of
\* slots and branches, every toolbox and every drawing: the expression of the
\* rung has the value of the power that the simulator shows at its right end
\* (but for bare wires in parallel), and the input of a symbol is the input
\* power the simulator shows it with.
THEOREM DrawingFollowed == Spec => []ProgramFollowsWires
<1>1. TypeOK => ProgramFollowsWires
  BY DrawingIsFollowed DEF TypeOK
<1>2. QED
  BY <1>1, TypeCorrect, PTL

=============================================================================
