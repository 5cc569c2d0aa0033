------------------------------- MODULE Ladder -------------------------------
(***************************************************************************)
(* One rung of the ladder editor: its drawing, the program generated from  *)
(* it, and the preview simulator that runs the program and shows the power *)
(* flow (Web/src/ladder/ladderTranspiler.js, ladderSimulator.js and the    *)
(* editing handlers of Web/src/pages/LadderEditor.vue).                    *)
(*                                                                         *)
(* A rung is a line of slots between the wire nodes 0 .. Slots, and        *)
(* branches that leave the line at one node and come back at a later one.  *)
(* Two parts of the code decide where power flows.  The transpiler builds  *)
(* Boolean expressions, in one of three ways; the simulator lets power     *)
(* spread over the wires of the drawing until nothing changes.  The        *)
(* controller runs the first, the programmer looks at the second.          *)
(*                                                                         *)
(* An expression is kept as its value and as what the code can see of its  *)
(* text: exprAnd, exprOr and the builders treat the texts 'true' and       *)
(* 'false' apart from all others, and null means that a builder gave up.   *)
(***************************************************************************)
EXTENDS Integers, FiniteSets, Sequences, SequencesExt

CONSTANTS
    Slots,         \* slots of a rung: 8 in the code
    Symbols,       \* the symbols a programmer can place: [type, tag, reset]
    Inputs,        \* tags a user can toggle
    Preset,        \* preset of timers (in scans) and of counters
    MaxPasses,     \* passes of the simulator's power flow: 12 in the code
    MaxBranches,   \* bound: branches of the rung
    MaxSymbols     \* bound: symbols placed on it

Empty == [type |-> "none", tag |-> "", reset |-> ""]

\* A pass carries power at least one node further: as many passes as slots are
\* enough.
ASSUME LadderAssumption ==
    /\ Slots \in Nat \ {0} /\ Preset \in Nat
    /\ MaxPasses \in Nat /\ Slots <= MaxPasses
    /\ Symbols \subseteq [type : STRING, tag : STRING, reset : STRING]

Tags == Inputs \cup {e.tag : e \in Symbols} \cup {e.reset : e \in Symbols}

VARIABLES
    main,          \* r.main: the symbol of every slot
    branches,      \* r.branches: sequence of [start, end, cells]
    tags,          \* simTags, where a tag that is not there reads false
    blocks         \* simBlocks: timers, counters and one-shots by tag

vars == <<main, branches, tags, blocks>>

Memory == [tags |-> tags, blocks |-> blocks]

Coils    == {"OUT", "SET", "RST"}
Timers   == {"TON", "TOF"}
Counters == {"CTU", "CTD"}
BlockTypes == Timers \cup Counters \cup {"ONS"}

\* Their output is stored: power goes on to the right from Q alone.
StoredOutput == {"TOF", "CTU", "CTD"}

NewBlock(type) ==
    [n |-> IF type = "CTD" THEN Preset ELSE 0, last |-> FALSE, output |-> FALSE]

BlockSymbols == {e \in Symbols : e.type \in BlockTypes}

-----------------------------------------------------------------------------
(* Expressions *)

Lit(b)   == [text |-> IF b THEN "true" ELSE "false", value |-> b]
Other(b) == [text |-> "other", value |-> b]
Null     == [text |-> "null", value |-> FALSE]

exprAnd(p, q) ==
    IF p.text = "true" THEN q
    ELSE IF q.text = "true" THEN p
    ELSE Other(p.value /\ q.value)

\* exprOr of a set of parts: 'false' is left out, one 'true' decides.
exprOr(parts) ==
    LET clean == {p \in parts : p.text # "false"} IN
    IF clean = {} THEN Lit(FALSE)
    ELSE IF \E p \in clean : p.text = "true" THEN Lit(TRUE)
    ELSE Other(\E p \in clean : p.value)

\* Value of a tag: the output of the block of that name, else the tag.
TagValue(mem, t) ==
    IF t \in DOMAIN mem.blocks THEN mem.blocks[t].output ELSE mem.tags[t]

elementCondition(mem, e) ==
    IF e.type \in {"NO"} \cup BlockTypes THEN Other(TagValue(mem, e.tag))
    ELSE IF e.type = "NC" THEN Other(~TagValue(mem, e.tag))
    ELSE Lit(TRUE)

exprWithElementPower(mem, power, e) ==
    IF e.type \in Coils THEN power
    ELSE IF e.type \in StoredOutput THEN Other(TagValue(mem, e.tag))
    ELSE exprAnd(power, elementCondition(mem, e))

\* The conditions of the slots first .. last-1 of a path, all of them.
seriesCondition(mem, cells, first, last) ==
    LET conds == {elementCondition(mem, cells[i]) : i \in first .. last - 1}
    IN  IF \A c \in conds : c.text = "true" THEN Lit(TRUE)
        ELSE Other(\A c \in conds : c.value)

seriesPowerExpression(mem, power, cells, first, last) ==
    LET p[i \in first .. last] ==
          IF i = first THEN power
          ELSE exprWithElementPower(mem, p[i - 1], cells[i - 1])
    IN  p[last]

BranchOf(b) == branches[b]
BranchIds   == DOMAIN branches

-----------------------------------------------------------------------------
(* The three builders of the transpiler *)

\* powerExpressionsByNode: from left to right, what reaches every node, by the
\* line and by the branches that end there.
orInto(mem, P, n) ==
    exprOr({exprWithElementPower(mem, P[n - 1], main[n - 1])}
           \cup {seriesPowerExpression(mem, P[BranchOf(b).start],
                     BranchOf(b).cells, BranchOf(b).start, n) :
                   b \in {c \in BranchIds : BranchOf(c).end = n}})

powerExpressionsByNode(mem) ==
    LET P[n \in 0 .. Slots] == IF n = 0 THEN Lit(TRUE) ELSE orInto(mem, P, n)
    IN  P

\* expressionFromNode: the paths of the wire graph, from right to left.
ladderEdges(mem, n) ==
    {[to |-> n + 1, cond |-> elementCondition(mem, main[n])]}
    \cup {[to   |-> BranchOf(b).end,
           cond |-> seriesCondition(mem, BranchOf(b).cells, n, BranchOf(b).end)] :
             b \in {c \in BranchIds : BranchOf(c).start = n}}

expressionFromNode(mem) ==
    LET S[n \in 0 .. Slots] ==
          IF n = Slots THEN Lit(TRUE)
          ELSE exprOr({exprAnd(e.cond, S[e.to]) : e \in ladderEdges(mem, n)})
    IN  S

\* A piece of the rung, without the branches that are ignored in it.
Sections == [node : 0 .. Slots, stop : 0 .. Slots, ignored : SUBSET BranchIds]

Section(node, stop, ignored) == [node |-> node, stop |-> stop, ignored |-> ignored]

\* A look for crossings that finds none (a fault; the model uses Crosses).
CrossesNever(b, s, end) == FALSE

\* A branch that starts inside the section from s.node to end and comes back
\* after it, but not after s.stop.
Crosses(b, s, end) ==
    /\ BranchOf(b).start \in s.node + 1 .. end - 1
    /\ BranchOf(b).end \in end + 1 .. s.stop

\* The branches of the group that starts at the left end of a section.
Group(s) == {b \in BranchIds \ s.ignored : /\ BranchOf(b).start = s.node
                                           /\ BranchOf(b).end <= s.stop}

\* Where the first branch of the group comes back.
GroupEnd(s) == BranchOf(CHOOSE b \in Group(s) : \A c \in Group(s) : b <= c).end

\* alternatives: parallel sections whose text is not 'true'.
alternatives(sections) == {s \in sections : s.text # "true"}

\* A group: the line and the branches that leave and come back together.
groupExpression(mem, solve, s) ==
    LET end == GroupEnd(s)
        sections == {solve[Section(s.node, end, s.ignored \cup Group(s))]}
                    \cup {seriesCondition(mem, BranchOf(b).cells, s.node, end) :
                            b \in Group(s)}
        kept == alternatives(sections)
    IN  IF \/ \E b \in Group(s) : BranchOf(b).end # end
           \/ \E b \in BranchIds \ (s.ignored \cup Group(s)) : Crosses(b, s, end)
           \/ \E p \in sections : p.text = "null"
        THEN Null
        ELSE IF kept = {} THEN Lit(TRUE) ELSE exprOr(kept)

\* What comes first in a section, in series with the rest of it.
sectionExpression(mem, solve, s) ==
    LET single == Group(s) = {}
        head == IF single THEN elementCondition(mem, main[s.node])
                ELSE groupExpression(mem, solve, s)
        tail == solve[Section(IF single THEN s.node + 1 ELSE GroupEnd(s),
                              s.stop, s.ignored)]
    IN  IF head.text = "null" \/ tail.text = "null" THEN Null
        ELSE exprAnd(head, tail)

\* readableExpressionFromNode: gives up (null) on branches it cannot group.
readableExpressionFromNode(mem) ==
    LET solve[s \in Sections] ==
          IF s.node = s.stop THEN Lit(TRUE)
          ELSE IF s.node > s.stop THEN Null
          ELSE sectionExpression(mem, solve, s)
    IN  solve

AllSymbols ==
    {main[i] : i \in 0 .. Slots - 1}
    \cup UNION {{BranchOf(b).cells[i] : i \in 0 .. Slots - 1} : b \in BranchIds}

HasStoredOutput == \E e \in AllSymbols : e.type \in StoredOutput

\* rungExpression: what the output coils of the rung are set to.
rungExpression(mem) ==
    IF HasStoredOutput THEN powerExpressionsByNode(mem)[Slots]
    ELSE LET readable == readableExpressionFromNode(mem)[Section(0, Slots, {})] IN
         IF readable.text \notin {"null", "false"} THEN readable
         ELSE expressionFromNode(mem)[0]

\* Power that reaches the symbol in a slot of the line or of a branch.
InputTo(mem, b, slot) ==
    IF b = 0 THEN powerExpressionsByNode(mem)[slot].value
    ELSE exprAnd(powerExpressionsByNode(mem)[BranchOf(b).start],
                 seriesCondition(mem, BranchOf(b).cells, BranchOf(b).start, slot)).value

-----------------------------------------------------------------------------
(* One scan of the generated program (transpileJavaScript) *)

\* The cells of the rung in the order the code lists them; lane 0: the line.
Placed ==
    [k \in 1 .. (Len(branches) + 1) * Slots |->
        LET b == (k - 1) \div Slots
            i == (k - 1) % Slots
        IN  [lane |-> b, slot |-> i,
             e |-> IF b = 0 THEN main[i] ELSE BranchOf(b).cells[i]]]

Lesser(a, b) == IF a <= b THEN a ELSE b

\* update() of the blocks: the new state for an input, and a reset or load.
Timer(b, type, input) ==
    LET up == Lesser(b.n + 1, Preset) IN
    IF type = "TON"
    THEN [n |-> IF input THEN up ELSE 0, last |-> b.last,
          output |-> input /\ up >= Preset]
    ELSE [n |-> IF input THEN 0 ELSE IF b.output THEN up ELSE Preset, last |-> b.last,
          output |-> input \/ (b.output /\ up < Preset)]

Counter(b, type, input, reset) ==
    LET rise == input /\ ~b.last
        n == IF reset THEN IF type = "CTU" THEN 0 ELSE Preset
             ELSE IF ~rise THEN b.n
             ELSE IF type = "CTU" THEN Lesser(b.n + 1, Preset)
             ELSE IF b.n > 0 THEN b.n - 1 ELSE 0
    IN  [n |-> n, last |-> input,
         output |-> ~reset /\ IF type = "CTU" THEN n >= Preset ELSE n = 0]

OneShot(b, input) == [n |-> b.n, last |-> input, output |-> input /\ ~b.last]

UpdatedBlock(b, type, input, reset) ==
    IF type \in Timers THEN Timer(b, type, input)
    ELSE IF type \in Counters THEN Counter(b, type, input, reset)
    ELSE OneShot(b, input)

UpdateBlock(mem, p) ==
    LET reset == IF p.e.reset = "" THEN FALSE ELSE TagValue(mem, p.e.reset) IN
    [tags   |-> mem.tags,
     blocks |-> [mem.blocks EXCEPT ![p.e.tag] =
                    UpdatedBlock(@, p.e.type, InputTo(mem, p.lane, p.slot), reset)]]

LatchWrite(mem, p) ==
    [tags   |-> IF InputTo(mem, p.lane, p.slot)
                THEN [mem.tags EXCEPT ![p.e.tag] = (p.e.type = "SET")] ELSE mem.tags,
     blocks |-> mem.blocks]

\* A part of the program: the statements for the symbols of some types.
Part(types, mem) ==
    LET placed == Placed
        upTo[k \in 0 .. Len(placed)] ==
          IF k = 0 THEN mem
          ELSE IF placed[k].e.type \notin types THEN upTo[k - 1]
          ELSE IF placed[k].e.type \in BlockTypes THEN UpdateBlock(upTo[k - 1], placed[k])
          ELSE LatchWrite(upTo[k - 1], placed[k])
    IN  upTo[Len(placed)]

\* The output coils of the rung get its value.
CoilWrite(mem, on) ==
    [tags   |-> [t \in Tags |-> IF \E e \in AllSymbols : e.type = "OUT" /\ e.tag = t
                               THEN on ELSE mem.tags[t]],
     blocks |-> mem.blocks]

\* One-shots and counters first, then the value of the rung, the latches and
\* the coils, and the timers last.
Scanned(mem) ==
    LET counted == Part(Counters, Part({"ONS"}, mem))
        on      == rungExpression(counted).value
    IN  Part(Timers, CoilWrite(Part({"SET", "RST"}, counted), on))

-----------------------------------------------------------------------------
(* The power flow of the simulator (simEvaluateRungFlow and, up to a node, *)
(* simEvaluateRungFlowToNode)                                              *)

simEvalElement(mem, e) == elementCondition(mem, e).value

simPowerThroughElement(mem, power, e) ==
    IF e.type \in StoredOutput THEN simEvalElement(mem, e)
    ELSE power /\ simEvalElement(mem, e)

simPowerThroughSeries(mem, power, cells, first, last) ==
    LET p[i \in first .. last] ==
          IF i = first THEN power
          ELSE simPowerThroughElement(mem, p[i - 1], cells[i - 1])
    IN  p[last]

\* One pass within the nodes 0 .. target: along the line, then over the
\* branches in their order.
FlowAlongLine(mem, target, on) ==
    LET line[n \in 0 .. Slots] ==
          IF n = 0 \/ n > target THEN on[n]
          ELSE on[n] \/ simPowerThroughElement(mem, line[n - 1], main[n - 1])
    IN  line

FlowOverBranch(mem, target, on, br) ==
    IF br.end > target THEN on
    ELSE [on EXCEPT ![br.end] = @ \/
            simPowerThroughSeries(mem, on[br.start], br.cells, br.start, br.end)]

FlowPass(mem, target, on) ==
    LET over[b \in 0 .. Len(branches)] ==
          IF b = 0 THEN FlowAlongLine(mem, target, on)
          ELSE FlowOverBranch(mem, target, over[b - 1], BranchOf(b))
    IN  over[Len(branches)]

simEvaluateRungFlowToNode(mem, target) ==
    LET after[k \in 0 .. MaxPasses] ==
          IF k = 0 THEN [n \in 0 .. Slots |-> n = 0]
          ELSE FlowPass(mem, target, after[k - 1])
    IN  after[MaxPasses]

simEvaluateRungFlow(mem) == simEvaluateRungFlowToNode(mem, Slots)

\* The input power a symbol is shown with, on the line or on a branch.
simElementInputPower(mem, b, slot) ==
    IF b = 0 THEN simEvaluateRungFlowToNode(mem, slot)[slot]
    ELSE LET start == BranchOf(b).start IN
         /\ simEvaluateRungFlowToNode(mem, start)[start]
         /\ \A i \in start .. slot - 1 : simEvalElement(mem, BranchOf(b).cells[i])

-----------------------------------------------------------------------------
(* Editing the rung *)

Lane(cells) == {i \in 0 .. Slots - 1 : cells[i] # Empty}

SymbolCount ==
    Cardinality({p \in (BranchIds \cup {0}) \X (0 .. Slots - 1) :
        p[2] \in Lane(IF p[1] = 0 THEN main ELSE BranchOf(p[1]).cells)})

\* slotClick or dropOnMain: a symbol of the toolbox into a slot of the line.
\* Bound: MaxSymbols.
DropOnMain(slot, e) ==
    /\ SymbolCount < MaxSymbols
    /\ main' = [main EXCEPT ![slot] = e]
    /\ UNCHANGED <<branches, tags, blocks>>

\* wireNodeClick on two different nodes.  Bound: MaxBranches.
AddBranch(start, end) ==
    /\ Len(branches) < MaxBranches
    /\ start < end
    /\ branches' = Append(branches, [start |-> start, end |-> end,
                                     cells |-> [i \in 0 .. Slots - 1 |-> Empty]])
    /\ UNCHANGED <<main, tags, blocks>>

\* dropOnBranch: the slots a branch shows are those of its span.
DropOnBranch(b, slot, e) ==
    /\ SymbolCount < MaxSymbols
    /\ slot \in BranchOf(b).start .. BranchOf(b).end - 1
    /\ branches' = [branches EXCEPT ![b].cells[slot] = e]
    /\ UNCHANGED <<main, tags, blocks>>

\* A click in mode "delete" on a symbol.
DeleteSymbol(b, slot) ==
    /\ IF b = 0
       THEN /\ main[slot] # Empty
            /\ main' = [main EXCEPT ![slot] = Empty]
            /\ UNCHANGED branches
       ELSE /\ BranchOf(b).cells[slot] # Empty
            /\ branches' = [branches EXCEPT ![b].cells[slot] = Empty]
            /\ UNCHANGED main
    /\ UNCHANGED <<tags, blocks>>

DeleteBranch(b) ==
    /\ branches' = RemoveAt(branches, b)
    /\ UNCHANGED <<main, tags, blocks>>

(* Running it *)

ScanFrom(mem) ==
    /\ \E after \in {Scanned(mem)} :
          tags' = after.tags /\ blocks' = after.blocks
    /\ UNCHANGED <<main, branches>>

\* simStep, alone or from the timer of simulator RUN.
simStep == ScanFrom(Memory)

\* toggleSimTag: the tag changes and one scan follows at once.
toggleSimTag(t) == ScanFrom([tags |-> [tags EXCEPT ![t] = ~@], blocks |-> blocks])

NoTags   == [t \in Tags |-> FALSE]
NoBlocks == [t \in {e.tag : e \in BlockSymbols} |->
                NewBlock((CHOOSE e \in BlockSymbols : e.tag = t).type)]

simReset == ScanFrom([tags |-> NoTags, blocks |-> NoBlocks])

Init ==
    /\ main = [i \in 0 .. Slots - 1 |-> Empty]
    /\ branches = <<>>
    /\ tags = NoTags
    /\ blocks = NoBlocks

Edit ==
    \/ \E slot \in 0 .. Slots - 1, e \in Symbols : DropOnMain(slot, e)
    \/ \E start, end \in 0 .. Slots : AddBranch(start, end)
    \/ \E b \in BranchIds, slot \in 0 .. Slots - 1, e \in Symbols :
          DropOnBranch(b, slot, e)
    \/ \E b \in BranchIds \cup {0}, slot \in 0 .. Slots - 1 : DeleteSymbol(b, slot)
    \/ \E b \in BranchIds : DeleteBranch(b)

Run ==
    \/ simStep
    \/ \E t \in Inputs : toggleSimTag(t)
    \/ simReset

Next == Edit \/ Run

Spec == Init /\ [][Next]_vars

-----------------------------------------------------------------------------
(* Properties *)

\* A symbol is a condition if it can stop power.
IsCondition(e) == e.type \in {"NO", "NC"} \cup BlockTypes

\* Every section that has another one in parallel holds a condition: no
\* branch is a bare wire, and none bridges a bare piece of the line.
NoBareWireInParallel ==
    \A b \in BranchIds :
        LET span == BranchOf(b).start .. BranchOf(b).end - 1 IN
        /\ \E i \in span : IsCondition(BranchOf(b).cells[i])
        /\ \E i \in span : IsCondition(main[i])

\* What the controller computes is what the drawing shows.  Whatever the rung,
\* with crossing, nested and parallel branches, in whatever order they were
\* drawn, and whatever its tags and blocks hold, the generated expression of
\* the rung has the value of the power at the right end, and the input
\* computed for a symbol, on the line or on a branch, is the input power the
\* simulator shows it with.
\* The exception is a bare wire in parallel without a stored-output block in
\* the rung: the readable form leaves it out (ladderTranspiler.js:294-301).
ProgramFollowsWires ==
    LET reached == simEvaluateRungFlow(Memory) IN
    /\ (HasStoredOutput \/ NoBareWireInParallel)
          => rungExpression(Memory).value = reached[Slots]
    /\ \A slot \in 0 .. Slots - 1 :
          InputTo(Memory, 0, slot) = simElementInputPower(Memory, 0, slot)
    /\ \A b \in BranchIds : \A slot \in BranchOf(b).start .. BranchOf(b).end - 1 :
          InputTo(Memory, b, slot) = simElementInputPower(Memory, b, slot)

=============================================================================
