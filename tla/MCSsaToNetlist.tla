--------------------------- MODULE MCSsaToNetlist ---------------------------
EXTENDS SsaSemantics

CONSTANTS
    SizesOfGraphs,  \* numbers of blocks of the graphs which are enumerated
    ListedGraphs,   \* whether the graphs of Listed are added to them
    MaxBlocks,      \* size of the largest graph
    MaxActive       \* number of blocks which touch x, at most

MCBlocks == 1..MaxBlocks

\* at most two targets, the entry block has no predecessors
Targets(n) ==
    {<<>>} \cup {<<b>> : b \in 2..n}
    \cup ({<<b, c>> : b, c \in 2..n} \ {<<b, b>> : b \in 2..n})
SuccsOf(succ, b) == ToSet(succ[b])
PredsOf(succ, b) == {q \in DOMAIN succ : b \in SuccsOf(succ, q)}

\* blocks are numbered in the order of their collection
RECURSIVE Numbered(_, _, _)
Numbered(succ, todo, seen) ==
    IF todo = <<>> THEN seen
    ELSE IF Head(todo) \in ToSet(seen) THEN Numbered(succ, Tail(todo), seen)
    ELSE Numbered(succ, succ[Head(todo)] \o Tail(todo), Append(seen, Head(todo)))

\* cycles are entered at one block: without the edges to a dominator the
\* graph is acyclic
RECURSIVE Avoiding(_, _, _)
Avoiding(succ, S, x) ==
    LET more == S \cup (UNION {SuccsOf(succ, b) : b \in S} \ {x})
    IN  IF more = S THEN S ELSE Avoiding(succ, more, x)
Dominates(succ, d, b) == d = b \/ d = 1 \/ b \notin Avoiding(succ, {1}, d)
ForwardEdges(succ) ==
    {e \in (DOMAIN succ) \X (DOMAIN succ) : e[2] \in SuccsOf(succ, e[1]) /\ ~Dominates(succ, e[2], e[1])}
RECURSIVE Shrinks(_, _)
Shrinks(S, e) ==
    LET rest == {b \in S : \E x \in e : x[1] = b /\ x[2] \in S}
    IN  IF rest = S THEN S = {} ELSE Shrinks(rest, e)
Reducible(succ) == Shrinks(DOMAIN succ, ForwardEdges(succ))

\* SimplifyCFG merges a block with its only successor if that has no other
\* predecessor
Simplified(succ) ==
    \A b \in DOMAIN succ : Len(succ[b]) = 1 => Cardinality(PredsOf(succ, succ[b][1])) > 1

GraphsOf(n) ==
    {succ \in [1..n -> Targets(n)] :
        /\ Numbered(succ, <<1>>, <<>>) = [i \in 1..n |-> i]
        /\ Simplified(succ)
        /\ Reducible(succ)}

Listed == {
    \* a loop with if-else in it
    << <<2>>, <<3, 5>>, <<4>>, <<2>>, <<4>> >>,
    \* a loop in a loop, the inner one with two blocks
    << <<2>>, <<3>>, <<4, 2>>, <<3, 5>>, <<2>> >>,
    \* two loops one after the other
    << <<2>>, <<3, 4>>, <<2>>, <<5, 4>>, <<4>> >>
}

\* what a block does with the variable x, which is a constant at the start
Kinds == {"none", "use", "def", "mod", "usedef"}
Defines(k) == k \in {"def", "mod", "usedef"}
Uses(k) == k \in {"use", "mod", "usedef"}

RECURSIVE Needed(_, _, _)
Needed(succ, kind, S) ==
    LET more == S \cup {b \in DOMAIN succ : ~Defines(kind[b]) /\ SuccsOf(succ, b) \cap S # {}}
    IN  IF more = S THEN S ELSE Needed(succ, kind, more)
NeededIn(succ, kind) == Needed(succ, kind, {b \in DOMAIN succ : Uses(kind[b])})

\* no result is dead
Live(succ, kind) ==
    \A b \in DOMAIN succ : Defines(kind[b]) => SuccsOf(succ, b) \cap NeededIn(succ, kind) # {}

Bottom == <<"bottom", 0>>
DefinedBy(kind, b) == IF kind[b] = "mod" THEN <<"mod", b>> ELSE <<"def", b>>

\* the value of x at the begin of each block
RECURSIVE Reaching(_, _, _)
Reaching(pred, kind, in) ==
    LET out(b) == IF Defines(kind[b]) THEN DefinedBy(kind, b) ELSE in[b]
        from(b) == {out(q) : q \in ToSet(pred[b])} \ {Bottom}
        new == [b \in DOMAIN pred |->
                    IF b = 1 THEN Const
                    ELSE IF in[b] = <<"phi", b>> THEN in[b]
                    ELSE IF from(b) = {} THEN Bottom
                    ELSE IF Cardinality(from(b)) = 1 THEN CHOOSE v \in from(b) : TRUE
                    ELSE <<"phi", b>>]
    IN  IF new = in THEN in ELSE Reaching(pred, kind, new)

ProgramOf(succ, pred, kind) ==
    LET needed == NeededIn(succ, kind)
        in == Reaching(pred, kind, [b \in DOMAIN succ |-> Bottom])
        out(b) == IF Defines(kind[b]) THEN DefinedBy(kind, b) ELSE in[b]
        operand(b, i) == [val |-> out(pred[b][i]), from |-> pred[b][i]]
        hasPhi(b) == in[b] = <<"phi", b>> /\ b \in needed
        cond(b) == IF Len(succ[b]) > 1
                   THEN <<[op |-> "read", val |-> CondOf(b), args |-> <<>>]>> ELSE <<>>
        use(b) == <<[op |-> "write", val |-> <<"use", b>>, args |-> <<in[b]>>]>>
        def(b) == <<[op |-> "read", val |-> <<"def", b>>, args |-> <<>>]>>
        mod(b) == <<[op |-> "op", val |-> <<"mod", b>>, args |-> <<in[b]>>]>>
    IN  [succ |-> succ,
         pred |-> pred,
         phi |-> [b \in DOMAIN succ |->
                    IF hasPhi(b) THEN [i \in DOMAIN pred[b] |-> operand(b, Len(pred[b]) + 1 - i)]
                    ELSE <<>>],
         body |-> [b \in DOMAIN succ |->
                    cond(b) \o CASE kind[b] = "none" -> <<>>
                                 [] kind[b] = "use" -> use(b)
                                 [] kind[b] = "def" -> def(b)
                                 [] kind[b] = "mod" -> mod(b)
                                 [] OTHER -> use(b) \o def(b)]]

AllGraphs == UNION {GraphsOf(n) : n \in SizesOfGraphs} \cup (IF ListedGraphs THEN Listed ELSE {})

KindsFor(succ) ==
    {kind \in [DOMAIN succ -> Kinds] :
        /\ kind[1] \in {"none", "def"}
        /\ Cardinality({b \in DOMAIN succ : kind[b] # "none"}) <= MaxActive
        /\ Live(succ, kind)}

\* predecessors in the order of their numbers
PredSeqs(succ) ==
    [b \in DOMAIN succ |-> SelectSeq([q \in DOMAIN succ |-> q], LAMBDA q : b \in SuccsOf(succ, q))]

MCShapes == {[succ |-> succ, pred |-> PredSeqs(succ)] : succ \in AllGraphs}
MCProgramsOf(shape) ==
    {ProgramOf(shape.succ, shape.pred, kind) : kind \in KindsFor(shape.succ)}
MCGraphs == {UNION {{<<b, s>> : s \in SuccsOf(succ, b)} : b \in DOMAIN succ} : succ \in AllGraphs}
=============================================================================
