---------------------- MODULE BlockPredecessorTracker ----------------------
(***************************************************************************)
(* BlockPredecessorTracker: which blocks of the bytecode were translated,   *)
(* which never will be, and so for which of them all predecessors are       *)
(* known.  Its graph grows while loops are unrolled: the body of a loop     *)
(* which the compiler runs gets a copy for each iteration.                  *)
(*                                                                         *)
(* A label is the loops around with their iterations and the block:         *)
(* << << <<entry, iteration>>, .. >>, block >>.  T is the tracker, loops    *)
(* the function from the entry of a loop to its blocks.  An operation       *)
(* returns the tracker t and seal, the labels it yields: blocks whose       *)
(* predecessors became all known; err names the exception it raised.        *)
(***************************************************************************)
EXTENDS Integers, Sequences, SequencesExt, FiniteSets, FiniteSetsExt

Label(scope, b) == << scope, b >>
Tracker(edges) == [edges |-> {<<Label(<<>>, e[1]), Label(<<>>, e[2])>> : e \in edges},
                   gen |-> {}, notGen |-> {}, notGenEdges |-> {}, scope |-> <<>>]

Nodes(T) == {e[1] : e \in T.edges} \cup {e[2] : e \in T.edges}
Preds(T, l) == {e[1] : e \in {d \in T.edges : d[2] = l}}
\* In the order of the blocks.
Succs(T, l) == SetToSortSeq({e[2] : e \in {d \in T.edges : d[1] = l}},
                            LAMBDA k, m : k[2] < m[2] \/ (k[2] = m[2] /\ Len(k[1]) < Len(m[1])))

Known(T, l) == l \in T.gen \cup T.notGen
HasAllPredecessorsKnown(T, l) == \A p \in Preds(T, l) : Known(T, p)
NewlyResolved(T, l) == IF HasAllPredecessorsKnown(T, l) THEN <<l>> ELSE <<>>

Result(T, seal, err) == [t |-> T, seal |-> seal, err |-> err]

\* mutant: a block which waited for this predecessor is forgotten.
AddGeneratedOnly(T, l) ==
    LET T1 == [T EXCEPT !.gen = @ \cup {l}]
    IN  Result(T1, NewlyResolved(T1, l), IF Known(T, l) THEN "generated twice" ELSE "")
AddGenerated(T, l) ==
    LET T1 == [T EXCEPT !.gen = @ \cup {l}]
        more(seal, s) == IF s \in T1.gen THEN seal \o NewlyResolved(T1, s) ELSE seal
    IN  Result(T1, FoldLeft(more, NewlyResolved(T1, l), Succs(T1, l)),
               CASE Known(T, l) -> "generated twice"
                 [] l \notin Nodes(T) -> "not in the graph"
                 [] OTHER -> "")

\* addNotGenerated: the edge src -> dst is never taken; dst, and what can only
\* be reached through it, is not generated when no other edge leads there.
RECURSIVE AddNotGenerated(_, _, _)
AddNotGenerated(T, src, dst) ==
    LET T1 == [T EXCEPT !.notGenEdges = @ \cup {<<src, dst>>}]
        T2 == [T1 EXCEPT !.notGen = @ \cup {dst}]
        next(r, s) ==
            CASE ~HasAllPredecessorsKnown(r.t, s) -> r
              [] s \in r.t.gen -> [r EXCEPT !.seal = Append(@, s)]
              [] OTHER -> IF Preds(r.t, s) \subseteq r.t.notGen
                          THEN LET q == AddNotGenerated(r.t, dst, s)
                               IN  Result(q.t, r.seal \o q.seal, IF r.err = "" THEN q.err ELSE r.err)
                          ELSE r
    IN  CASE <<src, dst>> \in T.notGenEdges \/ dst \in T.notGen -> Result(T, <<>>, "not generated twice")
          [] OTHER ->
               IF dst \notin Nodes(T) \/ \E p \in Preds(T, dst) : <<p, dst>> \notin T1.notGenEdges
               THEN Result(T1, <<>>, "")
               ELSE FoldLeft(next, Result(T2, <<>>, ""), Succs(T2, dst))

\* _getBlockLabel: the scopes of the loops which do not contain the block are
\* dropped from the end.
GetBlockLabel(T, loops, b) ==
    LET n == Max({0} \cup {i \in DOMAIN T.scope : b \in loops[T.scope[i][1]]})
    IN  Label(SubSeq(T.scope, 1, n), b)

\* _labelForBlockOutOfLoop, as seen from the body of the loop: a jump to the
\* entry of a loop is a jump to its next iteration.
LabelForBlockOutOfLoop(loops, scope, b) ==
    LET add(r, s) == CASE r.done -> r
                       [] ~r.done /\ b = s[1] ->
                            [done |-> TRUE, pre |-> Append(r.pre, << s[1], s[2] + 1 >>)]
                       [] ~r.done /\ b # s[1] /\ b \in loops[s[1]] ->
                            [done |-> FALSE, pre |-> Append(r.pre, s)]
                       [] OTHER -> [done |-> r.pre # <<>>, pre |-> r.pre]
    IN  Label(FoldLeft(add, [done |-> FALSE, pre |-> <<>>], scope).pre, b)

\* cfgAddPrefixToLoopBody: the blocks of the loop become those of its first
\* iteration, with the entry of the next one behind them.
CfgAddPrefixToLoopBody(T, loops, loop, scope) ==
    LET body == {Label(Front(scope), b) : b \in loops[loop]}
        renamed(l) == Label(scope, l[2])
        entry == Label(Front(scope), loop)
        next  == LabelForBlockOutOfLoop(loops, scope, loop)
        goal(s) == CASE s = entry -> next
                     [] s # entry /\ s \in body -> renamed(s)
                     [] OTHER -> LabelForBlockOutOfLoop(loops, scope, s[2])
        inner == {e \in T.edges : e[1] \in body}
        kept  == {e \in T.edges : e[1] \notin body /\ e[2] \notin body}
    IN  [T EXCEPT !.edges = kept
            \cup {<<e[1], renamed(entry)>> : e \in {d \in T.edges : d[1] \notin body /\ d[2] = entry}}
            \cup {<<next, e[2]>> : e \in {d \in inner : d[1] = entry /\ d[2] \notin body}}
            \cup {<<renamed(e[1]), goal(e[2])>> :
                    e \in {d \in inner : d[1] # entry \/ d[2] \in body}}]

\* cfgCopyLoopBody: the blocks of one more iteration, from the original graph.
CfgCopyLoopBody(T, original, loops, loop, scope) ==
    LET entry == Label(scope, loop)
        next  == LabelForBlockOutOfLoop(loops, scope, loop)
        goal(b) == IF b \in loops[loop] \ {loop} THEN Label(scope, b)
                   ELSE LabelForBlockOutOfLoop(loops, scope, b)
        copy(e) == IF e[1] = loop /\ e[2] \notin loops[loop]
                   THEN <<next, goal(e[2])>> ELSE <<Label(scope, e[1]), goal(e[2])>>
        T1 == [T EXCEPT !.edges = {e \in @ : e[1] # entry}
                   \cup {copy(e) : e \in {d \in original : d[1] \in loops[loop]}}]
    IN  Result(T1, NewlyResolved(T1, next), IF entry \in Nodes(T) THEN "" ELSE "not in the graph")
=============================================================================
