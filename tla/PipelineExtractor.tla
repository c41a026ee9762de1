-------------------------- MODULE PipelineExtractor --------------------------
(***************************************************************************)
(* Cutting of the control flow graph in                                    *)
(* ssa/translation/toHwtHlsNetlist/pipelineExtractor.py.                   *)
(*                                                                         *)
(* The netlist handed to the scheduler must not have cycles, the program   *)
(* has loops.  The extractor therefore looks for edges between blocks whose*)
(* removal breaks every cycle (a feedback arc set) with a greedy heuristic:*)
(* it takes a strongly connected component from a list, cuts all in-edges  *)
(* or all out-edges of its most unbalanced block, and appends the          *)
(* components of what is left to the list.  The degrees are measured once, *)
(* before the first cut, and components stay on the list while others are  *)
(* cut, so both are out of date when they are used.                        *)
(*                                                                         *)
(* The edges which were cut become channels (HlsNetNodeReadBackwardEdge /  *)
(* HlsNetNodeWriteBackwardEdge) in module SsaToNetlist.                    *)
(***************************************************************************)
EXTENDS Naturals, Sequences, FiniteSets

CONSTANTS
    Blocks,     \* the basic blocks, numbered as collect_all_blocks yields them
    Graphs      \* the control flow graphs to cut, as sets of edges

ASSUME BlocksAssumption == IsFiniteSet(Blocks)
ASSUME GraphsAssumption == Graphs \subseteq SUBSET (Blocks \X Blocks)

VARIABLES
    edges,      \* the control flow graph; never changes
    g,          \* edges of the DiGraph which is being cut
    sccs,       \* the list of components to break
    degree,     \* get_nodes_degree_dict
    removed,    \* edges_to_be_removed, the result
    stage       \* progress of remove_cycle_edges_by_mfas

extractVars == <<edges, g, sccs, degree, removed, stage>>

-----------------------------------------------------------------------------
(* Reachability without recursion: b is reached from a if it is in every   *)
(* set of blocks which has a and is closed under the edges.                *)

Closed(S, e) == \A x \in e : x[1] \in S => x[2] \in S

Reaches(e, a, b) == \A S \in SUBSET Blocks : a \in S /\ Closed(S, e) => b \in S

Component(e, a) == {b \in Blocks : Reaches(e, a, b) /\ Reaches(e, b, a)}

\* strongly_connected_components(g) with len(c) > 1
Components(e) ==
    {c \in {Component(e, a) : a \in Blocks} : \E a, b \in c : a # b}

\* any order in which networkx may list them
Listings(S) ==
    {s \in [1..Cardinality(S) -> S] : \A c \in S : \E i \in DOMAIN s : s[i] = c}

SelfLoops(e) == {x \in e : x[1] = x[2]}

Within(e, nodes) == {x \in e : x[1] \in nodes /\ x[2] \in nodes}

InEdges(e, b) == {x \in e : x[2] = b}
OutEdges(e, b) == {x \in e : x[1] = b}

\* the larger and the smaller degree of a block; their quotient is its value
DegreeOf(e, b) ==
    LET in_d == Cardinality(InEdges(e, b))
        out_d == Cardinality(OutEdges(e, b))
    IN  IF in_d > out_d THEN [f |-> "IN", more |-> in_d, less |-> out_d]
                        ELSE [f |-> "OUT", more |-> out_d, less |-> in_d]

Above(d0, d1) == d0.more * d1.less > d1.more * d0.less

\* max() yields the first block with the largest value; the order of a set
\* of small integers is fixed, so the same component gives the same block
MaxNode(c) == CHOOSE n \in c : \A m \in c : ~Above(degree[m], degree[n])

CutsAt(n) == IF degree[n].f = "IN" THEN OutEdges(g, n) ELSE InEdges(g, n)

-----------------------------------------------------------------------------
ExtractInit(e) ==
    /\ edges = e
    /\ g = e
    /\ sccs = <<>>
    /\ degree = <<>>
    /\ removed = {}
    /\ stage = "collected"

\* remove_cycle_edges_by_mfas up to the greedy loop
RmNonSccs ==
    /\ stage = "collected"
    /\ LET rest == g \ SelfLoops(g)
           nodes == UNION Components(rest)
       IN  /\ g' = Within(rest, nodes)
           /\ degree' = [n \in nodes |-> DegreeOf(g', n)]
           /\ sccs' \in Listings(Components(rest))
    /\ removed' = SelfLoops(g)
    /\ stage' = "cutting"
    /\ UNCHANGED edges

\* mutant: what remains of a component is not looked at again
BreakOnce ==
    /\ stage = "cutting"
    /\ sccs # <<>>
    /\ LET cut == CutsAt(MaxNode(sccs[Len(sccs)]))
       IN  /\ removed' = removed \cup cut
           /\ g' = g \ cut
    /\ sccs' = SubSeq(sccs, 1, Len(sccs) - 1)
    /\ UNCHANGED <<edges, degree, stage>>

\* one iteration of greedy_local_heuristic
BreakComponent ==
    /\ stage = "cutting"
    /\ sccs # <<>>
    /\ LET cut == CutsAt(MaxNode(sccs[Len(sccs)]))
       IN  /\ removed' = removed \cup cut
           /\ g' = g \ cut
    /\ \E found \in Listings(Components(g')) :
            sccs' = SubSeq(sccs, 1, Len(sccs) - 1) \o found
    /\ UNCHANGED <<edges, degree, stage>>

AllBroken ==
    /\ stage = "cutting"
    /\ sccs = <<>>
    /\ stage' = "extracted"
    /\ UNCHANGED <<edges, g, sccs, degree, removed>>

ExtractNext == RmNonSccs \/ BreakComponent \/ AllBroken

ExtractSpec ==
    /\ \E e \in Graphs : ExtractInit(e)
    /\ [][ExtractNext]_extractVars
    /\ WF_extractVars(ExtractNext)

-----------------------------------------------------------------------------
ExtractTypeOK ==
    /\ edges \in SUBSET (Blocks \X Blocks)
    /\ g \subseteq edges
    /\ sccs \in Seq(SUBSET Blocks)
    /\ removed \subseteq edges
    /\ stage \in {"collected", "cutting", "extracted"}

\* no edge leads back to where it comes from
Acyclic(e) == \A a, b \in Blocks : <<a, b>> \in e => ~Reaches(e, b, a)

(* The uncut edges have no cycle when the list runs empty, although the    *)
(* degrees and the listed components are out of date by then.  The         *)
(* translation relies on it: a cycle of uncut edges is a cycle of the      *)
(* netlist, on which the scheduler does not end.                           *)
ForwardIsAcyclic == stage = "extracted" => Acyclic(edges \ removed)

(* What makes it true: each component left in the graph is on the list, and*)
(* the graph has every uncut edge that could be a part of a cycle.         *)
ListCoversComponents ==
    stage # "collected" =>
        /\ \A c \in Components(g) : \E i \in DOMAIN sccs : sccs[i] = c
        /\ SelfLoops(edges) \subseteq removed
        /\ g = Within(edges \ removed, UNION Components(edges \ SelfLoops(edges)))
=============================================================================
