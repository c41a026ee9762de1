---------------------------- MODULE ArchElements ----------------------------
(***************************************************************************)
(* How a scheduled netlist is split into architectural elements            *)
(* (netlist/analysis/io.py, fsm.py, pipeline.py and                        *)
(* HlsAllocator._discoverArchElements).                                    *)
(*                                                                         *)
(* The accesses of an interface that is used more than once become the     *)
(* states of an FSM, one state per clk; each state takes with it every     *)
(* node of the same clk that it reaches.  What is left is one pipeline     *)
(* with a stage for every clk.                                             *)
(*                                                                         *)
(* The allocator is one thread with loops in loops and a recursion.  What  *)
(* it has left to do is the sequence todo, the next task first; a step     *)
(* takes it and puts the tasks it consists of in its place.                *)
(*                                                                         *)
(* Every node is in one clk (NodesFitInClk of HlsScheduler), so the parts  *)
(* of nodes (HlsNetNodePartRef) do not appear.                             *)
(***************************************************************************)
EXTENDS HlsScheduler, SequencesExt

CONSTANTS
  InputIntf,    \* the interfaces which are read, the other ones are written
  IntfByName,   \* the interfaces sorted by their names
  Listed        \* the nodes of a set in the order of the lists they are in:
                \* the inputs of a node, the users of an output, hls.nodes

ASSUME ArchElementsAssumption ==
  /\ InputIntf \subseteq Intf
  /\ IntfByName \in Seq(Intf)
  /\ ToSet(IntfByName) = Intf /\ Len(IntfByName) = Cardinality(Intf)
  /\ Listed \in [SUBSET Node -> Seq(Node)]
  /\ \A S \in SUBSET Node : ToSet(Listed[S]) = S /\ Len(Listed[S]) = Cardinality(S)

\* A write has an output for the ordering only.
ASSUME WriteAssumption ==
  \A g \in Netlists : \A n \in Node : \A d \in g.dataDeps[n] :
    g.kind[d] = "io" => g.intf[d] \in InputIntf

VARIABLES
  allocPhase,     \* how far allocate() is
  todo,           \* what is left to do in this phase
  archElements,   \* HlsAllocator._archElements
  element,        \* the IoFsm or the pipeline that is being collected
  alreadyUsed     \* the nodes which were tied with an access

elementVars == <<archElements, element, alreadyUsed>>

NextIs(step) ==
  /\ allocPhase \in {"fsms", "pipelines", "analyze", "build"}
  /\ todo # <<>>
  /\ Head(todo).step = step

Continue(tasks) ==
  /\ todo' = tasks \o Tail(todo)
  /\ UNCHANGED allocPhase

\* An exception ends allocate().
Fail(error) ==
  /\ allocPhase' = error
  /\ UNCHANGED todo

-----------------------------------------------------------------------------
IsRead(n)  == net.kind[n] = "io" /\ net.intf[n] \in InputIntf
IsWrite(n) == net.kind[n] = "io" /\ net.intf[n] \notin InputIntf

InClk(n)  == start_clk(IF Deps(n) = {} THEN scheduledOut[n] ELSE scheduledIn[n])
OutClk(n) == start_clk(scheduledOut[n])

\* HlsPipeline.iterAllNodes
iterAllNodes ==
  Listed[{n \in Node : IsRead(n)}]
    \o Listed[{n \in Node : ~ IsRead(n) /\ ~ IsWrite(n)}]
    \o Listed[{n \in Node : IsWrite(n)}]

\* HlsNetlistAnalysisPassDiscoverIo.io_by_interface
io_by_interface(i) == {n \in OfKind("io") : net.intf[n] = i}
AccessedRepeatedly(i) == Cardinality(io_by_interface(i)) > 1

ExcludeOtherIoWithOwnFsm(n) == ~ (net.kind[n] = "io" /\ AccessedRepeatedly(net.intf[n]))

NoElement == [fsm |-> TRUE, clks |-> <<>>, nodes |-> <<>>]

Discover ==
  /\ phase = "done"
  /\ allocPhase = "idle"
  /\ allocPhase' = "fsms"
  /\ todo' = [i \in DOMAIN IntfByName |-> [step |-> "interface", intf |-> IntfByName[i]]]
  /\ UNCHANGED elementVars

-----------------------------------------------------------------------------
\* HlsNetlistAnalysisPassDiscoverFsm

DiscoverFsm ==
  /\ NextIs("interface")
  /\ Continue(IF AccessedRepeatedly(Head(todo).intf)
              THEN <<[step |-> "accesses", nodes |-> io_by_interface(Head(todo).intf)]>>
              ELSE <<>>)
  /\ element' = NoElement
  /\ UNCHANGED <<archElements, alreadyUsed>>

\* The accesses are sorted by their times.
FirstOf(accesses) ==
  Head(Listed[{a \in accesses : \A b \in accesses : scheduledOut[a] <= scheduledOut[b]}])

AddState(fsm, clk_i) ==
  IF clk_i \in ToSet(fsm.clks) THEN fsm
  ELSE [fsm EXCEPT !.clks = Append(@, clk_i), !.nodes = Append(@, <<>>)]

DiscoverState ==
  /\ NextIs("accesses")
  /\ Head(todo).nodes # {}
  /\ LET a == FirstOf(Head(todo).nodes)
     IN  /\ element' = AddState(element, OutClk(a))
         /\ Continue(<<[step |-> "flood", node |-> a, clk |-> OutClk(a)],
                       [step |-> "accesses", nodes |-> Head(todo).nodes \ {a}]>>)
  /\ UNCHANGED <<archElements, alreadyUsed>>

\* Where the flood continues from n: its dependencies, then its users.
TiedWith(n, clk_i) ==
  Listed[{d \in Deps(n) : OutClk(d) = clk_i /\ ExcludeOtherIoWithOwnFsm(d)}]
    \o Listed[{u \in Users(n) : InClk(u) = clk_i /\ ExcludeOtherIoWithOwnFsm(u)}]

AddToLast(fsm, n) == [fsm EXCEPT !.nodes[Len(fsm.nodes)] = Append(@, n)]

FloodNetInSameCycle ==
  /\ NextIs("flood")
  /\ LET n     == Head(todo).node
         clk_i == Head(todo).clk
         tied  == TiedWith(n, clk_i)
     IN  IF n \in alreadyUsed
         THEN Continue(<<>>) /\ UNCHANGED <<element, alreadyUsed>>
         ELSE /\ Continue([i \in DOMAIN tied |-> [step |-> "flood", node |-> tied[i], clk |-> clk_i]])
              /\ element' = AddToLast(element, n)
              /\ alreadyUsed' = alreadyUsed \cup {n}
  /\ UNCHANGED archElements

\* An FSM with a single state is forgotten, but its nodes stay used.
FsmDiscovered ==
  /\ NextIs("accesses")
  /\ Head(todo).nodes = {}
  /\ Continue(<<>>)
  /\ archElements' = IF Len(element.clks) > 1 THEN Append(archElements, element) ELSE archElements
  /\ UNCHANGED <<element, alreadyUsed>>

-----------------------------------------------------------------------------
\* HlsNetlistAnalysisPassDiscoverPipelines

NodesOf(elm) == UNION {ToSet(elm.nodes[s]) : s \in DOMAIN elm.nodes}
IsOwner(e, n) == n \in NodesOf(archElements[e])

FsmsDiscovered ==
  /\ allocPhase = "fsms"
  /\ todo = <<>>
  /\ allocPhase' = "pipelines"
  /\ todo' = [i \in DOMAIN iterAllNodes |-> [step |-> "netlist", node |-> iterAllNodes[i]]]
  /\ element' = [NoElement EXCEPT !.fsm = FALSE]
  /\ UNCHANGED <<archElements, alreadyUsed>>

\* An access outside of FSMs must not need one.
AccessedInOneClk(n) ==
  net.kind[n] = "io" => \A a \in io_by_interface(net.intf[n]) : OutClk(a) = OutClk(n)

\* _addNodeToPipeline: the stages up to the one of the clk are there.
AddToStage(pipeline, clk_i, n) ==
  LET stages == 1..(IF clk_i < Len(pipeline.nodes) THEN Len(pipeline.nodes) ELSE clk_i + 1)
      old(s) == IF s \in DOMAIN pipeline.nodes THEN pipeline.nodes[s] ELSE <<>>
  IN  [ fsm   |-> FALSE,
        clks  |-> [s \in stages |-> s - 1],
        nodes |-> [s \in stages |-> IF s = clk_i + 1 THEN Append(old(s), n) ELSE old(s)] ]

AddNodeToPipeline ==
  /\ NextIs("netlist")
  /\ LET n == Head(todo).node
     IN  IF \E e \in DOMAIN archElements : IsOwner(e, n)
         THEN Continue(<<>>) /\ UNCHANGED element
         ELSE IF ~ AccessedInOneClk(n)
         THEN Fail("AssertionError") /\ UNCHANGED element
         ELSE Continue(<<>>) /\ element' = AddToStage(element, InClk(n), n)
  /\ UNCHANGED <<archElements, alreadyUsed>>

PipelineDiscovered ==
  /\ allocPhase = "pipelines"
  /\ todo = <<>>
  /\ allocPhase' = "elements"
  /\ archElements' = IF element.nodes = <<>> THEN archElements ELSE Append(archElements, element)
  /\ UNCHANGED <<todo, element, alreadyUsed>>

-----------------------------------------------------------------------------
\* The loops over the elements, over their stages or states, and over the
\* nodes in them; the body of the innermost one depends on the phase.

OfElements == [e \in DOMAIN archElements |-> [step |-> "element", elm |-> e]]

LoopOverStages ==
  /\ NextIs("element")
  /\ LET e == Head(todo).elm
     IN  Continue([s \in DOMAIN archElements[e].nodes |-> [step |-> "stage", elm |-> e, stage |-> s]])
  /\ UNCHANGED elementVars

LoopOverNodes ==
  /\ NextIs("stage")
  /\ LET e     == Head(todo).elm
         nodes == archElements[e].nodes[Head(todo).stage]
     IN  Continue([i \in DOMAIN nodes |->
                     [step |-> IF allocPhase = "analyze" THEN "inputs" ELSE "node",
                      elm |-> e, node |-> nodes[i]]])
  /\ UNCHANGED elementVars

NextElements ==
  \/ Discover
  \/ DiscoverFsm \/ DiscoverState \/ FloodNetInSameCycle \/ FsmDiscovered
  \/ FsmsDiscovered \/ AddNodeToPipeline \/ PipelineDiscovered
  \/ LoopOverStages \/ LoopOverNodes

=============================================================================
