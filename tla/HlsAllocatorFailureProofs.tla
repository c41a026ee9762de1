--------------------- MODULE HlsAllocatorFailureProofs ---------------------
(***************************************************************************)
(* Where allocate() fails (HlsAllocator with ArchElements), for every      *)
(* netlist and every schedule of it.                                       *)
(*                                                                         *)
(* SplitNeverFails: not before the nodes are built.  The discovery of the  *)
(* FSMs and of the pipeline takes the nodes apart with a set of what was   *)
(* taken, and an assertion at the end of it relies on the accesses of an   *)
(* interface not being left outside of FSMs.  The invariant (SplitInv)     *)
(* follows an interface from the list of interfaces, through the accesses  *)
(* still to be visited and the flood from each of them, to the FSM, or to  *)
(* the one clk all of its accesses are in.                                 *)
(*                                                                         *)
(* FailuresHaveCause: and then only on the netlists AllocationRejected     *)
(* names.  On all others (Good) each step that can fail finds what it      *)
(* needs, and the invariant (FailureInv) says that it will: an element     *)
(* builds its own nodes, from values that come to it; a value is made      *)
(* before it is taken, and is not taken before it is registered; its chain *)
(* has a stage in each of its clks, for a pipeline has all stages up to    *)
(* its last one and an FSM has its states; a value that is handed over is  *)
(* there and lasts until then, or the call that makes it last comes first. *)
(***************************************************************************)
EXTENDS HlsAllocatorRegisterProofs

-----------------------------------------------------------------------------
\* What schedule() hands over.

\* The final schedule has every node in one clk, and no node before its inputs.
ScheduleOK ==
  phase = "done" =>
    \A n \in Node : /\ FitsInClk(n) /\ scheduledIn[n] <= scheduledOut[n]
                    /\ \A d \in Deps(n) : scheduledOut[d] <= scheduledIn[n]

\* The scheduler guarantees it.
LEMMA ScheduleIsOK == HlsSpec => []ScheduleOK
<1>1. IInv => ScheduleOK
  <2> SUFFICES ASSUME IInv, phase = "done"
               PROVE  ScheduleOK
    BY DEF ScheduleOK
  <2>1. scheduled = Node /\ \A n \in Node : Deps(n) \subseteq Node
    BY NetlistFields DEF IInv, ScheduledClosed
  <2>2. \A n \in Node : \A d \in Deps(n) : scheduledIn[n] >= scheduledOut[d]
    BY <2>1 DEF IInv, EdgesOrdered
  <2>3. \A n \in Node : FitsInClk(n) /\ scheduledIn[n] <= scheduledOut[n]
    BY <2>1 DEF IInv, NodesFitInClk, NeverBackwards
  <2>4. \A n \in Node : scheduledIn[n] \in Int /\ scheduledOut[n] \in Int
    BY DEF IInv, TypeOK
  <2>5. QED
    BY <2>1, <2>2, <2>3, <2>4 DEF ScheduleOK
<1>2. Spec => []ScheduleOK
  BY <1>1, InitInv, NextInv, PTL DEF Spec
<1>3. QED
  BY <1>2, ScheduleAlone, PTL

\* A later time is not in an earlier clk.
LEMMA EarlierInClk ==
  ASSUME NEW a \in Int, NEW b \in Int, a <= b
  PROVE  start_clk(a) <= start_clk(b)
  BY SchedulerAssumption, SMTT(30) DEF start_clk

\* A node starts and ends in one clk, which is not before that of its inputs.
LEMMA ClksOrdered ==
  ASSUME AllocInput, ScheduleOK, phase = "done", NEW n \in Node
  PROVE  /\ InClk(n) = OutClk(n) /\ start_clk(scheduledIn[n]) = OutClk(n) /\ OutClk(n) \in Nat
         /\ \A d \in Deps(n) : d \in Node /\ OutClk(d) <= OutClk(n)
<1>1. FitsInClk(n) /\ scheduledIn[n] \in Nat /\ scheduledOut[n] \in Nat
  BY DEF AllocInput, ScheduleOK
<1>2. start_clk(scheduledIn[n]) = OutClk(n) /\ InClk(n) = OutClk(n) /\ OutClk(n) \in Nat
  BY <1>1, ClkOfNat DEF FitsInClk, InClk, OutClk
<1>3. ASSUME NEW d \in Deps(n)
      PROVE  d \in Node /\ OutClk(d) <= OutClk(n)
  <2>1. d \in Node /\ scheduledOut[d] \in Nat /\ scheduledOut[d] <= scheduledIn[n]
    BY NetFacts DEF AllocInput, ScheduleOK
  <2>2. start_clk(scheduledOut[d]) <= start_clk(scheduledIn[n])
    BY <1>1, <2>1, EarlierInClk
  <2>3. QED
    BY <1>2, <2>1, <2>2 DEF OutClk
<1>4. QED
  BY <1>2, <1>3

-----------------------------------------------------------------------------
\* The elements while nodes are added to them.

\* The nodes of an element are those of its stages.
LEMMA NodeOfElement ==
  ASSUME NEW elm, NEW n
  PROVE  n \in NodesOf(elm) <=> \E s \in DOMAIN elm.nodes : n \in ToSet(elm.nodes[s])
  BY DEF NodesOf

\* A new state has no nodes yet.
LEMMA AddStateNodes ==
  ASSUME NEW fsm \in ElementType, NEW k \in Int, Len(fsm.clks) = Len(fsm.nodes)
  PROVE  LET new == AddState(fsm, k)
         IN  /\ NodesOf(new) = NodesOf(fsm) /\ new.fsm = fsm.fsm
             /\ ToSet(new.clks) = ToSet(fsm.clks) \cup {k}
             /\ Len(new.clks) = Len(new.nodes)
<1> DEFINE q == fsm.nodes
           r == Append(q, <<>>)
<1>1. fsm.clks \in Seq(Int) /\ q \in Seq(Seq(Node)) /\ <<>> \in Seq(Node)
  BY DEF ElementType
<1>2. CASE k \in ToSet(fsm.clks)
  BY <1>2 DEF AddState
<1>3. CASE k \notin ToSet(fsm.clks)
  <2>1. AddState(fsm, k) = [fsm |-> fsm.fsm, clks |-> Append(fsm.clks, k), nodes |-> r]
    BY <1>3 DEF AddState, ElementType
  <2>2. /\ DOMAIN q = 1..Len(q) /\ Len(q) \in Nat
        /\ DOMAIN r = 1..(Len(q) + 1) /\ r[Len(q) + 1] = <<>> /\ Len(r) = Len(q) + 1
        /\ \A s \in DOMAIN q : r[s] = q[s]
    BY <1>1
  <2>3. Len(Append(fsm.clks, k)) = Len(fsm.clks) + 1
    BY <1>1
  <2>4. ToSet(Append(fsm.clks, k)) = ToSet(fsm.clks) \cup {k}
    BY <1>1, AddedToSeq
  <2> DEFINE new == AddState(fsm, k)
  <2>5. /\ new.nodes = r /\ new.clks = Append(fsm.clks, k) /\ new.fsm = fsm.fsm
    BY <2>1
  <2> HIDE DEF new, r
  <2>6. ASSUME NEW n
        PROVE  n \in NodesOf(new) <=> n \in NodesOf(fsm)
    <3>1. n \in NodesOf(new) <=> \E s \in DOMAIN r : n \in ToSet(r[s])
      BY <2>5, NodeOfElement
    <3>2. n \in NodesOf(fsm) <=> \E s \in DOMAIN q : n \in ToSet(q[s])
      BY NodeOfElement
    <3>3. \A s \in DOMAIN r : s \in DOMAIN q \/ r[s] = <<>>
      BY <2>2
    <3>4. n \notin ToSet(<<>>)
      BY NoTask
    <3>5. DOMAIN q \subseteq DOMAIN r
      BY <2>2
    <3>6. QED
      BY <2>2, <3>1, <3>2, <3>3, <3>4, <3>5
  <2>7. QED
    BY <1>1, <2>2, <2>3, <2>4, <2>5, <2>6 DEF new
<1>4. QED
  BY <1>2, <1>3

\* The last state gets one node more.
LEMMA AddToLastNodes ==
  ASSUME NEW fsm \in ElementType, NEW n \in Node, fsm.nodes # <<>>
  PROVE  LET new == AddToLast(fsm, n)
         IN  /\ NodesOf(new) = NodesOf(fsm) \cup {n} /\ new.fsm = fsm.fsm
             /\ new.clks = fsm.clks /\ Len(new.nodes) = Len(fsm.nodes)
<1> DEFINE q == fsm.nodes
           l == Len(q)
           r == [q EXCEPT ![l] = Append(q[l], n)]
           new == AddToLast(fsm, n)
<1>1. q \in Seq(Seq(Node)) /\ l \in Nat \ {0} /\ DOMAIN q = 1..l /\ l \in 1..l
  BY DEF ElementType
<1>2. /\ DOMAIN r = DOMAIN q /\ r[l] = Append(q[l], n)
      /\ \A s \in DOMAIN q : s # l => r[s] = q[s]
  BY <1>1
<1>3. r \in Seq(Seq(Node)) /\ Len(r) = l
  <2>1. Append(q[l], n) \in Seq(Node)
    BY <1>1
  <2>2. QED
    BY <1>1, <2>1
<1>4. AddToLast(fsm, n) = [fsm EXCEPT !.nodes = r]
  BY <1>1 DEF AddToLast, ElementType
<1>5. new.nodes = r /\ new.clks = fsm.clks /\ new.fsm = fsm.fsm
  BY <1>4 DEF ElementType
<1>6. ToSet(r[l]) = ToSet(q[l]) \cup {n}
  BY <1>1, <1>2, AddedToSeq
<1> HIDE DEF r, new
<1>7. ASSUME NEW m
      PROVE  m \in NodesOf(new) <=> m \in NodesOf(fsm) \cup {n}
  <2>1. m \in NodesOf(new) <=> \E s \in DOMAIN r : m \in ToSet(r[s])
    BY <1>5, NodeOfElement
  <2>2. m \in NodesOf(fsm) <=> \E s \in DOMAIN q : m \in ToSet(q[s])
    BY NodeOfElement
  <2>3. \A s \in DOMAIN q : m \in ToSet(r[s]) <=> m \in ToSet(q[s]) \/ (s = l /\ m = n)
    BY <1>2, <1>6
  <2>4. l \in DOMAIN q
    BY <1>1
  <2>5. QED
    BY <1>2, <2>1, <2>2, <2>3, <2>4
<1>8. QED
  BY <1>3, <1>5, <1>7 DEF new

\* The stages of a pipeline are those of the clks from 0 on.
LEMMA AddToStageNodes ==
  ASSUME NEW pipeline \in ElementType, NEW k \in Nat, NEW n \in Node,
         Len(pipeline.clks) = Len(pipeline.nodes)
  PROVE  LET new == AddToStage(pipeline, k, n)
         IN  /\ NodesOf(new) = NodesOf(pipeline) \cup {n} /\ ~ new.fsm
             /\ Len(new.clks) = Len(new.nodes) /\ Len(new.clks) \in Nat
             /\ ToSet(new.clks) = 0..(Len(new.clks) - 1)
             /\ Len(pipeline.clks) <= Len(new.clks) /\ k < Len(new.clks)
<1> DEFINE q == pipeline.nodes
           l == IF k < Len(q) THEN Len(q) ELSE k + 1
           old(s) == IF s \in DOMAIN q THEN q[s] ELSE <<>>
           r == [s \in 1..l |-> IF s = k + 1 THEN Append(old(s), n) ELSE old(s)]
           c == [s \in 1..l |-> s - 1]
           new == AddToStage(pipeline, k, n)
<1>1. q \in Seq(Seq(Node)) /\ Len(q) \in Nat /\ DOMAIN q = 1..Len(q)
  BY DEF ElementType
<1>2. l \in Nat /\ k + 1 \in 1..l /\ DOMAIN q \subseteq 1..l /\ Len(q) <= l /\ k < l
  BY <1>1
<1>3. \A s : old(s) \in Seq(Node)
  <2>1. <<>> \in Seq(Node)
    OBVIOUS
  <2>2. QED
    BY <1>1, <2>1
<1>4. new = [fsm |-> FALSE, clks |-> c, nodes |-> r]
  BY DEF AddToStage
<1> HIDE DEF l
<1>5. \A s \in 1..l : ToSet(r[s]) = ToSet(old(s)) \cup (IF s = k + 1 THEN {n} ELSE {})
  <2> HIDE DEF old
  <2>1. \A s : ToSet(Append(old(s), n)) = ToSet(old(s)) \cup {n}
    BY <1>3, AddedToSeq
  <2>2. QED
    BY <2>1
<1>6. /\ Len(c) = l /\ Len(r) = l /\ DOMAIN r = 1..l
      /\ ToSet(c) = 0..(l - 1)
  <2>1. Len(c) = l /\ DOMAIN c = 1..l /\ Len(r) = l /\ DOMAIN r = 1..l
    BY <1>2
  <2>2. \A x \in 0..(l - 1) : x + 1 \in 1..l /\ c[x + 1] = x
    BY <1>2
  <2>3. \A s \in 1..l : c[s] \in 0..(l - 1)
    BY <1>2
  <2> HIDE DEF c
  <2>4. \A x \in 0..(l - 1) : x \in ToSet(c)
    BY <2>1, <2>2 DEF ToSet
  <2>5. \A x \in ToSet(c) : x \in 0..(l - 1)
    BY <2>1, <2>3 DEF ToSet
  <2>6. ToSet(c) = 0..(l - 1)
    BY <2>4, <2>5
  <2>7. QED
    BY <2>1, <2>6
<1>7. new.nodes = r /\ new.clks = c /\ new.fsm = FALSE
  BY <1>4
<1> HIDE DEF r, new, c
<1>8. ASSUME NEW m
      PROVE  m \in NodesOf(new) <=> m \in NodesOf(pipeline) \cup {n}
  <2>1. m \in NodesOf(new) <=> \E s \in 1..l : m \in ToSet(r[s])
    BY <1>6, <1>7, NodeOfElement
  <2>2. m \in NodesOf(pipeline) <=> \E s \in DOMAIN q : m \in ToSet(q[s])
    BY NodeOfElement
  <2>3. \A s : m \in ToSet(old(s)) <=> s \in DOMAIN q /\ m \in ToSet(q[s])
    BY NoTask
  <2> HIDE DEF old
  <2>4. \A s \in 1..l : m \in ToSet(r[s]) <=> m \in ToSet(old(s)) \/ (s = k + 1 /\ m = n)
    BY <1>5
  <2>5. QED
    BY <1>2, <2>1, <2>2, <2>3, <2>4
<1>9. QED
  BY <1>2, <1>6, <1>7, <1>8 DEF new

-----------------------------------------------------------------------------
\* How the netlist is split.

\* Each node of an element is in a clk of it; a pipeline has all clks from 0 on.
WellSplit(elm) ==
  /\ Len(elm.clks) = Len(elm.nodes)
  /\ \A n \in NodesOf(elm) : OutClk(n) \in ToSet(elm.clks)
  /\ ~ elm.fsm => ToSet(elm.clks) = 0..(Len(elm.clks) - 1)

\* The nodes of the element that is collected are not in another one.
IsApart(elm) == \A e \in DOMAIN archElements : \A n \in NodesOf(elm) : ~ IsOwner(e, n)

\* The elements are disjoint, and each has a stage for its nodes.
ElementsOK ==
  /\ allocPhase = "idle" => archElements = <<>> /\ alreadyUsed = {}
  /\ EachNodeInOneElement
  /\ \A e \in DOMAIN archElements : WellSplit(archElements[e])

\* The accesses of an FSM are being collected.
Collecting == \E t \in Tasks : t.step = "accesses"

\* The flood from an access is done before the next one, and that before the next
\* interface.
FloodsFirst ==
  \A i, j \in DOMAIN todo :
    i < j /\ todo[j].step \in {"flood", "accesses"} => todo[i].step = "flood"

\* What an FSM takes was not taken before, and is in one of its clks.
FsmsOK ==
  allocPhase = "fsms" =>
    /\ FloodsFirst
    /\ \A e \in DOMAIN archElements : NodesOf(archElements[e]) \subseteq alreadyUsed
    /\ Collecting =>
         /\ WellSplit(element) /\ element.fsm /\ IsApart(element)
         /\ NodesOf(element) \subseteq alreadyUsed
    /\ \A t \in Tasks : t.step = "flood" =>
         Collecting /\ OutClk(t.node) = t.clk /\ t.clk \in ToSet(element.clks)

\* The nodes of the pipeline are those which are in no FSM.
PipelineOK ==
  allocPhase = "pipelines" => WellSplit(element) /\ ~ element.fsm /\ IsApart(element)

\* An interface needs no FSM, or its accesses are in FSMs.
Settled(i) ==
  \/ \A a \in io_by_interface(i) : \E e \in DOMAIN archElements : IsOwner(e, a)
  \/ \A a, b \in io_by_interface(i) : OutClk(a) = OutClk(b)

\* The accesses of the interface are in the FSM that is collected, or come to it.
Comes(i, t) ==
  \A a \in io_by_interface(i) :
    \/ a \in t.nodes
    \/ \E f \in Tasks : f.step = "flood" /\ f.node = a
    \/ a \in NodesOf(element)

\* The interface is done, or it is its turn.
Handled(i) == Settled(i) \/ \E t \in Tasks : t.step = "accesses" /\ Comes(i, t)

\* The access is one of several of its interface.
IsRepeated(a) == net.kind[a] = "io" /\ AccessedRepeatedly(net.intf[a])

\* Every interface with several accesses is handled or comes to be; a flood never
\* takes an access of another interface.
InterfacesOK ==
  /\ allocPhase = "fsms" =>
       /\ \A i \in Intf : AccessedRepeatedly(i) =>
            Handled(i) \/ \E t \in Tasks : t.step = "interface" /\ t.intf = i
       /\ \A t \in Tasks : t.step = "accesses" =>
            \A a \in t.nodes : IsRepeated(a) /\ Handled(net.intf[a])
       /\ \A t \in Tasks : t.step = "flood" /\ IsRepeated(t.node) => Handled(net.intf[t.node])
       /\ \A a \in alreadyUsed : IsRepeated(a) =>
            /\ Handled(net.intf[a])
            /\ Settled(net.intf[a]) \/ (Collecting /\ a \in NodesOf(element))
  /\ allocPhase = "pipelines" => \A i \in Intf : AccessedRepeatedly(i) => Settled(i)

\* The invariant of the split
SplitInv == ElementsOK /\ FsmsOK /\ PipelineOK /\ InterfacesOK

-----------------------------------------------------------------------------
\* The steps by which the netlist is split.

\* What these steps rely on
SplitInput == AllocInput /\ AllocOK /\ ScheduleOK

\* The elements and the tasks of the split change by its own steps only.
LEMMA ElementSteps ==
  ASSUME AllocInput, AllocOK, [HlsNext]_hlsVars
  PROVE  /\ allocPhase' # "idle" => UNCHANGED <<net, scheduledIn, scheduledOut>>
         /\ \/ Discover \/ DiscoverFsm \/ DiscoverState \/ FloodNetInSameCycle \/ FsmDiscovered
            \/ FsmsDiscovered \/ AddNodeToPipeline \/ PipelineDiscovered
            \/ /\ UNCHANGED elementVars
               /\ \/ UNCHANGED <<allocPhase, todo>>
                  \/ allocPhase' \notin {"idle", "fsms", "pipelines"}
<1>1. TodoOK
  BY DEF AllocOK
<1>2. ASSUME NEW step, NextIs(step),
             step \notin {"interface", "accesses", "flood", "netlist"},
             allocPhase' = allocPhase \/ AllocFailed'
      PROVE  allocPhase' \notin {"idle", "fsms", "pipelines"}
  BY <1>1, <1>2, HeadIs DEF StepsIn, AllocFailed, NextIs
<1>3. ASSUME LoopOverStages \/ LoopOverNodes
      PROVE  UNCHANGED elementVars /\ allocPhase' \notin {"idle", "fsms", "pipelines"}
  <2>1. CASE LoopOverStages
    BY <1>2, <2>1 DEF LoopOverStages, Continue
  <2>2. CASE LoopOverNodes
    BY <1>2, <2>2 DEF LoopOverNodes, Continue
  <2>3. QED
    BY <1>3, <2>1, <2>2
<1>4. ASSUME NextDatapath
      PROVE  allocPhase' \notin {"idle", "fsms", "pipelines"}
  BY <1>2, <1>4, DatapathPhase
<1>5. ASSUME NextSharing
      PROVE  UNCHANGED elementVars /\ allocPhase' \notin {"idle", "fsms", "pipelines"}
  <2>1. CASE AnalyzeSharing \/ Declare \/ AllocateSync
    BY <2>1 DEF AnalyzeSharing, Declare, AllocateSync, Fail
  <2>2. CASE CheckInputs \/ CheckInputDriver \/ Connect \/ MakeValid \/ ConnectSync
    <3>1. UNCHANGED elementVars
      BY <2>2 DEF CheckInputs, CheckInputDriver, Connect, MakeValid, ExtendValidity, ConnectSync
    <3>2. QED
      BY <1>2, <2>2, <3>1, SharingPhase
  <2>3. QED
    BY <1>5, <2>1, <2>2 DEF NextSharing
<1>6. CASE UNCHANGED hlsVars \/ Scheduling
  <2>1. UNCHANGED allocVars
    BY <1>6 DEF hlsVars, Scheduling
  <2>2. UNCHANGED elementVars /\ UNCHANGED <<allocPhase, todo>>
    BY <2>1 DEF allocVars, elementVars
  <2>3. allocPhase' # "idle" => UNCHANGED <<net, scheduledIn, scheduledOut>>
    BY <1>6, <2>2, ScheduleNotDone DEF Scheduling, AllocOK, hlsVars, vars
  <2>4. QED
    BY <2>2, <2>3
<1>7. CASE NextAllocator /\ UNCHANGED vars
  BY <1>3, <1>4, <1>5, <1>7 DEF NextAllocator, NextElements, vars
<1>8. QED
  BY <1>6, <1>7 DEF HlsNext, HlsTerminated

\* What is read off the netlist while it is split.
LEMMA StaticSplit ==
  ASSUME UNCHANGED <<net, scheduledIn, scheduledOut>>
  PROVE  /\ \A i : io_by_interface(i)' = io_by_interface(i)
         /\ \A i : AccessedRepeatedly(i)' <=> AccessedRepeatedly(i)
         /\ \A n : IsRepeated(n)' <=> IsRepeated(n)
         /\ \A n : OutClk(n)' = OutClk(n)
         /\ \A elm : WellSplit(elm)' <=> WellSplit(elm)
<1>1. \A n : OutClk(n)' = OutClk(n)
  BY StaticNet
<1>2. \A i : io_by_interface(i)' = io_by_interface(i)
  BY DEF io_by_interface, OfKind
<1>3. \A i : AccessedRepeatedly(i)' <=> AccessedRepeatedly(i)
  BY <1>2 DEF AccessedRepeatedly
<1>4. \A elm : NodesOf(elm)' = NodesOf(elm)
  BY DEF NodesOf
<1>5. QED
  BY <1>1, <1>2, <1>3, <1>4 DEF IsRepeated, WellSplit

\* The access of a repeated interface, and the interface.
LEMMA RepeatedAccess ==
  ASSUME AllocInput
  PROVE  /\ \A i, a : a \in io_by_interface(i) =>
              a \in Node /\ net.intf[a] = i /\ (AccessedRepeatedly(i) <=> IsRepeated(a))
         /\ \A a \in Node : net.kind[a] = "io" => a \in io_by_interface(net.intf[a])
         /\ \A a \in Node : net.intf[a] \in Intf
<1>1. \A i, a : a \in io_by_interface(i) <=> a \in Node /\ net.kind[a] = "io" /\ net.intf[a] = i
  BY DEF io_by_interface, OfKind
<1>2. net \in NetlistType
  BY DEF AllocInput, TypeOK
<1>3. QED
  BY <1>1, <1>2 DEF IsRepeated, NetlistType

\* A task is put in the place of the first one, or it stays, and only the first
\* one is taken.
LEMMA PlacedBy ==
  ASSUME TodoOK, todo # <<>>, NEW s, IsSeq(s), Continue(s)
  PROVE  /\ Tasks' = ToSet(s) \cup ToSet(Tail(todo))
         /\ Tasks = {Head(todo)} \cup ToSet(Tail(todo))
         /\ todo' = s \o Tail(todo) /\ allocPhase' = allocPhase
  BY Continued DEF TodoOK, Continue

\* When the first task is not one of a flood, none of the other ones is, and none of
\* them collects an FSM.
LEMMA NoFloodBehind ==
  ASSUME TodoOK, FloodsFirst, todo # <<>>, Head(todo).step # "flood"
  PROVE  \A t \in ToSet(Tail(todo)) : t.step \notin {"flood", "accesses"}
<1> SUFFICES ASSUME NEW t \in ToSet(Tail(todo)), t.step \in {"flood", "accesses"}
             PROVE  FALSE
  OBVIOUS
<1>1. IsSeq(todo)
  BY DEF TodoOK
<1>2. PICK i \in DOMAIN Tail(todo) : t = Tail(todo)[i]
  BY DEF ToSet
<1>3. /\ 1 \in DOMAIN todo /\ todo[1] = Head(todo)
      /\ i + 1 \in DOMAIN todo /\ todo[i + 1] = t /\ i + 1 \in Nat \ {0} /\ i \in Nat \ {0}
  BY <1>1, <1>2, RestAt
<1>4. QED
  BY <1>3 DEF FloodsFirst

\* The floods stay first when the first task is replaced by floods, or by tasks of
\* which only the last one is none, while no flood and no FSM is behind them.
LEMMA FloodsStayFirst ==
  ASSUME TodoOK, FloodsFirst, todo # <<>>, NEW s, IsSeq(s), todo' = s \o Tail(todo),
         \A i, j \in DOMAIN s : i < j => s[i].step = "flood",
         \/ \A t \in ToSet(s) : t.step = "flood"
         \/ \A t \in ToSet(Tail(todo)) : t.step \notin {"flood", "accesses"}
  PROVE  FloodsFirst'
<1> DEFINE r == Tail(todo)
           q == s \o r
<1>1. IsSeq(todo) /\ IsSeq(r)
  BY RestAt DEF TodoOK
<1>2. \A k, l \in DOMAIN r : k < l /\ r[l].step \in {"flood", "accesses"} => r[k].step = "flood"
  <2> SUFFICES ASSUME NEW k \in DOMAIN r, NEW l \in DOMAIN r, k < l,
                      r[l].step \in {"flood", "accesses"}
               PROVE  r[k].step = "flood"
    OBVIOUS
  <2>1. /\ k + 1 \in DOMAIN todo /\ todo[k + 1] = r[k] /\ l + 1 \in DOMAIN todo
        /\ todo[l + 1] = r[l] /\ k \in Int /\ l \in Int
    BY <1>1, RestAt, JoinedAt
  <2>2. k + 1 < l + 1
    BY <2>1
  <2>3. QED
    BY <2>1, <2>2 DEF FloodsFirst
<1> HIDE DEF r, q
<1>3. ASSUME NEW i \in DOMAIN q, NEW j \in DOMAIN q, i < j, q[j].step \in {"flood", "accesses"}
      PROVE  q[i].step = "flood"
  <2>1. CASE i \in DOMAIN s /\ j \in DOMAIN s /\ q[i] = s[i] /\ q[j] = s[j]
    BY <1>3, <2>1
  <2>2. CASE q[i] \in ToSet(s) /\ q[j] \in ToSet(r)
    BY <1>3, <2>2 DEF r
  <2>3. CASE \E k, l \in DOMAIN r : k < l /\ q[i] = r[k] /\ q[j] = r[l]
    BY <1>2, <1>3, <2>3
  <2>4. \/ i \in DOMAIN s /\ j \in DOMAIN s /\ q[i] = s[i] /\ q[j] = s[j]
        \/ q[i] \in ToSet(s) /\ q[j] \in ToSet(r)
        \/ \E k, l \in DOMAIN r : k < l /\ q[i] = r[k] /\ q[j] = r[l]
    <3>1. i \in DOMAIN (s \o r) /\ j \in DOMAIN (s \o r)
      BY DEF q
    <3>2. QED
      BY <1>1, <1>3, <3>1, JoinedPair DEF q
  <2>5. QED
    BY <2>1, <2>2, <2>3, <2>4
<1>4. QED
  BY <1>3 DEF FloodsFirst, q, r

-----------------------------------------------------------------------------
\* No node is taken by two FSMs.

\* The elements which are there stay as they are.
LEMMA ElementsStay ==
  ASSUME UNCHANGED <<net, scheduledIn, scheduledOut, archElements>>, allocPhase' # "idle",
         ElementsOK
  PROVE  /\ ElementsOK'
         /\ \A i : Settled(i)' <=> Settled(i)
<1>1. \A e, n : IsOwner(e, n)' <=> IsOwner(e, n)
  BY StaticOwner
<1>2. \A i : Settled(i)' <=> Settled(i)
  BY <1>1, StaticSplit DEF Settled
<1>3. EachNodeInOneElement'
  BY <1>1 DEF ElementsOK, EachNodeInOneElement
<1>4. \A e \in DOMAIN archElements' : WellSplit(archElements[e])'
  BY StaticSplit DEF ElementsOK
<1>5. \A elm : WellSplit(elm)' <=> WellSplit(elm)
  BY StaticSplit
<1>6. QED
  BY <1>2, <1>3, <1>4 DEF ElementsOK, WellSplit, NodesOf

\* One more element, which is apart from the others.
LEMMA ElementAdded ==
  ASSUME AllocOK, UNCHANGED <<net, scheduledIn, scheduledOut>>, allocPhase' # "idle",
         ElementsOK, WellSplit(element), IsApart(element),
         archElements' = Append(archElements, element)
  PROVE  /\ ElementsOK'
         /\ \A i : Settled(i) => Settled(i)'
         /\ \A i : (\A a \in io_by_interface(i) : a \in NodesOf(element)) => Settled(i)'
         /\ \A e \in DOMAIN archElements' :
              NodesOf(archElements'[e]) = NodesOf(element)
              \/ (e \in DOMAIN archElements /\ archElements'[e] = archElements[e])
<1>1. PICK l :
        /\ DOMAIN archElements' = DOMAIN archElements \cup {l} /\ l \notin DOMAIN archElements
        /\ archElements'[l] = element
        /\ \A e \in DOMAIN archElements : archElements'[e] = archElements[e]
  <2> DEFINE l == Len(archElements) + 1
  <2>1. /\ DOMAIN archElements' = DOMAIN archElements \cup {l} /\ l \notin DOMAIN archElements
        /\ archElements'[l] = element
        /\ \A e \in DOMAIN archElements : archElements'[e] = archElements[e]
    BY DEF AllocOK
  <2> HIDE DEF l
  <2>2. QED
    BY <2>1
<1>2. /\ \A e, n : IsOwner(e, n)' <=> n \in NodesOf(archElements'[e])
      /\ \A e, n : IsOwner(e, n) <=> n \in NodesOf(archElements[e])
  BY DEF IsOwner, NodesOf
<1>3. /\ \A e \in DOMAIN archElements : \A n : IsOwner(e, n)' <=> IsOwner(e, n)
      /\ \A n : IsOwner(l, n)' <=> n \in NodesOf(element)
      /\ l \in DOMAIN archElements' /\ DOMAIN archElements \subseteq DOMAIN archElements'
  BY <1>1, <1>2
<1>4. \A i : Settled(i) => Settled(i)'
  BY <1>3, StaticSplit DEF Settled
<1>5. \A i : (\A a \in io_by_interface(i) : a \in NodesOf(element)) => Settled(i)'
  <2> SUFFICES ASSUME NEW i, \A a \in io_by_interface(i) : a \in NodesOf(element)
               PROVE  \A a \in io_by_interface(i) : \E e \in DOMAIN archElements' : IsOwner(e, a)'
    BY StaticSplit DEF Settled
  <2>1. QED
    BY <1>3
<1>6. EachNodeInOneElement'
  <2> SUFFICES ASSUME NEW n \in Node, NEW e \in DOMAIN archElements', NEW f \in DOMAIN archElements',
                      IsOwner(e, n)', IsOwner(f, n)'
               PROVE  e = f
    BY DEF EachNodeInOneElement
  <2>1. \A g \in DOMAIN archElements : n \in NodesOf(element) => ~ IsOwner(g, n)
    BY DEF IsApart
  <2>2. CASE e \in DOMAIN archElements /\ f \in DOMAIN archElements
    BY <1>3, <2>2 DEF ElementsOK, EachNodeInOneElement
  <2>3. CASE e = l \/ f = l
    BY <1>1, <1>3, <2>1, <2>3
  <2>4. QED
    BY <1>1, <2>2, <2>3
<1>7. \A e \in DOMAIN archElements' : WellSplit(archElements'[e])
  BY <1>1 DEF ElementsOK
<1>8. \A e \in DOMAIN archElements' : WellSplit(archElements[e])'
  BY <1>7, StaticSplit DEF WellSplit, NodesOf
<1>9. QED
  BY <1>1, <1>4, <1>5, <1>6, <1>8 DEF ElementsOK

\* What the steps of the discovery of FSMs start from
Fsms ==
  /\ SplitInput /\ SplitInv /\ allocPhase = "fsms" /\ allocPhase' = "fsms"
  /\ UNCHANGED <<net, scheduledIn, scheduledOut>>

\* The discovery begins with a task for each interface.
LEMMA DiscoverSplits ==
  ASSUME SplitInput, SplitInv, Discover, UNCHANGED <<net, scheduledIn, scheduledOut>>
  PROVE  SplitInv'
<1> DEFINE q == IntfByName
<1>1. /\ allocPhase = "idle" /\ allocPhase' = "fsms" /\ UNCHANGED elementVars
      /\ todo' = [k \in DOMAIN q |-> [step |-> "interface", intf |-> q[k]]]
  BY DEF Discover
<1>2. /\ ToSet(q) = Intf /\ DOMAIN todo' = DOMAIN q
      /\ \A k \in DOMAIN q : todo'[k].step = "interface" /\ todo'[k].intf = q[k]
  BY <1>1, ArchElementsAssumption
<1> HIDE DEF q
<1>3. /\ \A t \in Tasks' : t.step = "interface"
      /\ \A i \in Intf : \E t \in Tasks' : t.step = "interface" /\ t.intf = i
  BY <1>2 DEF Tasks, ToSet
<1>4. /\ archElements = <<>> /\ archElements' = archElements /\ alreadyUsed' = {}
  BY <1>1 DEF SplitInv, ElementsOK, elementVars
<1>5. ElementsOK'
  BY <1>1, <1>4, ElementsStay DEF SplitInv
<1>6. FsmsOK'
  BY <1>2, <1>3, <1>4 DEF FsmsOK, FloodsFirst, Collecting
<1>7. InterfacesOK'
  BY <1>1, <1>3, <1>4 DEF InterfacesOK
<1>8. QED
  BY <1>1, <1>5, <1>6, <1>7 DEF SplitInv, PipelineOK

\* A new FSM or pipeline has no states and no nodes.
LEMMA EmptyElement ==
  ASSUME NEW elm, elm \in {NoElement, [NoElement EXCEPT !.fsm = FALSE]}
  PROVE  NodesOf(elm) = {} /\ WellSplit(elm) /\ IsApart(elm) /\ (elm.fsm <=> elm = NoElement)
<1>1. elm.nodes = <<>> /\ elm.clks = <<>> /\ (elm.fsm <=> elm = NoElement)
  BY DEF NoElement
<1>2. NodesOf(elm) = {}
  BY <1>1 DEF NodesOf
<1>3. WellSplit(elm)
  <2>1. ToSet(elm.clks) = {} /\ Len(elm.clks) = 0 /\ Len(elm.nodes) = 0
    BY <1>1, NoTask
  <2>2. 0..(0 - 1) = {}
    OBVIOUS
  <2>3. QED
    BY <1>2, <2>1, <2>2 DEF WellSplit
<1>4. QED
  BY <1>1, <1>2, <1>3 DEF IsApart

\* An interface comes when no FSM is being collected: what was taken before is settled.
LEMMA InterfaceSplits ==
  ASSUME Fsms, DiscoverFsm
  PROVE  SplitInv'
<1> DEFINE h == Head(todo)
           new == [step |-> "accesses", nodes |-> io_by_interface(h.intf)]
           s == IF AccessedRepeatedly(h.intf) THEN <<new>> ELSE <<>>
<1>1. /\ h.step = "interface" /\ todo # <<>> /\ TodoOK /\ Continue(s)
      /\ element' = NoElement /\ UNCHANGED <<archElements, alreadyUsed>>
  BY DEF DiscoverFsm, NextIs, Fsms, SplitInput, AllocOK
<1>2. IsSeq(s) /\ ToSet(s) = (IF AccessedRepeatedly(h.intf) THEN {new} ELSE {})
      /\ DOMAIN s \subseteq {1}
  <2> HIDE DEF new
  <2>1. CASE AccessedRepeatedly(h.intf)
    BY <2>1, OneTask
  <2>2. CASE ~ AccessedRepeatedly(h.intf)
    BY <2>2, NoTask
  <2>3. QED
    BY <2>1, <2>2
<1>3. new.step = "accesses" /\ new.nodes = io_by_interface(h.intf)
  OBVIOUS
<1> HIDE DEF new, s, h
<1>4. /\ Tasks' = ToSet(s) \cup ToSet(Tail(todo)) /\ Tasks = {h} \cup ToSet(Tail(todo))
      /\ todo' = s \o Tail(todo)
  BY <1>1, <1>2, PlacedBy DEF h
<1>5. FsmsOK /\ InterfacesOK /\ ElementsOK /\ FloodsFirst
  BY DEF Fsms, SplitInv, FsmsOK
<1>6. \A t \in ToSet(Tail(todo)) : t.step \notin {"flood", "accesses"}
  BY <1>1, <1>5, NoFloodBehind DEF h
<1>7. ~ Collecting
  BY <1>1, <1>4, <1>6 DEF Collecting
<1>8. ElementsOK' /\ \A i : Settled(i)' <=> Settled(i)
  BY <1>1, <1>5, ElementsStay DEF Fsms
<1>9. /\ \A i : Handled(i) => Settled(i)'
      /\ \A i : Settled(i)' => Handled(i)'
  BY <1>7, <1>8 DEF Handled, Collecting
<1>10. FloodsFirst'
  <2>1. \A i, j \in DOMAIN s : ~ (i < j)
    BY <1>2
  <2>2. TodoOK /\ FloodsFirst /\ todo # <<>> /\ IsSeq(s) /\ todo' = s \o Tail(todo)
    BY <1>1, <1>2, <1>4, <1>5
  <2>3. QED
    BY <1>6, <2>1, <2>2, FloodsStayFirst
<1>11. NodesOf(element') = {} /\ WellSplit(element') /\ IsApart(element') /\ element'.fsm
  BY <1>1, EmptyElement
<1>12. WellSplit(element)' /\ IsApart(element)'
  <2>1. NodesOf(element)' = NodesOf(element') /\ NodesOf(element') = {}
    BY <1>11 DEF NodesOf
  <2>2. WellSplit(element)'
    BY <1>11, <2>1 DEF WellSplit
  <2>3. QED
    BY <2>1, <2>2 DEF IsApart
<1>13. FsmsOK'
  <2>1. \A e \in DOMAIN archElements' : NodesOf(archElements'[e]) \subseteq alreadyUsed'
    BY <1>1, <1>5 DEF FsmsOK, Fsms
  <2>2. \A t \in Tasks' : t.step # "flood"
    BY <1>2, <1>3, <1>4, <1>6
  <2>3. QED
    BY <1>10, <1>11, <1>12, <2>1, <2>2 DEF FsmsOK, NodesOf
<1>14. ASSUME NEW i, AccessedRepeatedly(i), i = h.intf
       PROVE  Handled(i)'
  <2>1. PICK t \in Tasks' : t.step = "accesses" /\ t.nodes = io_by_interface(i)
    BY <1>2, <1>3, <1>4, <1>14
  <2>2. Comes(i, t)'
    BY <2>1, StaticSplit DEF Comes, Fsms
  <2>3. QED
    BY <2>1, <2>2 DEF Handled
<1>15. InterfacesOK'
  <2>1. ASSUME NEW i \in Intf, AccessedRepeatedly(i)'
        PROVE  Handled(i)' \/ \E t \in Tasks' : t.step = "interface" /\ t.intf = i
    <3>1. AccessedRepeatedly(i)
      BY <2>1, StaticSplit DEF Fsms
    <3>2. Handled(i) \/ \E t \in Tasks : t.step = "interface" /\ t.intf = i
      BY <1>5, <3>1 DEF InterfacesOK, Fsms
    <3>3. QED
      BY <1>4, <1>9, <1>14, <3>1, <3>2
  <2>2. ASSUME NEW t \in Tasks', t.step = "accesses", NEW a \in t.nodes
        PROVE  IsRepeated(a)' /\ Handled(net.intf[a])'
    <3>1. t = new /\ AccessedRepeatedly(h.intf)
      BY <1>2, <1>4, <1>6, <2>2
    <3>2. net.intf[a] = h.intf /\ IsRepeated(a)
      BY <1>3, <2>2, <3>1, RepeatedAccess DEF Fsms, SplitInput
    <3>3. QED
      BY <1>14, <3>1, <3>2, StaticSplit DEF Fsms
  <2>3. \A t \in Tasks' : t.step # "flood"
    BY <1>2, <1>3, <1>4, <1>6
  <2>4. ASSUME NEW a \in alreadyUsed', IsRepeated(a)'
        PROVE  Handled(net.intf[a])' /\ Settled(net.intf[a])'
    <3>1. a \in alreadyUsed /\ IsRepeated(a)
      BY <1>1, <2>4, StaticSplit DEF Fsms
    <3>2. Handled(net.intf[a])
      BY <1>5, <3>1 DEF InterfacesOK, Fsms
    <3>3. QED
      BY <1>9, <3>2 DEF Fsms
  <2>5. QED
    BY <2>1, <2>2, <2>3, <2>4 DEF InterfacesOK, Fsms
<1>16. QED
  BY <1>8, <1>13, <1>15 DEF SplitInv, PipelineOK, Fsms

\* What stays of the elements that are collected, when a step adds no element.
LEMMA CollectingStays ==
  ASSUME Fsms, UNCHANGED archElements, NEW elm, element' = elm,
         WellSplit(elm), elm.fsm, IsApart(elm), NodesOf(elm) \subseteq alreadyUsed',
         alreadyUsed \subseteq alreadyUsed', FloodsFirst',
         \A t \in Tasks' : t.step = "flood" =>
           Collecting' /\ OutClk(t.node) = t.clk /\ t.clk \in ToSet(elm.clks)
  PROVE  FsmsOK'
<1>1. FsmsOK /\ UNCHANGED <<net, scheduledIn, scheduledOut>>
  BY DEF Fsms, SplitInv
<1>2. NodesOf(element)' = NodesOf(elm)
  BY DEF NodesOf
<1>3. \A e, n : IsOwner(e, n)' <=> IsOwner(e, n)
  BY StaticOwner
<1>4. IsApart(element)'
  BY <1>2, <1>3 DEF IsApart
<1>5. WellSplit(element)'
  <2>1. \A n : OutClk(n)' = OutClk(n)
    BY <1>1, StaticSplit
  <2>2. QED
    BY <1>2, <2>1 DEF WellSplit
<1>6. \A e \in DOMAIN archElements : NodesOf(archElements[e])' \subseteq alreadyUsed'
  <2>1. \A e \in DOMAIN archElements : NodesOf(archElements[e])' = NodesOf(archElements[e])
    BY DEF NodesOf
  <2>2. QED
    BY <1>1, <2>1 DEF FsmsOK, Fsms
<1>7. \A n : OutClk(n)' = OutClk(n)
  BY <1>1, StaticSplit
<1>8. QED
  BY <1>2, <1>4, <1>5, <1>6, <1>7 DEF FsmsOK

\* The next access begins a flood, in a state of its clk.
LEMMA StateSplits ==
  ASSUME Fsms, DiscoverState
  PROVE  SplitInv'
<1>1. PICK h, a, k, f, c, s :
        /\ h = Head(todo) /\ a = FirstOf(h.nodes) /\ k = OutClk(a)
        /\ f = [step |-> "flood", node |-> a, clk |-> k]
        /\ c = [step |-> "accesses", nodes |-> h.nodes \ {a}]
        /\ s = <<f, c>>
  OBVIOUS
<1>2. PICK elm : elm = AddState(element, k)
  OBVIOUS
<1>3. /\ h.step = "accesses" /\ h.nodes # {} /\ todo # <<>> /\ TodoOK /\ Continue(s)
      /\ element' = elm /\ UNCHANGED <<archElements, alreadyUsed>>
  BY <1>1, <1>2 DEF DiscoverState, NextIs, Fsms, SplitInput, AllocOK
<1>4. h.nodes \in SUBSET Node
  BY <1>1, <1>3, HeadIs DEF DiscoverState, TaskOK
<1>5. a \in h.nodes /\ a \in Node /\ k \in Int
  <2>1. phase = "done" /\ AllocInput
    BY DEF Fsms, SplitInput, AllocOK
  <2>2. a \in h.nodes
    BY <1>1, <1>3, <1>4, <2>1, FirstOfNode
  <2>3. QED
    BY <1>1, <1>4, <2>1, <2>2, NetFacts
<1>6. /\ IsSeq(s) /\ ToSet(s) = {f, c}
      /\ \A i, j \in DOMAIN s : i < j => s[i].step = "flood"
  <2>1. IsSeq(s) /\ ToSet(s) = {f, c}
    BY <1>1, TwoTasks
  <2>2. DOMAIN s = 1..2 /\ s[1].step = "flood"
    BY <1>1
  <2>3. QED
    BY <2>1, <2>2
<1>7. f.step = "flood" /\ f.node = a /\ f.clk = k /\ c.step = "accesses" /\ c.nodes = h.nodes \ {a}
  BY <1>1
<1>8. /\ Tasks' = {f, c} \cup ToSet(Tail(todo)) /\ Tasks = {h} \cup ToSet(Tail(todo))
      /\ todo' = s \o Tail(todo)
  <2>1. todo # <<>> /\ TodoOK /\ Continue(s) /\ IsSeq(s)
    BY <1>3, <1>6
  <2>2. h = Head(todo) /\ ToSet(s) = {f, c}
    BY <1>1, <1>6
  <2>3. /\ Tasks' = ToSet(s) \cup ToSet(Tail(todo)) /\ Tasks = {Head(todo)} \cup ToSet(Tail(todo))
        /\ todo' = s \o Tail(todo)
    BY <2>1, PlacedBy
  <2>4. QED
    BY <2>2, <2>3
<1>9. FsmsOK /\ InterfacesOK /\ ElementsOK /\ FloodsFirst
  BY DEF Fsms, SplitInv, FsmsOK
<1>10. \A t \in ToSet(Tail(todo)) : t.step \notin {"flood", "accesses"}
  BY <1>1, <1>3, <1>9, NoFloodBehind
<1>11. h \in Tasks /\ Collecting /\ Collecting' /\ f \in Tasks' /\ c \in Tasks'
  BY <1>3, <1>7, <1>8 DEF Collecting
<1>12. /\ WellSplit(element) /\ element.fsm /\ IsApart(element)
       /\ NodesOf(element) \subseteq alreadyUsed /\ element \in ElementType
  BY <1>9, <1>11 DEF FsmsOK, Fsms, SplitInput, AllocOK
<1>13. /\ NodesOf(elm) = NodesOf(element) /\ elm.fsm = element.fsm
       /\ ToSet(elm.clks) = ToSet(element.clks) \cup {k}
       /\ Len(elm.clks) = Len(elm.nodes)
  BY <1>2, <1>5, <1>12, AddStateNodes DEF WellSplit
<1>14. WellSplit(elm) /\ IsApart(elm)
  BY <1>12, <1>13 DEF WellSplit, IsApart
<1>15. ElementsOK' /\ \A i : Settled(i)' <=> Settled(i)
  BY <1>3, <1>9, ElementsStay DEF Fsms
<1>16. FloodsFirst'
  BY <1>3, <1>6, <1>8, <1>9, <1>10, FloodsStayFirst
<1>17. FsmsOK'
  <2>1. \A t \in Tasks' : t.step = "flood" => t = f
    BY <1>7, <1>8, <1>10
  <2>2. \A t \in Tasks' : t.step = "flood" =>
          Collecting' /\ OutClk(t.node) = t.clk /\ t.clk \in ToSet(elm.clks)
    BY <1>1, <1>7, <1>11, <1>13, <2>1
  <2>3. QED
    BY <1>3, <1>12, <1>13, <1>14, <1>16, <2>2, CollectingStays
<1>18. ASSUME NEW i, Handled(i)
       PROVE  Handled(i)'
  <2>1. CASE Settled(i)
    BY <1>15, <2>1 DEF Handled
  <2>2. ASSUME NEW t \in Tasks, t.step = "accesses", Comes(i, t)
        PROVE  Handled(i)'
    <3>1. t = h
      BY <1>8, <1>10, <2>2
    <3>2. \A b \in io_by_interface(i) :
            \/ b \in c.nodes
            \/ \E g \in Tasks' : g.step = "flood" /\ g.node = b
            \/ b \in NodesOf(elm)
      <4> SUFFICES ASSUME NEW b \in io_by_interface(i)
                   PROVE  \/ b \in c.nodes
                          \/ \E g \in Tasks' : g.step = "flood" /\ g.node = b
                          \/ b \in NodesOf(elm)
        OBVIOUS
      <4>1. \A g \in Tasks : g.step # "flood"
        BY <1>3, <1>8, <1>10
      <4>2. b \in h.nodes \/ b \in NodesOf(element)
        BY <2>2, <3>1, <4>1 DEF Comes
      <4>3. QED
        BY <1>7, <1>11, <1>13, <4>2
    <3>3. Comes(i, c)'
      <4>1. NodesOf(element)' = NodesOf(elm)
        BY <1>3 DEF NodesOf
      <4>2. QED
        BY <3>2, <4>1, StaticSplit DEF Comes, Fsms
    <3>4. QED
      BY <1>7, <1>11, <3>3 DEF Handled
  <2>3. QED
    BY <1>18, <2>1, <2>2 DEF Handled
<1>19. InterfacesOK'
  <2>1. ASSUME NEW i \in Intf, AccessedRepeatedly(i)'
        PROVE  Handled(i)' \/ \E t \in Tasks' : t.step = "interface" /\ t.intf = i
    <3>1. AccessedRepeatedly(i)
      BY <2>1, StaticSplit DEF Fsms
    <3>2. Handled(i) \/ \E t \in Tasks : t.step = "interface" /\ t.intf = i
      BY <1>9, <3>1 DEF InterfacesOK, Fsms
    <3>3. QED
      BY <1>3, <1>8, <1>18, <3>2
  <2>2. \A b \in h.nodes : IsRepeated(b) /\ Handled(net.intf[b])
    BY <1>3, <1>9, <1>11 DEF InterfacesOK, Fsms
  <2>3. \A b \in h.nodes : IsRepeated(b)' /\ Handled(net.intf[b])'
    BY <1>18, <2>2, StaticSplit DEF Fsms
  <2>4. \A t \in Tasks' : t.step = "accesses" =>
          \A b \in t.nodes : IsRepeated(b)' /\ Handled(net.intf[b])'
    BY <1>7, <1>8, <1>10, <2>3
  <2>5. \A t \in Tasks' : t.step = "flood" => Handled(net.intf[t.node])'
    BY <1>5, <1>7, <1>8, <1>10, <2>3
  <2>6. ASSUME NEW b \in alreadyUsed', IsRepeated(b)'
        PROVE  /\ Handled(net.intf[b])'
               /\ Settled(net.intf[b])' \/ (Collecting' /\ b \in NodesOf(element)')
    <3>1. b \in alreadyUsed /\ IsRepeated(b)
      BY <1>3, <2>6, StaticSplit DEF Fsms
    <3>2. Handled(net.intf[b]) /\ (Settled(net.intf[b]) \/ b \in NodesOf(element))
      BY <1>9, <3>1 DEF InterfacesOK, Fsms
    <3>3. NodesOf(element)' = NodesOf(elm)
      BY <1>3 DEF NodesOf
    <3>4. QED
      BY <1>11, <1>13, <1>15, <1>18, <3>2, <3>3 DEF Fsms
  <2>7. QED
    BY <2>1, <2>4, <2>5, <2>6 DEF InterfacesOK, Fsms
<1>20. QED
  BY <1>15, <1>17, <1>19 DEF SplitInv, PipelineOK, Fsms

\* The interfaces when a step only takes a task, or floods nodes of no other
\* interface.
LEMMA InterfacesStay ==
  ASSUME Fsms,
         \A i : AccessedRepeatedly(i) /\ Handled(i) => Handled(i)',
         \A t \in Tasks : t.step = "interface" => t \in Tasks',
         \A t \in Tasks' : t.step = "accesses" => t \in Tasks,
         \A t \in Tasks' : t.step = "flood" => t \in Tasks \/ ~ IsRepeated(t.node),
         \A b \in alreadyUsed' : IsRepeated(b) =>
           /\ Handled(net.intf[b])
           /\ Settled(net.intf[b])' \/ (Collecting' /\ b \in NodesOf(element)')
  PROVE  InterfacesOK'
<1>1. InterfacesOK /\ UNCHANGED net /\ allocPhase' = "fsms" /\ allocPhase = "fsms"
  BY DEF Fsms, SplitInv
<1>2. \A a : IsRepeated(a) => AccessedRepeatedly(net.intf[a])
  BY DEF IsRepeated
<1>3. /\ \A i : AccessedRepeatedly(i)' <=> AccessedRepeatedly(i)
      /\ \A a : IsRepeated(a)' <=> IsRepeated(a)
  BY StaticSplit DEF Fsms
<1>4. \A a : IsRepeated(a) /\ Handled(net.intf[a]) => Handled(net.intf[a])'
  BY <1>1, <1>2
<1>5. ASSUME NEW i \in Intf, AccessedRepeatedly(i)'
      PROVE  Handled(i)' \/ \E t \in Tasks' : t.step = "interface" /\ t.intf = i
  <2>1. Handled(i) \/ \E t \in Tasks : t.step = "interface" /\ t.intf = i
    BY <1>1, <1>3, <1>5 DEF InterfacesOK
  <2>2. QED
    BY <1>3, <1>5, <2>1
<1>6. \A t \in Tasks' : t.step = "accesses" =>
        \A a \in t.nodes : IsRepeated(a)' /\ Handled(net.intf[a])'
  BY <1>1, <1>3, <1>4 DEF InterfacesOK
<1>7. \A t \in Tasks' : t.step = "flood" /\ IsRepeated(t.node)' => Handled(net.intf[t.node])'
  BY <1>1, <1>3, <1>4 DEF InterfacesOK
<1>8. \A a \in alreadyUsed' : IsRepeated(a)' =>
        /\ Handled(net.intf[a])'
        /\ Settled(net.intf[a])' \/ (Collecting' /\ a \in NodesOf(element)')
  BY <1>3, <1>4
<1>9. QED
  BY <1>1, <1>5, <1>6, <1>7, <1>8 DEF InterfacesOK

\* The nodes from which the flood goes on are in its clk, and none of them is an
\* access of an interface which is to have an FSM of its own.
LEMMA TiedInClk ==
  ASSUME SplitInput, phase = "done", NEW n \in Node, NEW k
  PROVE  /\ IsSeq(TiedWith(n, k))
         /\ \A d \in ToSet(TiedWith(n, k)) : d \in Node /\ OutClk(d) = k /\ ~ IsRepeated(d)
<1> DEFINE D == {d \in Deps(n) : OutClk(d) = k /\ ExcludeOtherIoWithOwnFsm(d)}
           U == {u \in Users(n) : InClk(u) = k /\ ExcludeOtherIoWithOwnFsm(u)}
<1>1. D \in SUBSET Node /\ U \in SUBSET Node
  BY NetFacts DEF SplitInput
<1>2. /\ \A d \in D : OutClk(d) = k /\ ~ IsRepeated(d)
      /\ \A u \in U : InClk(u) = k /\ ~ IsRepeated(u)
  BY DEF ExcludeOtherIoWithOwnFsm, IsRepeated
<1>3. TiedWith(n, k) = Listed[D] \o Listed[U]
  BY DEF TiedWith
<1> HIDE DEF D, U
<1>4. \A u \in U : OutClk(u) = k
  BY <1>1, <1>2, ClksOrdered DEF SplitInput
<1>5. IsSeq(TiedWith(n, k)) /\ ToSet(TiedWith(n, k)) = D \cup U
  BY <1>1, <1>3, ListedFacts, Joined
<1>6. QED
  BY <1>1, <1>2, <1>4, <1>5

\* A node is taken into the state, unless it was taken before.
LEMMA FloodSplits ==
  ASSUME Fsms, FloodNetInSameCycle
  PROVE  SplitInv'
<1>1. PICK h, n, k, tied, s :
        /\ h = Head(todo) /\ n = h.node /\ k = h.clk /\ tied = TiedWith(n, k)
        /\ s = IF n \in alreadyUsed THEN <<>>
               ELSE [i \in DOMAIN tied |-> [step |-> "flood", node |-> tied[i], clk |-> k]]
  OBVIOUS
<1>2. PICK elm : elm = IF n \in alreadyUsed THEN element ELSE AddToLast(element, n)
  OBVIOUS
<1>3. /\ h.step = "flood" /\ todo # <<>> /\ TodoOK /\ Continue(s)
      /\ element' = elm /\ UNCHANGED archElements
      /\ alreadyUsed' = alreadyUsed \cup {n}
  BY <1>1, <1>2 DEF FloodNetInSameCycle, NextIs, Fsms, SplitInput, AllocOK
<1>4. n \in Node /\ phase = "done" /\ h \in Tasks
  BY <1>1, <1>3, HeadIs DEF FloodNetInSameCycle, TaskOK, Fsms, SplitInput, AllocOK
<1>5. IsSeq(tied) /\ \A d \in ToSet(tied) : d \in Node /\ OutClk(d) = k /\ ~ IsRepeated(d)
  BY <1>1, <1>4, TiedInClk DEF Fsms
<1>6. /\ IsSeq(s)
      /\ \A t \in ToSet(s) : /\ t.step = "flood" /\ t.clk = k /\ OutClk(t.node) = k
                             /\ ~ IsRepeated(t.node)
      /\ \A i \in DOMAIN s : s[i].step = "flood"
  <2>1. CASE n \in alreadyUsed
    BY <1>1, <2>1, NoTask
  <2>2. CASE n \notin alreadyUsed
    <3>1. s = [i \in DOMAIN tied |-> s[i]] /\ DOMAIN s = DOMAIN tied
          /\ \A i \in DOMAIN tied : s[i] = [step |-> "flood", node |-> tied[i], clk |-> k]
      BY <1>1, <2>2
    <3>2. IsSeq(s) /\ \A x : x \in ToSet(s) <=> \E i \in DOMAIN tied : x = s[i]
      BY <1>5, <3>1, MappedSeq
    <3>3. \A i \in DOMAIN tied : tied[i] \in ToSet(tied)
      BY DEF ToSet
    <3>4. QED
      BY <1>5, <3>1, <3>2, <3>3
  <2>3. QED
    BY <2>1, <2>2
<1>7. /\ Tasks' = ToSet(s) \cup ToSet(Tail(todo)) /\ Tasks = {h} \cup ToSet(Tail(todo))
      /\ todo' = s \o Tail(todo)
  BY <1>1, <1>3, <1>6, PlacedBy
<1>8. FsmsOK /\ InterfacesOK /\ ElementsOK /\ FloodsFirst
  BY DEF Fsms, SplitInv, FsmsOK
<1>9. /\ Collecting /\ OutClk(n) = k /\ k \in ToSet(element.clks)
      /\ WellSplit(element) /\ element.fsm /\ IsApart(element)
      /\ NodesOf(element) \subseteq alreadyUsed /\ element \in ElementType
  BY <1>1, <1>3, <1>4, <1>8 DEF FsmsOK, Fsms, SplitInput, AllocOK
<1>10. Collecting' /\ \A t \in Tasks : t = h \/ t \in Tasks'
  BY <1>3, <1>7, <1>9 DEF Collecting
<1>11. /\ IF n \in alreadyUsed THEN elm = element ELSE NodesOf(elm) = NodesOf(element) \cup {n}
       /\ elm.fsm = element.fsm /\ elm.clks = element.clks
       /\ Len(elm.nodes) = Len(element.nodes)
  <2>1. CASE n \in alreadyUsed
    BY <1>2, <2>1
  <2>2. CASE n \notin alreadyUsed
    <3>1. element.nodes # <<>>
      <4>1. Len(element.clks) = Len(element.nodes) /\ element.clks \in Seq(Int)
        BY <1>9 DEF WellSplit, ElementType
      <4>2. element.clks # <<>>
        BY <1>9, NoTask
      <4>3. QED
        BY <4>1, <4>2
    <3>2. QED
      BY <1>2, <1>4, <1>9, <2>2, <3>1, AddToLastNodes
  <2>3. QED
    BY <2>1, <2>2
<1>12. /\ NodesOf(element) \subseteq NodesOf(elm) /\ NodesOf(elm) \subseteq NodesOf(element) \cup {n}
       /\ n \notin alreadyUsed => n \in NodesOf(elm)
  BY <1>11
<1>13. IsApart(elm)
  <2>1. n \notin alreadyUsed => \A e \in DOMAIN archElements : ~ IsOwner(e, n)
    BY <1>8 DEF FsmsOK, Fsms, IsOwner
  <2>2. QED
    BY <1>9, <1>11, <2>1 DEF IsApart
<1>14. WellSplit(elm)
  BY <1>9, <1>11 DEF WellSplit
<1>15. ElementsOK' /\ \A i : Settled(i)' <=> Settled(i)
  BY <1>3, <1>8, ElementsStay DEF Fsms
<1>16. FloodsFirst'
  <2>1. \A t \in ToSet(s) : t.step = "flood"
    BY <1>6
  <2>2. \A i, j \in DOMAIN s : i < j => s[i].step = "flood"
    BY <1>6
  <2>3. QED
    BY <1>3, <1>6, <1>7, <1>8, <2>1, <2>2, FloodsStayFirst
<1>17. FsmsOK'
  <2>1. \A t \in Tasks' : t.step = "flood" =>
          Collecting' /\ OutClk(t.node) = t.clk /\ t.clk \in ToSet(elm.clks)
    <3>1. \A t \in Tasks : t.step = "flood" =>
            OutClk(t.node) = t.clk /\ t.clk \in ToSet(element.clks)
      BY <1>8 DEF FsmsOK, Fsms
    <3>2. QED
      BY <1>6, <1>7, <1>9, <1>10, <1>11, <3>1
  <2>2. NodesOf(elm) \subseteq alreadyUsed'
    BY <1>3, <1>9, <1>12
  <2>3. QED
    BY <1>3, <1>9, <1>11, <1>13, <1>14, <1>16, <2>1, <2>2, CollectingStays
<1>18. NodesOf(element)' = NodesOf(elm)
  BY <1>3 DEF NodesOf
<1>19. IsRepeated(n) /\ n \in alreadyUsed => Settled(net.intf[n]) \/ n \in NodesOf(element)
  BY <1>8 DEF InterfacesOK, Fsms
<1>20. ASSUME NEW i, AccessedRepeatedly(i), Handled(i)
       PROVE  Handled(i)'
  <2>1. CASE Settled(i)
    BY <1>15, <2>1 DEF Handled
  <2>2. ASSUME ~ Settled(i), NEW t \in Tasks, t.step = "accesses", Comes(i, t)
        PROVE  Handled(i)'
    <3>1. t \in Tasks'
      BY <1>3, <1>10, <2>2
    <3>2. \A b \in io_by_interface(i) :
            \/ b \in t.nodes
            \/ \E g \in Tasks' : g.step = "flood" /\ g.node = b
            \/ b \in NodesOf(elm)
      <4> SUFFICES ASSUME NEW b \in io_by_interface(i)
                   PROVE  \/ b \in t.nodes
                          \/ \E g \in Tasks' : g.step = "flood" /\ g.node = b
                          \/ b \in NodesOf(elm)
        OBVIOUS
      <4>1. CASE b = n
        <5>1. IsRepeated(n) /\ net.intf[n] = i
          BY <1>20, <4>1, RepeatedAccess DEF Fsms, SplitInput
        <5>2. QED
          BY <1>12, <1>19, <2>2, <4>1, <5>1
      <4>2. CASE b # n
        BY <1>1, <1>10, <1>12, <2>2, <4>2 DEF Comes
      <4>3. QED
        BY <4>1, <4>2
    <3>3. Comes(i, t)'
      BY <1>18, <3>2, StaticSplit DEF Comes, Fsms
    <3>4. QED
      BY <2>2, <3>1, <3>3 DEF Handled
  <2>3. QED
    BY <1>20, <2>1, <2>2 DEF Handled
<1>21. InterfacesOK'
  <2>1. \A t \in Tasks : t.step = "interface" => t \in Tasks'
    BY <1>3, <1>10
  <2>2. \A t \in Tasks' : t.step = "accesses" => t \in Tasks
    BY <1>6, <1>7
  <2>3. \A t \in Tasks' : t.step = "flood" => t \in Tasks \/ ~ IsRepeated(t.node)
    BY <1>6, <1>7
  <2>4. ASSUME NEW b \in alreadyUsed', IsRepeated(b)
        PROVE  /\ Handled(net.intf[b])
               /\ Settled(net.intf[b])' \/ (Collecting' /\ b \in NodesOf(element)')
    <3>1. CASE b \in alreadyUsed
      <4>1. Handled(net.intf[b]) /\ (Settled(net.intf[b]) \/ b \in NodesOf(element))
        BY <1>8, <2>4, <3>1 DEF InterfacesOK, Fsms
      <4>2. Settled(net.intf[b])' <=> Settled(net.intf[b])
        BY <1>15 DEF Fsms
      <4>3. QED
        BY <1>10, <1>12, <1>18, <4>1, <4>2
    <3>2. CASE b \notin alreadyUsed
      <4>1. b = n
        BY <1>3, <2>4, <3>2
      <4>2. Handled(net.intf[n])
        BY <1>1, <1>3, <1>4, <1>8, <2>4, <4>1 DEF InterfacesOK, Fsms
      <4>3. QED
        BY <1>10, <1>12, <1>18, <3>2, <4>1, <4>2
    <3>3. QED
      BY <3>1, <3>2
  <2>5. QED
    BY <1>20, <2>1, <2>2, <2>3, <2>4, InterfacesStay
<1>22. QED
  BY <1>15, <1>17, <1>21 DEF SplitInv, PipelineOK, Fsms

\* An FSM is there with all the accesses of its interface, or they are in one clk.
LEMMA FsmSplits ==
  ASSUME Fsms, FsmDiscovered
  PROVE  SplitInv'
<1>1. PICK h : h = Head(todo)
  OBVIOUS
<1>2. /\ h.step = "accesses" /\ h.nodes = {} /\ todo # <<>> /\ TodoOK /\ Continue(<<>>)
      /\ UNCHANGED <<element, alreadyUsed>>
      /\ archElements' = IF Len(element.clks) > 1 THEN Append(archElements, element)
                         ELSE archElements
  BY <1>1 DEF FsmDiscovered, NextIs, Fsms, SplitInput, AllocOK
<1>3. /\ Tasks' = ToSet(Tail(todo)) /\ Tasks = {h} \cup ToSet(Tail(todo))
      /\ todo' = <<>> \o Tail(todo) /\ IsSeq(<<>>) /\ ToSet(<<>>) = {}
  BY <1>1, <1>2, PlacedBy, NoTask
<1>4. FsmsOK /\ InterfacesOK /\ ElementsOK /\ FloodsFirst
  BY DEF Fsms, SplitInv, FsmsOK
<1>5. \A t \in Tasks' : t.step \notin {"flood", "accesses"}
  BY <1>1, <1>2, <1>3, <1>4, NoFloodBehind
<1>6. h \in Tasks /\ Collecting /\ ~ Collecting'
  BY <1>2, <1>3, <1>5 DEF Collecting
<1>7. /\ WellSplit(element) /\ IsApart(element)
      /\ NodesOf(element) \subseteq alreadyUsed /\ element \in ElementType
  BY <1>4, <1>6 DEF FsmsOK, Fsms, SplitInput, AllocOK
<1>8. /\ ElementsOK'
      /\ \A i : Settled(i) => Settled(i)'
      /\ \A i : (\A a \in io_by_interface(i) : a \in NodesOf(element)) => Settled(i)'
      /\ \A e \in DOMAIN archElements' : NodesOf(archElements'[e]) \subseteq alreadyUsed
  <2>1. \A e \in DOMAIN archElements : NodesOf(archElements[e]) \subseteq alreadyUsed
    BY <1>4 DEF FsmsOK, Fsms
  <2>2. CASE Len(element.clks) > 1
    <3>1. archElements' = Append(archElements, element)
      BY <1>2, <2>2
    <3>2. AllocOK /\ allocPhase' # "idle" /\ UNCHANGED <<net, scheduledIn, scheduledOut>>
      BY DEF Fsms, SplitInput
    <3>3. QED
      BY <1>4, <1>7, <2>1, <3>1, <3>2, ElementAdded
  <2>3. CASE ~ (Len(element.clks) > 1)
    <3>1. archElements' = archElements
      BY <1>2, <2>3
    <3>2. ElementsOK' /\ \A i : Settled(i)' <=> Settled(i)
      BY <1>4, <3>1, ElementsStay DEF Fsms
    <3>3. \A c, d \in ToSet(element.clks) : c = d
      <4>1. element.clks \in Seq(Int)
        BY <1>7 DEF ElementType
      <4>2. \A i, j \in DOMAIN element.clks : i = j
        BY <2>3, <4>1
      <4>3. QED
        BY <4>2 DEF ToSet
    <3>4. \A i : (\A a \in io_by_interface(i) : a \in NodesOf(element)) => Settled(i)
      BY <1>7, <3>3 DEF Settled, WellSplit
    <3>5. QED
      BY <2>1, <3>1, <3>2, <3>4
  <2>4. QED
    BY <2>2, <2>3
<1>9. ASSUME NEW i, Handled(i)
      PROVE  Settled(i)'
  <2>1. CASE Settled(i)
    BY <1>8, <2>1
  <2>2. ASSUME NEW t \in Tasks, t.step = "accesses", Comes(i, t)
        PROVE  Settled(i)'
    <3>1. t = h
      BY <1>3, <1>5, <2>2
    <3>2. \A f \in Tasks : f.step # "flood"
      BY <1>2, <1>3, <1>5
    <3>3. \A a \in io_by_interface(i) : a \in NodesOf(element)
      BY <1>2, <2>2, <3>1, <3>2 DEF Comes
    <3>4. QED
      BY <1>8, <3>3
  <2>3. QED
    BY <1>9, <2>1, <2>2 DEF Handled
<1>10. FsmsOK'
  <2>1. FloodsFirst'
    <3>1. \A i, j \in DOMAIN <<>> : i < j => <<>>[i].step = "flood"
      OBVIOUS
    <3>2. \A t \in ToSet(<<>>) : t.step = "flood"
      BY <1>3
    <3>3. QED
      BY <1>2, <1>3, <1>4, <3>1, <3>2, FloodsStayFirst
  <2>2. \A e \in DOMAIN archElements' : NodesOf(archElements[e])' \subseteq alreadyUsed'
    <3>1. \A e : NodesOf(archElements[e])' = NodesOf(archElements'[e])
      BY DEF NodesOf
    <3>2. QED
      BY <1>2, <1>8, <3>1
  <2>3. QED
    BY <1>5, <1>6, <2>1, <2>2 DEF FsmsOK
<1>11. InterfacesOK'
  <2>1. \A i : Handled(i) => Handled(i)'
    BY <1>9 DEF Handled
  <2>2. \A t \in Tasks : t.step = "interface" => t \in Tasks'
    BY <1>2, <1>3
  <2>3. \A b \in alreadyUsed' : IsRepeated(b) => Handled(net.intf[b])
    BY <1>2, <1>4 DEF InterfacesOK, Fsms
  <2>4. \A b : Handled(net.intf[b]) => Settled(net.intf[b])'
    BY <1>9 DEF Fsms
  <2>5. QED
    BY <1>5, <2>1, <2>2, <2>3, <2>4, InterfacesStay
<1>12. QED
  BY <1>8, <1>10, <1>11 DEF SplitInv, PipelineOK, Fsms

-----------------------------------------------------------------------------
\* What is in no FSM is in the pipeline.

\* What the steps of the discovery of pipelines start from
Pipelines ==
  /\ SplitInput /\ SplitInv /\ allocPhase = "pipelines"
  /\ UNCHANGED <<net, scheduledIn, scheduledOut>>

\* With no task left, all interfaces with several accesses are settled.
LEMMA PipelinesBegin ==
  ASSUME SplitInput, SplitInv, FsmsDiscovered, UNCHANGED <<net, scheduledIn, scheduledOut>>
  PROVE  SplitInv'
<1>1. /\ allocPhase = "fsms" /\ todo = <<>> /\ allocPhase' = "pipelines"
      /\ element' = [NoElement EXCEPT !.fsm = FALSE] /\ UNCHANGED <<archElements, alreadyUsed>>
  BY DEF FsmsDiscovered
<1>2. Tasks = {}
  BY <1>1, NoTask DEF Tasks
<1>3. ElementsOK' /\ \A i : Settled(i)' <=> Settled(i)
  BY <1>1, ElementsStay DEF SplitInv
<1>4. PipelineOK'
  <2>1. NodesOf(element') = {} /\ WellSplit(element') /\ ~ element'.fsm
    <3>1. element' # NoElement
      BY <1>1 DEF NoElement
    <3>2. QED
      BY <1>1, <3>1, EmptyElement
  <2>2. NodesOf(element)' = NodesOf(element')
    BY DEF NodesOf
  <2>3. WellSplit(element)'
    BY <2>1, <2>2 DEF WellSplit
  <2>4. IsApart(element)'
    BY <2>1, <2>2 DEF IsApart
  <2>5. QED
    BY <2>1, <2>3, <2>4 DEF PipelineOK
<1>5. \A i \in Intf : AccessedRepeatedly(i) => Settled(i)
  BY <1>1, <1>2 DEF SplitInv, InterfacesOK, Handled
<1>6. InterfacesOK'
  BY <1>1, <1>3, <1>5, StaticSplit DEF InterfacesOK
<1>7. QED
  BY <1>1, <1>3, <1>4, <1>6 DEF SplitInv, FsmsOK

\* A node outside of the FSMs needs none.
LEMMA OutsideOfFsms ==
  ASSUME Pipelines, NEW n \in Node, \A e \in DOMAIN archElements : ~ IsOwner(e, n)
  PROVE  AccessedInOneClk(n)
<1> SUFFICES ASSUME net.kind[n] = "io", NEW a \in io_by_interface(net.intf[n])
             PROVE  OutClk(a) = OutClk(n)
  BY DEF AccessedInOneClk
<1> DEFINE S == io_by_interface(net.intf[n])
<1>1. n \in S /\ a \in S /\ net.intf[n] \in Intf
  BY RepeatedAccess DEF Pipelines, SplitInput
<1>2. CASE AccessedRepeatedly(net.intf[n])
  <2>1. Settled(net.intf[n])
    BY <1>1, <1>2 DEF Pipelines, SplitInv, InterfacesOK
  <2>2. QED
    BY <1>1, <2>1 DEF Settled
<1>3. CASE ~ AccessedRepeatedly(net.intf[n])
  <2>1. S \in SUBSET Node
    BY DEF io_by_interface, OfKind
  <2>2. IsFiniteSet(S) /\ ~ (Cardinality(S) > 1)
    BY <1>3, <2>1, SchedulerAssumption, FS_Subset DEF AccessedRepeatedly
  <2>3. Cardinality(S) \in Nat
    BY <2>2, FS_CardinalityType
  <2>4. Cardinality(S) = 0 \/ Cardinality(S) = 1
    BY <2>2, <2>3
  <2>5. S = {} \/ \E x : S = {x}
    BY <2>2, <2>4, FS_EmptySet, FS_Singleton
  <2>6. a = n
    BY <1>1, <2>5
  <2>7. QED
    BY <2>6
<1>4. QED
  BY <1>2, <1>3

\* A node comes to the stage of its clk, which is there.
LEMMA NodeSplits ==
  ASSUME Pipelines, AddNodeToPipeline
  PROVE  ~ AllocFailed' /\ SplitInv'
<1>1. PICK n : n = Head(todo).node
  OBVIOUS
<1>2. n \in Node /\ phase = "done"
  BY <1>1, HeadIs DEF AddNodeToPipeline, TaskOK, Pipelines, SplitInput, AllocOK
<1>3. /\ allocPhase' = "pipelines" /\ UNCHANGED <<archElements, alreadyUsed>>
      /\ \/ element' = element
         \/ /\ \A e \in DOMAIN archElements : ~ IsOwner(e, n)
            /\ element' = AddToStage(element, InClk(n), n)
  <2>1. CASE \E e \in DOMAIN archElements : IsOwner(e, n)
    BY <1>1, <2>1 DEF AddNodeToPipeline, Continue, Pipelines
  <2>2. CASE \A e \in DOMAIN archElements : ~ IsOwner(e, n)
    <3>1. AccessedInOneClk(n)
      BY <1>2, <2>2, OutsideOfFsms
    <3>2. QED
      BY <1>1, <2>2, <3>1 DEF AddNodeToPipeline, Continue, Pipelines
  <2>3. QED
    BY <2>1, <2>2
<1>4. /\ WellSplit(element) /\ ~ element.fsm /\ IsApart(element) /\ element \in ElementType
  BY DEF Pipelines, SplitInv, PipelineOK, SplitInput, AllocOK
<1>5. ElementsOK' /\ \A i : Settled(i)' <=> Settled(i)
  BY <1>3, ElementsStay DEF Pipelines, SplitInv
<1>6. InClk(n) = OutClk(n) /\ OutClk(n) \in Nat
  BY <1>2, ClksOrdered DEF Pipelines, SplitInput
<1>7. PICK elm : elm = element'
  OBVIOUS
<1>8. WellSplit(elm) /\ ~ elm.fsm /\ IsApart(elm)
  <2>1. CASE elm = element
    BY <1>4, <2>1
  <2>2. CASE /\ \A e \in DOMAIN archElements : ~ IsOwner(e, n)
             /\ elm = AddToStage(element, OutClk(n), n)
    <3>1. /\ NodesOf(elm) = NodesOf(element) \cup {n} /\ ~ elm.fsm
          /\ Len(elm.clks) = Len(elm.nodes) /\ Len(elm.clks) \in Nat
          /\ ToSet(elm.clks) = 0..(Len(elm.clks) - 1)
          /\ Len(element.clks) <= Len(elm.clks) /\ OutClk(n) < Len(elm.clks)
      BY <1>2, <1>4, <1>6, <2>2, AddToStageNodes DEF WellSplit
    <3>2. Len(element.clks) \in Nat
      BY <1>4 DEF ElementType
    <3>3. \A m \in NodesOf(element) : OutClk(m) \in 0..(Len(element.clks) - 1)
      BY <1>4 DEF WellSplit
    <3>4. \A m \in NodesOf(elm) : OutClk(m) \in ToSet(elm.clks)
      BY <1>6, <3>1, <3>2, <3>3
    <3>5. WellSplit(elm)
      BY <3>1, <3>4 DEF WellSplit
    <3>6. IsApart(elm)
      BY <1>4, <2>2, <3>1 DEF IsApart
    <3>7. QED
      BY <3>1, <3>5, <3>6
  <2>3. QED
    BY <1>3, <1>6, <1>7, <2>1, <2>2
<1>9. PipelineOK'
  <2>1. NodesOf(element)' = NodesOf(elm)
    BY <1>7 DEF NodesOf
  <2>2. \A m : OutClk(m)' = OutClk(m)
    BY StaticSplit DEF Pipelines
  <2>3. WellSplit(element)'
    BY <1>7, <1>8, <2>1, <2>2 DEF WellSplit
  <2>4. \A e, m : IsOwner(e, m)' <=> IsOwner(e, m)
    BY <1>3, StaticOwner
  <2>5. IsApart(element)'
    BY <1>3, <1>8, <2>1, <2>4 DEF IsApart
  <2>6. QED
    BY <1>7, <1>8, <2>3, <2>5 DEF PipelineOK
<1>10. InterfacesOK'
  <2>1. \A i \in Intf : AccessedRepeatedly(i) => Settled(i)
    BY DEF Pipelines, SplitInv, InterfacesOK
  <2>2. QED
    BY <1>3, <1>5, <2>1, StaticSplit DEF InterfacesOK, Pipelines
<1>11. QED
  BY <1>3, <1>5, <1>9, <1>10 DEF SplitInv, FsmsOK, AllocFailed

\* The pipeline is one more element.
LEMMA PipelineSplits ==
  ASSUME Pipelines, PipelineDiscovered
  PROVE  SplitInv'
<1>1. /\ allocPhase' = "elements"
      /\ archElements' = IF element.nodes = <<>> THEN archElements ELSE Append(archElements, element)
  BY DEF PipelineDiscovered
<1>2. ElementsOK'
  <2>1. CASE element.nodes = <<>>
    <3>1. archElements' = archElements
      BY <1>1, <2>1
    <3>2. QED
      BY <1>1, <3>1, ElementsStay DEF Pipelines, SplitInv
  <2>2. CASE element.nodes # <<>>
    <3>1. archElements' = Append(archElements, element)
      BY <1>1, <2>2
    <3>2. WellSplit(element) /\ IsApart(element)
      BY DEF Pipelines, SplitInv, PipelineOK
    <3>3. QED
      BY <1>1, <3>1, <3>2, ElementAdded DEF Pipelines, SplitInv, SplitInput
  <2>3. QED
    BY <2>1, <2>2
<1>3. QED
  BY <1>1, <1>2 DEF SplitInv, FsmsOK, PipelineOK, InterfacesOK

\* Every step preserves the invariant of the split.
LEMMA SplitInvNext ==
  ASSUME SplitInput, SplitInv, [HlsNext]_hlsVars
  PROVE  SplitInv'
<1>1. AllocInput /\ AllocOK
  BY DEF SplitInput
<1>2. allocPhase' # "idle" => UNCHANGED <<net, scheduledIn, scheduledOut>>
  BY <1>1, ElementSteps
<1>3. CASE DiscoverFsm \/ DiscoverState \/ FloodNetInSameCycle \/ FsmDiscovered
  <2>1. \E step \in {"interface", "accesses", "flood"} : NextIs(step)
    BY <1>3 DEF DiscoverFsm, DiscoverState, FloodNetInSameCycle, FsmDiscovered
  <2>2. allocPhase = "fsms"
    BY <1>1, <2>1, HeadIs DEF StepsIn, NextIs, AllocOK
  <2>3. allocPhase' = allocPhase
    BY <1>3 DEF DiscoverFsm, DiscoverState, FloodNetInSameCycle, FsmDiscovered, Continue
  <2>4. Fsms
    BY <1>2, <2>2, <2>3 DEF Fsms
  <2>5. QED
    BY <1>3, <2>4, InterfaceSplits, StateSplits, FloodSplits, FsmSplits
<1>4. CASE Discover \/ FsmsDiscovered
  <2>1. allocPhase' # "idle"
    BY <1>4 DEF Discover, FsmsDiscovered
  <2>2. QED
    BY <1>2, <1>4, <2>1, DiscoverSplits, PipelinesBegin
<1>5. CASE AddNodeToPipeline \/ PipelineDiscovered
  <2>1. allocPhase = "pipelines"
    <3>1. AddNodeToPipeline => allocPhase = "pipelines"
      BY <1>1, HeadIs DEF AddNodeToPipeline, StepsIn, NextIs, AllocOK
    <3>2. QED
      BY <1>5, <3>1 DEF PipelineDiscovered
  <2>2. allocPhase' # "idle"
    BY <1>5, <2>1 DEF AddNodeToPipeline, PipelineDiscovered, Continue, Fail
  <2>3. Pipelines
    BY <1>2, <2>1, <2>2 DEF Pipelines
  <2>4. QED
    BY <1>5, <2>3, NodeSplits, PipelineSplits
<1>6. CASE UNCHANGED elementVars /\ UNCHANGED <<allocPhase, todo>>
  <2>1. CASE allocPhase = "idle"
    BY <1>6, <2>1, NoTask
       DEF SplitInv, ElementsOK, FsmsOK, PipelineOK, InterfacesOK, elementVars, EachNodeInOneElement
  <2>2. CASE allocPhase # "idle"
    <3>1. UNCHANGED <<net, scheduledIn, scheduledOut, archElements, element, alreadyUsed, todo,
                      allocPhase>>
      BY <1>2, <1>6, <2>2 DEF elementVars
    <3>2. ElementsOK' /\ \A i : Settled(i)' <=> Settled(i)
      BY <2>2, <3>1, ElementsStay DEF SplitInv
    <3>3. /\ \A n : OutClk(n)' = OutClk(n) /\ (IsRepeated(n)' <=> IsRepeated(n))
          /\ \A i : /\ io_by_interface(i)' = io_by_interface(i)
                    /\ AccessedRepeatedly(i)' <=> AccessedRepeatedly(i)
      BY <3>1, StaticSplit
    <3>4. \A elm : NodesOf(elm)' = NodesOf(elm)
      BY DEF NodesOf
    <3>5. /\ Tasks' = Tasks /\ NodesOf(element)' = NodesOf(element) /\ (Collecting' <=> Collecting)
          /\ \A e : NodesOf(archElements[e])' = NodesOf(archElements[e])
      BY <3>1 DEF Tasks, NodesOf, Collecting
    <3>6. \A elm : WellSplit(elm)' <=> WellSplit(elm)
      BY <3>1, StaticSplit
    <3>7. (WellSplit(element)' <=> WellSplit(element)) /\ (IsApart(element)' <=> IsApart(element))
      <4>1. \A e, n : IsOwner(e, n)' <=> IsOwner(e, n)
        BY <3>1, StaticOwner
      <4>2. QED
        BY <3>1, <3>3, <3>5, <4>1 DEF WellSplit, IsApart
    <3>8. FsmsOK'
      BY <3>1, <3>3, <3>5, <3>7 DEF SplitInv, FsmsOK, FloodsFirst
    <3>9. PipelineOK'
      BY <3>1, <3>7 DEF SplitInv, PipelineOK
    <3>10. \A i : Handled(i)' <=> Handled(i)
      BY <3>1, <3>2, <3>3, <3>5 DEF Handled, Comes
    <3>11. InterfacesOK'
      BY <3>1, <3>2, <3>3, <3>5, <3>10 DEF SplitInv, InterfacesOK
    <3>12. QED
      BY <3>2, <3>8, <3>9, <3>11 DEF SplitInv
  <2>3. QED
    BY <2>1, <2>2
<1>7. CASE UNCHANGED elementVars /\ allocPhase' \notin {"idle", "fsms", "pipelines"}
  <2>1. ElementsOK'
    BY <1>2, <1>7, ElementsStay DEF SplitInv, elementVars
  <2>2. QED
    BY <1>7, <2>1 DEF SplitInv, FsmsOK, PipelineOK, InterfacesOK
<1>8. QED
  BY <1>1, <1>3, <1>4, <1>5, <1>6, <1>7, ElementSteps

-----------------------------------------------------------------------------
\* The split and the analysis do not fail.

\* Nothing is split before allocate().
LEMMA SplitInvInit == HlsInit => SplitInv
<1> SUFFICES ASSUME HlsInit PROVE SplitInv
  OBVIOUS
<1>1. allocPhase = "idle" /\ archElements = <<>> /\ alreadyUsed = {} /\ DOMAIN archElements = {}
  BY DEF HlsInit, InitAllocator
<1>2. ElementsOK
  BY <1>1 DEF ElementsOK, EachNodeInOneElement
<1>3. QED
  BY <1>1, <1>2 DEF SplitInv, FsmsOK, PipelineOK, InterfacesOK

\* A node is used in a clk of its element.
LEMMA OwnClk ==
  ASSUME SplitInput, SplitInv, NodesCovered, Split, NEW n \in Node
  PROVE  /\ Owner(n) \in DOMAIN archElements /\ IsOwner(Owner(n), n)
         /\ phase = "done"
         /\ start_clk(scheduledIn[n]) = OutClk(n) /\ InClk(n) = OutClk(n)
         /\ IsState(Owner(n), OutClk(n))
<1>1. phase = "done"
  BY DEF SplitInput, AllocOK, Split
<1>2. AllocInput /\ ScheduleOK /\ archElements \in Seq(ElementType)
  BY DEF SplitInput, AllocOK
<1>3. /\ Owner(n) \in DOMAIN archElements
      /\ \E s \in DOMAIN archElements[Owner(n)].nodes :
              n \in ToSet(archElements[Owner(n)].nodes[s])
  BY <1>2, OwnerFacts
<1>4. n \in NodesOf(archElements[Owner(n)])
  BY <1>3, NodeOfElement
<1>5. WellSplit(archElements[Owner(n)])
  BY <1>3 DEF SplitInv, ElementsOK
<1>6. OutClk(n) \in ToSet(archElements[Owner(n)].clks)
  BY <1>4, <1>5 DEF WellSplit
<1>7. start_clk(scheduledIn[n]) = OutClk(n) /\ InClk(n) = OutClk(n)
  BY <1>1, <1>2, ClksOrdered
<1>8. QED
  BY <1>1, <1>3, <1>4, <1>6, <1>7 DEF IsOwner, IsState

\* The analysis finds a state for every value which crosses elements.
LEMMA InputChecked ==
  ASSUME SplitInput, SplitInv, NodesCovered, CheckInputDriver
  PROVE  ~ AllocFailed'
<1>1. TodoOK
  BY DEF SplitInput, AllocOK
<1>2. /\ Head(todo) \in Tasks /\ Head(todo).step = "input" /\ TaskOK(Head(todo), archElements)
      /\ allocPhase = "analyze"
  BY <1>1, HeadIs DEF CheckInputDriver, StepsIn
<1>3. Head(todo).user \in Node
  BY <1>2 DEF TaskOK
<1>4. IsState(Owner(Head(todo).user), start_clk(scheduledIn[Head(todo).user]))
  BY <1>2, <1>3, OwnClk DEF Split
<1>5. allocPhase' = allocPhase
  BY <1>4 DEF CheckInputDriver, Continue
<1>6. QED
  BY <1>2, <1>5 DEF AllocFailed

\* allocate() fails while the nodes are built, if it does.
LEMMA FailsLate ==
  ASSUME SplitInput, SplitInv, NodesCovered, [HlsNext]_hlsVars, AllocFailed', ~ AllocFailed
  PROVE  allocPhase = "build" /\ UNCHANGED vars
<1>1. TodoOK
  BY DEF SplitInput, AllocOK
<1>2. ASSUME NEW step \in {"get", "used", "after", "operand", "alloc", "create", "drive", "node",
                           "io", "connect", "makeValid", "sync"},
             NextIs(step)
      PROVE  allocPhase = "build"
  BY <1>1, <1>2, HeadIs DEF StepsIn, NextIs
<1>3. ~ UNCHANGED allocPhase
  BY DEF AllocFailed
<1>4. ~ HlsTerminated /\ ~ UNCHANGED hlsVars /\ ~ Scheduling
  BY <1>3 DEF HlsTerminated, hlsVars, allocVars, Scheduling
<1>5. NextAllocator /\ UNCHANGED vars
  BY <1>4 DEF HlsNext
<1>6. CASE NextElements
  <2>1. AddNodeToPipeline
    BY <1>3, <1>6
       DEF NextElements, Discover, DiscoverFsm, DiscoverState, FloodNetInSameCycle, FsmDiscovered,
           FsmsDiscovered, PipelineDiscovered, LoopOverStages, LoopOverNodes, Continue, AllocFailed
  <2>2. allocPhase = "pipelines"
    BY <1>1, <2>1, HeadIs DEF AddNodeToPipeline, StepsIn, NextIs
  <2>3. phase = "done"
    BY <2>2 DEF SplitInput, AllocOK
  <2>4. UNCHANGED <<net, scheduledIn, scheduledOut>>
    BY <1>5 DEF vars
  <2>5. Pipelines
    BY <2>1, <2>2, <2>3, <2>4 DEF Pipelines, AllocFailed, SplitInput
  <2>6. QED
    BY <2>1, <2>5, NodeSplits
<1>7. CASE NextDatapath
  <2>1. PICK step \in {"get", "used", "after", "operand", "alloc", "create", "drive", "node",
                       "io"} : NextIs(step)
    BY <1>7, DatapathPhase
  <2>2. QED
    BY <1>2, <1>5, <2>1
<1>8. CASE NextSharing
  <2>1. CASE AnalyzeSharing
    <3>1. EachNodeInOneElement
      BY DEF SplitInv, ElementsOK
    <3>2. QED
      BY <2>1, <3>1 DEF AnalyzeSharing, AllocFailed
  <2>2. CASE CheckInputs
    BY <1>3, <2>2 DEF CheckInputs, Continue
  <2>3. CASE CheckInputDriver
    BY <2>3, InputChecked
  <2>4. CASE Declare \/ AllocateSync
    BY <2>4 DEF Declare, AllocateSync, AllocFailed
  <2>5. CASE Connect \/ MakeValid \/ ConnectSync
    <3>1. \E step \in {"connect", "makeValid", "sync"} : NextIs(step)
      BY <2>5 DEF Connect, MakeValid, ConnectSync
    <3>2. QED
      BY <1>2, <1>5, <3>1
  <2>6. QED
    BY <1>8, <2>1, <2>2, <2>3, <2>4, <2>5 DEF NextSharing
<1>9. QED
  BY <1>5, <1>6, <1>7, <1>8 DEF NextAllocator

\* The invariant of the split holds, with all it relies on.
LEMMA SplitInvariant == HlsSpec => [](SplitInput /\ AllocInv /\ SplitInv)
<1>1. HlsInit => SplitInv
  BY SplitInvInit
<1>2. (AllocInput /\ AllocInv) /\ ScheduleOK /\ SplitInv /\ [HlsNext]_hlsVars => SplitInv'
  BY SplitInvNext DEF SplitInput, AllocInv
<1>3. (AllocInput /\ AllocInv) /\ ScheduleOK => SplitInput /\ AllocInv
  BY DEF SplitInput, AllocInv
<1>4. QED
  BY <1>1, <1>2, <1>3, AllocInvariant, ScheduleIsOK, PTL DEF HlsSpec

-----------------------------------------------------------------------------
\* No assertion of the split and of the analysis is ever violated.
FailsOnlyInBuild == [][AllocFailed' => AllocFailed \/ allocPhase = "build"]_hlsVars

\* The discovery of the FSMs and of the pipeline with the analysis of the values they
\* share: no interface that is accessed in several clks is left outside of FSMs, no
\* node comes to two elements, and each use of a value of another element is in a
\* state of its FSM; these assertions of allocate() never fail.
THEOREM SplitNeverFails == HlsSpec => FailsOnlyInBuild
<1>1. SplitInput /\ AllocInv /\ SplitInv /\ [HlsNext]_hlsVars
        => [AllocFailed' => AllocFailed \/ allocPhase = "build"]_hlsVars
  BY FailsLate DEF AllocInv
<1>2. QED
  BY <1>1, SplitInvariant, PTL DEF HlsSpec, FailsOnlyInBuild

-----------------------------------------------------------------------------
\* What makes the building of the nodes succeed.

\* What AllocationRejected excludes
Good ==
  ~ AcrossGap /\ ~ EarlierConst /\ ~ OrderedAfterForeignAccess /\ ~ CloseToNextClk

\* The element has a stage or a state of this clk.
StageAt(e, c) == <<e, c>> \in DOMAIN stageSignals

\* The value is one of the element, or comes to it.
Reaches(e, d) == Owner(d) = e \/ <<e, d>> \in Crossings

\* The clk of the first signal of a value, and that of its last one
Start(e, d) == start_clk(TirTime(e, d))
LastClk(e, d) == Start(e, d) + netNodeToRtl[<<e, d>>].len - 1

\* The FSMs have the states that were found.
StatesOnly ==
  /\ \A e \in DOMAIN archElements : \A c \in ToSet(archElements[e].clks) : StageAt(e, c)
  /\ \A x \in DOMAIN stageSignals :
       x = <<x[1], x[2]>> /\ (archElements[x[1]].fsm => IsState(x[1], x[2]))

\* An operator or a write that has its operands has a stage for its constants.
ConstsTaken ==
  /\ \A x \in DOMAIN netNodeToRtl : ~ IsConst(x[2])
  /\ \A n \in Node : \A d \in net.dataDeps[n] :
       /\ IsConst(d) /\ (net.kind[n] = "op" \/ IsWrite(n))
       /\ \/ HasRtl(Owner(n), n) \/ OfNode("create", Owner(n), n)
          \/ OfNode("drive", Owner(n), n) \/ <<Owner(n), n>> \in drives
       => OperandCall(Owner(n), d, n) \in Tasks \/ StageAt(Owner(n), OutClk(d))

\* A pipeline has all stages up to any of its stages.
NoGapsInPipelines ==
  \A x \in DOMAIN stageSignals :
    ~ archElements[x[1]].fsm => x[2] \in Int /\ \A c \in 0..x[2] : StageAt(x[1], c)

\* An element instantiates its own nodes, with values that come to it.
OwnTask(t) ==
  /\ t.step = "operand" => Owner(t.user) = t.elm /\ ~ IsRead(t.user)
  /\ t.step = "after" => Owner(t.node) = t.elm \/ IsConst(t.node)
  /\ t.step = "get" /\ t.user[1] = "node" => Owner(t.user[2]) = t.elm
  /\ t.step = "used" => Reaches(t.elm, t.node) \/ IsConst(t.node)
OwnTasks == \A t \in Tasks : OwnTask(t)

\* All parts of a node are done before the next one, and before the connections.
LoopsLast ==
  \A i, j \in DOMAIN todo :
    i < j /\ todo[i].step \in {"element", "stage", "node", "io", "connect"}
      => todo[j].step \in {"element", "stage", "node", "connect"}

\* The value is there, or about to be made.
Coming(e, d) == HasRtl(e, d) \/ OfNode("alloc", e, d) \/ OfNode("create", e, d)

\* Every read is made, or the loops will come to it.
ReadsBuilt ==
  \A e \in DOMAIN archElements : \A s \in DOMAIN archElements[e].nodes :
    \A n \in ToSet(archElements[e].nodes[s]) :
      IsRead(n) =>
        \/ OfElement(e) \/ OfStage(e, s) \/ OfNode("node", e, n)
        \/ OfNode("alloc", e, n) \/ HasRtl(e, n)

\* When an access is made its operands are, too, before they are taken for it.
AccessesReady ==
  /\ \A n \in Node : \A d \in net.dataDeps[n] :
       IsRead(n) /\ HasRtl(Owner(n), n) /\ ~ IsConst(d) => Coming(Owner(n), d)
  /\ \A t \in Tasks : t.step = "io" =>
       \A d \in net.dataDeps[t.node] :
         \/ IsConst(d) \/ Coming(t.elm, d)
         \/ OperandCall(t.elm, d, t.node) \in Tasks
         \/ TaskOf("alloc", t.elm, t.node) \in Tasks
              /\ (IsRead(t.node) => ~ HasRtl(t.elm, t.node))

\* The value is there or made before the j-th task.
MadeUpTo(j) ==
  \/ HasRtl(todo[j].elm, todo[j].node)
  \/ \E i \in DOMAIN todo :
       i < j /\ todo[i] \in {TaskOf(step, todo[j].elm, todo[j].node) : step \in {"alloc", "create"}}

\* A value is made before it is taken.
GetsReady ==
  \A j \in DOMAIN todo : todo[j].step = "get" /\ todo[j].user[1] = "node" => MadeUpTo(j)

\* A task that is done between the allocation of n and _afterNodeInstantiated for it:
\* it is about nodes of S, which n depends on, and may make n, but does not take it.
Inside(t, S, n) ==
  /\ t.step \notin {"element", "stage", "node", "io", "connect", "makeValid"}
  /\ t.step \in {"alloc", "create"} => t.node \in S \cup {n}
  /\ t.step \in {"operand", "get"} => t.node \in S

\* Nothing takes a value before it is registered as a new one.
NewUntilRegistered ==
  \A j \in DOMAIN todo : todo[j].step = "after" =>
    /\ HasRtl(todo[j].elm, todo[j].node)
         => netNodeToRtl[<<todo[j].elm, todo[j].node>>].len = 1
    /\ \E S \in SUBSET Node :
         /\ ClosedUnderDeps(S) /\ Deps(todo[j].node) \subseteq S /\ todo[j].node \notin S
         /\ \A i \in DOMAIN todo : i < j => Inside(todo[i], S, todo[j].node)

\* A chain has its stages, and is registered only there.
ChainsThere ==
  /\ \A x \in DOMAIN netNodeToRtl : Reaches(x[1], x[2]) =>
       \A c \in Start(x[1], x[2])..LastClk(x[1], x[2]) : StageAt(x[1], c)
  /\ \A x \in DOMAIN stageSignals : \A d \in stageSignals[x] :
       Owner(d) = x[1] => x[2] <= LastClk(x[1], d)

\* The call that makes the value last until it is handed over
LastsFor(o, dst) ==
  [step |-> "makeValid", elm |-> Owner(o), node |-> o, endTime |-> FirstUseTime(o, dst)]

\* A value that is handed over is there, and lasts until then.
HandReady ==
  \A t \in Tasks :
    /\ t.step = "makeValid" =>
         /\ HasRtl(t.elm, t.node)
         /\ \E x \in Crossings : t = LastsFor(x[2], x[1])
    /\ t.step = "get" /\ t.user[1] = "element" =>
         /\ HasRtl(t.elm, t.node)
         /\ \/ archElements[t.elm].fsm
            \/ HandedAt(t.node, t.user[2]) <= LastClk(t.elm, t.node)
            \/ LastsFor(t.node, t.user[2]) \in Tasks
    /\ t.step = "sync" =>
         \E x \in Crossings :
           /\ t.src = Owner(x[2]) /\ t.dst = x[1] /\ t.clk = HandedAt(x[2], x[1])
           /\ StageAt(t.src, t.clk) \/ (LastsFor(x[2], x[1]) \in Tasks /\ ~ archElements[t.src].fsm)

\* All that a good netlist needs
Ready ==
  /\ NoGapsInPipelines /\ OwnTasks /\ LoopsLast /\ ReadsBuilt /\ AccessesReady /\ GetsReady
  /\ NewUntilRegistered /\ ChainsThere /\ HandReady

\* What holds in each state
FailureInv ==
  /\ AllocFailed => ~ Good
  /\ Building => StatesOnly /\ ConstsTaken
  /\ Building /\ Good => Ready

-----------------------------------------------------------------------------
\* The clks of the values.

\* What is known while the nodes are built
Base == SplitInput /\ AllocInv /\ SplitInv /\ Building

\* The parts of it
LEMMA BaseFacts ==
  ASSUME Base
  PROVE  /\ AllocInput /\ AllocOK /\ NodesCovered /\ ConnectionsSound /\ ConnectionsComplete
         /\ BuildInput /\ ResourcesOK /\ ScheduleOK /\ EachNodeInOneElement
         /\ Analyzed /\ Split /\ phase = "done"
         /\ archElements \in Seq(ElementType) /\ connections \in Seq(Node \X Node)
         /\ Eps = 1 /\ Clk \in Nat /\ Clk > 2
<1>1. AllocInput /\ AllocOK /\ ScheduleOK /\ SplitInv /\ AllocInv /\ Building
  BY DEF Base, SplitInput
<1>2. allocPhase \in {"build", "done"} /\ phase = "done" /\ Analyzed /\ Split
  BY <1>1 DEF Building, AllocOK, Analyzed, Split
<1>3. Eps = 1 /\ Clk \in Nat /\ Clk > 2
  BY SchedulerAssumption DEF Eps
<1>4. EachNodeInOneElement
  BY <1>1 DEF SplitInv, ElementsOK
<1>5. QED
  BY <1>1, <1>2, <1>3, <1>4 DEF AllocInv, AllocOK, BuildInput

\* A node is in its element, in a clk of it which is not before those of its inputs.
LEMMA NodeClk ==
  ASSUME Base, NEW n \in Node
  PROVE  /\ Owner(n) \in DOMAIN archElements /\ IsOwner(Owner(n), n)
         /\ IsState(Owner(n), OutClk(n))
         /\ start_clk(scheduledIn[n]) = OutClk(n) /\ InClk(n) = OutClk(n) /\ OutClk(n) \in Nat
         /\ scheduledIn[n] \in Nat /\ scheduledOut[n] \in Nat /\ scheduledIn[n] <= scheduledOut[n]
         /\ \A d \in Deps(n) : d \in Node /\ OutClk(d) <= OutClk(n)
         /\ \A d \in net.dataDeps[n] : d \in Deps(n)
<1>1. /\ AllocInput /\ ScheduleOK /\ SplitInput /\ SplitInv /\ NodesCovered /\ Split
      /\ phase = "done"
  BY BaseFacts DEF Base
<1>2. /\ Owner(n) \in DOMAIN archElements /\ IsOwner(Owner(n), n)
      /\ IsState(Owner(n), OutClk(n))
  BY <1>1, OwnClk
<1>3. /\ start_clk(scheduledIn[n]) = OutClk(n) /\ InClk(n) = OutClk(n) /\ OutClk(n) \in Nat
      /\ \A d \in Deps(n) : d \in Node /\ OutClk(d) <= OutClk(n)
  BY <1>1, ClksOrdered
<1>4. scheduledIn[n] \in Nat /\ scheduledOut[n] \in Nat /\ scheduledIn[n] <= scheduledOut[n]
  BY <1>1 DEF AllocInput, ScheduleOK
<1>5. net.dataDeps[n] \subseteq Deps(n)
  BY <1>1, NetFacts
<1>6. QED
  BY <1>2, <1>3, <1>4, <1>5

\* The sums with epsilon stay in the clk.
LEMMA NotClose ==
  ASSUME Base, ~ CloseToNextClk, NEW n \in Node, NEW k \in 0..3
  PROVE  start_clk(scheduledOut[n] + k) = OutClk(n) /\ start_clk(scheduledIn[n] + k) = OutClk(n)
<1>1. /\ start_clk(scheduledIn[n]) = OutClk(n) /\ OutClk(n) \in Nat
      /\ scheduledIn[n] \in Nat /\ scheduledOut[n] \in Nat /\ scheduledIn[n] <= scheduledOut[n]
  BY NodeClk
<1>2. start_clk(scheduledOut[n] + 3) = OutClk(n)
  <2>1. scheduledOut[n] + 3 * Eps = scheduledOut[n] + 3
    BY <1>1 DEF Eps
  <2>2. QED
    BY <2>1 DEF CloseToNextClk
<1>3. ASSUME NEW t \in Int, scheduledIn[n] <= t, t <= scheduledOut[n] + 3
      PROVE  start_clk(t) = OutClk(n)
  <2>1. OutClk(n) <= start_clk(t) /\ start_clk(t) <= OutClk(n) /\ start_clk(t) \in Int
    BY <1>1, <1>2, <1>3, EarlierInClk, ClkBounds
  <2>2. QED
    BY <1>1, <2>1
<1>4. /\ scheduledOut[n] + k \in Int /\ scheduledIn[n] <= scheduledOut[n] + k
      /\ scheduledOut[n] + k <= scheduledOut[n] + 3
      /\ scheduledIn[n] + k \in Int /\ scheduledIn[n] <= scheduledIn[n] + k
      /\ scheduledIn[n] + k <= scheduledOut[n] + 3
  BY <1>1
<1>5. QED
  BY <1>3, <1>4

\* The chain of a value begins in the clk of the value, in its own element.
LEMMA OwnStart ==
  ASSUME Base, ~ CloseToNextClk, NEW d \in Node
  PROVE  /\ TirTime(Owner(d), d) \in Int
         /\ Start(Owner(d), d) = OutClk(d)
         /\ start_clk(TirTime(Owner(d), d) + Eps) = OutClk(d)
         /\ start_clk(TirTime(Owner(d), d) + Eps + Eps) = OutClk(d)
<1>1. <<Owner(d), d>> \notin Crossings
  BY BaseFacts, OwnIsNoCrossing
<1>2. Eps = 1 /\ scheduledOut[d] \in Nat
  BY BaseFacts, NodeClk
<1>3. TirTime(Owner(d), d) = scheduledOut[d] + 0 \/ TirTime(Owner(d), d) = scheduledOut[d] + 1
  BY <1>1, <1>2 DEF TirTime
<1>4. \A k \in {0, 1, 2, 3} : start_clk(scheduledOut[d] + k) = OutClk(d)
  BY NotClose
<1>5. CASE TirTime(Owner(d), d) = scheduledOut[d] + 0
  <2>1. /\ TirTime(Owner(d), d) + Eps = scheduledOut[d] + 1
        /\ TirTime(Owner(d), d) + Eps + Eps = scheduledOut[d] + 2
    BY <1>2, <1>5
  <2>2. QED
    BY <1>2, <1>4, <1>5, <2>1 DEF Start
<1>6. CASE TirTime(Owner(d), d) = scheduledOut[d] + 1
  <2>1. /\ TirTime(Owner(d), d) + Eps = scheduledOut[d] + 2
        /\ TirTime(Owner(d), d) + Eps + Eps = scheduledOut[d] + 3
    BY <1>2, <1>6
  <2>2. QED
    BY <1>2, <1>4, <1>6, <2>1 DEF Start
<1>7. QED
  BY <1>3, <1>5, <1>6

-----------------------------------------------------------------------------
\* Where the values are handed over.

\* The first use of a value in another element is that of a node of this element.
LEMMA FirstUser ==
  ASSUME Base, NEW c \in ToSet(connections)
  PROVE  /\ \E m \in Node : /\ Owner(m) = Owner(c[2]) /\ c[1] \in net.dataDeps[m]
                            /\ FirstUse(c[1], Owner(c[2])) = scheduledIn[m]
         /\ FirstUse(c[1], Owner(c[2])) <= scheduledIn[c[2]]
<1> DEFINE J == {j \in ToSet(connections) : j[1] = c[1] /\ Owner(j[2]) = Owner(c[2])}
           T == {scheduledIn[k[2]] : k \in J}
<1>1. /\ AllocInput /\ AllocOK /\ NodesCovered /\ ConnectionsSound /\ Analyzed /\ phase = "done"
  BY BaseFacts
<1>2. \A k \in ToSet(connections) : k[2] \in Node /\ scheduledIn[k[2]] \in Nat /\ Crosses(k[1], k[2])
  BY <1>1, ConnectionFacts DEF AllocInput
<1>3. T \in SUBSET Nat /\ scheduledIn[c[2]] \in T
  BY <1>2
<1>4. FirstUse(c[1], Owner(c[2])) = CHOOSE t \in T : IsMin(t, T)
  BY DEF FirstUse
<1>5. \A t \in T : \E k \in J : t = scheduledIn[k[2]]
  OBVIOUS
<1> HIDE DEF T
<1>6. \E t \in T : IsMin(t, T)
  BY <1>3, LeastNat DEF IsMin
<1>7. IsMin(FirstUse(c[1], Owner(c[2])), T)
  BY <1>4, <1>6
<1>8. PICK k \in J : FirstUse(c[1], Owner(c[2])) = scheduledIn[k[2]]
  BY <1>5, <1>7 DEF IsMin
<1>9. k[2] \in Node /\ Owner(k[2]) = Owner(c[2]) /\ c[1] \in net.dataDeps[k[2]]
  BY <1>2, <1>8 DEF Crosses
<1>10. FirstUse(c[1], Owner(c[2])) <= scheduledIn[c[2]]
  BY <1>3, <1>7 DEF IsMin
<1>11. QED
  BY <1>8, <1>9, <1>10

\* The last state before a use is between the clk of the value and that of the use.
LEMMA Closest ==
  ASSUME Base, NEW o \in Node, NEW t \in Int, OutClk(o) <= start_clk(t)
  PROVE  LET k == ClosestClkWithState(o, t)
         IN  /\ k \in Int /\ OutClk(o) <= k /\ k <= start_clk(t)
             /\ OutClk(o) = start_clk(t) \/ IsState(Owner(o), start_clk(t)) => k = start_clk(t)
<1> DEFINE S == {OutClk(o)} \cup {c \in ToSet(archElements[Owner(o)].clks) :
                                    OutClk(o) <= c /\ c <= start_clk(t)}
<1>1. /\ Owner(o) \in DOMAIN archElements /\ OutClk(o) \in Nat /\ start_clk(t) \in Int
      /\ archElements \in Seq(ElementType)
  BY BaseFacts, NodeClk, ClkBounds
<1>2. ToSet(archElements[Owner(o)].clks) \subseteq Int
  BY <1>1, ElementFacts, SeqIsSeq
<1>3. /\ S \in SUBSET Int /\ S # {}
      /\ \A c \in S : OutClk(o) <= c /\ c <= start_clk(t)
  BY <1>1, <1>2
<1>4. ClosestClkWithState(o, t) = Largest(S)
  BY DEF ClosestClkWithState
<1>5. OutClk(o) = start_clk(t) \/ IsState(Owner(o), start_clk(t)) => start_clk(t) \in S
  BY <1>1 DEF IsState
<1> HIDE DEF S
<1>6. Largest(S) \in S
  BY <1>1, <1>3, LargestOfBounded
<1>7. start_clk(t) \in S => Largest(S) = start_clk(t)
  BY <1>3, LargestIs
<1>8. QED
  BY <1>3, <1>4, <1>5, <1>6, <1>7

\* A time just behind the start of a clk is in the clk.
LEMMA ClkBehindStart ==
  ASSUME NEW k \in Int
  PROVE  start_clk(k * Clk + Eps) = k /\ start_clk(k * Clk + Eps + Eps) = k
<1>1. Clk \in Nat /\ Clk > 2 /\ Eps = 1
  BY SchedulerAssumption DEF Eps
<1>2. k * Clk \in Int
  BY <1>1
<1>3. PICK b \in Int : b = k * Clk
  BY <1>2
<1>4. k * Clk <= b + 2 /\ b + 2 < k * Clk + Clk /\ b + 2 \in Int
  BY <1>1, <1>3
<1>5. start_clk(b + 2) = k
  BY <1>4, ClkUnique
<1>6. k * Clk + Eps + Eps = b + 2
  BY <1>1, <1>3
<1>7. QED
  BY <1>5, <1>6, ClkOfSignal

\* The time at which a value is handed over is in the clk HandedClk names, from where
\* it is at most epsilon away, and not before the clk of the value.
LEMMA HandedTime ==
  ASSUME Base, ~ CloseToNextClk, NEW c \in ToSet(connections)
  PROVE  LET o == c[1]
             dst == Owner(c[2])
         IN  /\ HandedAt(o, dst) \in Int /\ HandedAt(o, dst) = HandedClk(o, dst)
             /\ start_clk(FirstUseTime(o, dst) + Eps) = HandedAt(o, dst)
             /\ OutClk(o) <= HandedAt(o, dst)
             /\ HandedAt(o, dst) <= start_clk(FirstUse(o, dst))
<1> DEFINE o == c[1]
           dst == Owner(c[2])
           u == FirstUse(o, dst)
           k == ClosestClkWithState(o, u)
<1>1. /\ AllocInput /\ AllocOK /\ NodesCovered /\ ConnectionsSound /\ Analyzed
      /\ Eps = 1 /\ Clk \in Nat
  BY BaseFacts
<1>2. o \in Node
  BY <1>1, ConnectionFacts
<1>3. PICK m \in Node : o \in net.dataDeps[m] /\ u = scheduledIn[m]
  BY FirstUser
<1>4. u \in Int /\ start_clk(u) = OutClk(m) /\ OutClk(o) \in Nat /\ OutClk(o) <= OutClk(m)
  BY <1>2, <1>3, NodeClk
<1>5. start_clk(u + Eps) = start_clk(u) /\ start_clk(u) \in Int
  <2>1. start_clk(scheduledIn[m] + 1) = OutClk(m)
    BY NotClose
  <2>2. QED
    BY <1>1, <1>3, <1>4, <2>1, NodeClk
<1>6. /\ k \in Int /\ OutClk(o) <= k /\ k <= start_clk(u)
      /\ OutClk(o) = start_clk(u) \/ IsState(Owner(o), start_clk(u)) => k = start_clk(u)
  BY <1>2, <1>4, Closest
<1> HIDE DEF k, u
<1>7. CASE MissingState(o, u) /\ ~ archElements[dst].fsm
  <2>1. FirstUseTime(o, dst) = k * Clk + Eps
    BY <1>7 DEF FirstUseTime, u, k
  <2>2. HandedClk(o, dst) = k
    BY <1>7 DEF HandedClk, MissingState, u, k
  <2>3. HandedAt(o, dst) = k /\ start_clk(FirstUseTime(o, dst) + Eps) = k
    BY <1>6, <2>1, ClkBehindStart DEF HandedAt
  <2>4. QED
    BY <1>6, <2>2, <2>3 DEF u
<1>8. CASE ~ (MissingState(o, u) /\ ~ archElements[dst].fsm)
  <2>1. FirstUseTime(o, dst) = u
    BY <1>8 DEF FirstUseTime, u
  <2>2. HandedClk(o, dst) = start_clk(u)
    BY <1>6, <1>8 DEF HandedClk, MissingState, u, k
  <2>3. QED
    BY <1>4, <1>5, <2>1, <2>2 DEF HandedAt, u
<1>9. QED
  BY <1>7, <1>8

\* No FSM is without a state while it holds a value that one of its nodes uses, or
\* that it hands over.
LEMMA NoGap ==
  ASSUME Base, ~ AcrossGap, NEW m \in Node, NEW d \in net.dataDeps[m], ~ IsConst(d)
  PROVE  /\ Owner(d) = Owner(m) /\ archElements[Owner(m)].fsm =>
              \A c \in OutClk(d)..OutClk(m) : IsState(Owner(m), c)
         /\ Owner(d) # Owner(m) /\ archElements[Owner(d)].fsm =>
              \A c \in OutClk(d)..HandedClk(d, Owner(m)) : IsState(Owner(d), c)
         /\ Owner(d) # Owner(m) /\ archElements[Owner(m)].fsm =>
              \A c \in HandedClk(d, Owner(m))..OutClk(m) : IsState(Owner(m), c)
<1>1. InClk(m) = OutClk(m)
  BY NodeClk
<1>2. ~ IF Owner(d) = Owner(m) THEN HasGap(Owner(m), OutClk(d), InClk(m))
        ELSE \/ HasGap(Owner(d), OutClk(d), HandedClk(d, Owner(m)))
             \/ HasGap(Owner(m), HandedClk(d, Owner(m)), InClk(m))
  BY DEF AcrossGap
<1>3. QED
  BY <1>1, <1>2 DEF HasGap

\* A connection is one of a value to a node of another element.
LEMMA CrossingOf ==
  ASSUME Base, NEW c \in ToSet(connections)
  PROVE  /\ c[1] \in Node /\ c[2] \in Node /\ c = <<c[1], c[2]>>
         /\ c[1] \in net.dataDeps[c[2]] /\ ~ IsConst(c[1]) /\ Owner(c[1]) # Owner(c[2])
<1>1. /\ AllocInput /\ AllocOK /\ NodesCovered /\ ConnectionsSound /\ Analyzed
  BY BaseFacts
<1>2. c[1] \in Node /\ c[2] \in Node /\ c = <<c[1], c[2]>> /\ Crosses(c[1], c[2])
  BY <1>1, ConnectionFacts
<1>3. QED
  BY <1>2 DEF Crosses

\* A value which a node of another element uses crosses to it.
LEMMA UserCrosses ==
  ASSUME Base, NEW m \in Node, NEW d \in net.dataDeps[m], ~ IsConst(d), Owner(d) # Owner(m)
  PROVE  <<d, m>> \in ToSet(connections) /\ <<Owner(m), d>> \in Crossings
<1>1. Crosses(d, m) /\ Building /\ ConnectionsComplete
  BY BaseFacts DEF Crosses, Base
<1>2. <<d, m>> \in ToSet(connections)
  BY <1>1 DEF ConnectionsComplete, Building
<1> DEFINE c == <<d, m>>
<1>3. c \in ToSet(connections) /\ c[1] = d /\ c[2] = m
  BY <1>2
<1>4. <<Owner(c[2]), c[1]>> \in Crossings
  BY <1>3, CrossingOfConnection
<1>5. QED
  BY <1>2, <1>3, <1>4

\* A value is handed over in a clk in which both elements have a state, which is not
\* after any use in the other element; and no buffer is needed.
LEMMA Handed ==
  ASSUME Base, ~ AcrossGap, ~ CloseToNextClk, NEW x \in Crossings
  PROVE  LET dst == x[1]
             o == x[2]
             h == HandedAt(o, dst)
         IN  /\ x = <<dst, o>> /\ o \in Node /\ ~ IsConst(o) /\ Owner(o) # dst
             /\ dst \in DOMAIN archElements
             /\ h \in Nat /\ OutClk(o) <= h
             /\ Start(dst, o) = h /\ start_clk(FirstUseTime(o, dst) + Eps) = h
             /\ TirTime(dst, o) = FirstUseTime(o, dst)
             /\ ~ NeedsBuffer(o, dst)
             /\ archElements[Owner(o)].fsm => \A c \in OutClk(o)..h : IsState(Owner(o), c)
             /\ archElements[dst].fsm => IsState(dst, h)
             /\ \E m \in Node : Owner(m) = dst /\ o \in net.dataDeps[m] /\ h <= OutClk(m)
<1>1. PICK c \in ToSet(connections) : x = <<Owner(c[2]), c[1]>>
  BY DEF Crossings
<1> DEFINE dst == x[1]
           o == x[2]
           h == HandedAt(o, dst)
<1>2. /\ o = c[1] /\ dst = Owner(c[2]) /\ x = <<dst, o>>
  BY <1>1
<1>3. /\ o \in Node /\ c[2] \in Node /\ o \in net.dataDeps[c[2]] /\ ~ IsConst(o) /\ Owner(o) # dst
  BY <1>2, CrossingOf
<1>4. dst \in DOMAIN archElements /\ OutClk(o) \in Nat /\ OutClk(c[2]) \in Nat
  BY <1>2, <1>3, NodeClk
<1>5. /\ h \in Int /\ h = HandedClk(o, dst) /\ start_clk(FirstUseTime(o, dst) + Eps) = h
      /\ OutClk(o) <= h /\ h <= start_clk(FirstUse(o, dst))
  BY <1>2, HandedTime
<1>6. PICK m \in Node : /\ Owner(m) = dst /\ o \in net.dataDeps[m]
                        /\ FirstUse(o, dst) = scheduledIn[m]
  BY <1>2, FirstUser
<1>7. start_clk(FirstUse(o, dst)) = OutClk(m) /\ OutClk(m) \in Nat
  BY <1>6, NodeClk
<1>8. h <= OutClk(m)
  BY <1>5, <1>7
<1>9. TirTime(dst, o) = FirstUseTime(o, dst)
  BY <1>2 DEF TirTime
<1>10. Start(dst, o) = h
  BY <1>9 DEF Start, HandedAt
<1>11. archElements[Owner(o)].fsm => \A k \in OutClk(o)..h : IsState(Owner(o), k)
  BY <1>3, <1>5, <1>6, NoGap
<1>12. archElements[dst].fsm => IsState(dst, h)
  <2>1. archElements[dst].fsm => \A k \in h..OutClk(m) : IsState(dst, k)
    BY <1>3, <1>5, <1>6, NoGap
  <2>2. h \in h..OutClk(m)
    BY <1>5, <1>7, <1>8
  <2>3. QED
    BY <2>1, <2>2
<1>13. ~ NeedsBuffer(o, dst)
  <2>1. SUFFICES ASSUME NeedsBuffer(o, dst)
                 PROVE  FALSE
    OBVIOUS
  <2>2. /\ archElements[Owner(o)].fsm /\ archElements[dst].fsm
        /\ ~ IsState(Owner(o), start_clk(FirstUse(o, dst)))
    BY <2>1 DEF NeedsBuffer, MissingState
  <2>3. h = start_clk(FirstUse(o, dst))
    BY <1>5, <2>2 DEF HandedClk
  <2>4. h \in OutClk(o)..h
    BY <1>4, <1>5
  <2>5. QED
    BY <1>11, <2>2, <2>3, <2>4
<1>14. h \in Nat
  BY <1>4, <1>5
<1>15. QED
  BY <1>2, <1>3, <1>4, <1>5, <1>6, <1>8, <1>9, <1>10, <1>11, <1>12, <1>13, <1>14

\* A node finds its operand in its element: the chain begins in a stage of it, not
\* after the node, and a FSM has all the states in between.
LEMMA Arrives ==
  ASSUME Base, ~ AcrossGap, ~ CloseToNextClk, NEW m \in Node, NEW d \in net.dataDeps[m],
         ~ IsConst(d)
  PROVE  LET e == Owner(m)
         IN  /\ d \in Node /\ Reaches(e, d)
             /\ Owner(d) # e => <<e, d>> \in Crossings
             /\ TirTime(e, d) \in Int
             /\ Start(e, d) \in Nat /\ Start(e, d) <= OutClk(m)
             /\ start_clk(TirTime(e, d) + Eps) = Start(e, d)
             /\ archElements[e].fsm => \A c \in Start(e, d)..OutClk(m) : IsState(e, c)
<1> DEFINE e == Owner(m)
<1>1. /\ AllocInput /\ AllocOK /\ NodesCovered /\ ConnectionsSound /\ Analyzed
  BY BaseFacts
<1>2. d \in Node /\ OutClk(d) <= OutClk(m) /\ OutClk(d) \in Nat /\ OutClk(m) \in Nat
  BY NodeClk
<1>3. TirTime(e, d) \in Int
  BY <1>1, <1>2, TirTimeTyped
<1>4. CASE Owner(d) = e
  <2>1. Start(e, d) = OutClk(d) /\ start_clk(TirTime(e, d) + Eps) = OutClk(d)
    BY <1>2, <1>4, OwnStart
  <2>2. archElements[e].fsm => \A c \in OutClk(d)..OutClk(m) : IsState(e, c)
    BY <1>4, NoGap
  <2>3. QED
    BY <1>2, <1>3, <1>4, <2>1, <2>2 DEF Reaches
<1>5. CASE Owner(d) # e
  <2>1. <<d, m>> \in ToSet(connections) /\ <<e, d>> \in Crossings
    BY <1>5, UserCrosses
  <2> DEFINE c == <<d, m>>
             x == <<e, d>>
             h == HandedAt(d, e)
  <2>2. c \in ToSet(connections) /\ c[1] = d /\ c[2] = m /\ x \in Crossings /\ x[1] = e /\ x[2] = d
    BY <2>1
  <2>3. /\ h = HandedClk(c[1], Owner(c[2])) /\ h <= start_clk(FirstUse(c[1], Owner(c[2])))
    BY <2>2, HandedTime
  <2>4. FirstUse(c[1], Owner(c[2])) \in Int /\ FirstUse(c[1], Owner(c[2])) <= scheduledIn[c[2]]
    BY <1>1, <2>2, FirstUser, FirstUseTyped
  <2>5. start_clk(FirstUse(d, e)) <= OutClk(m) /\ start_clk(FirstUse(d, e)) \in Int
    <3>1. scheduledIn[m] \in Int /\ start_clk(scheduledIn[m]) = OutClk(m)
      BY NodeClk
    <3>2. QED
      BY <2>2, <2>4, <3>1, EarlierInClk, ClkBounds
  <2>6. /\ h \in Nat /\ Start(e, d) = h /\ TirTime(e, d) = FirstUseTime(d, e)
        /\ start_clk(FirstUseTime(d, e) + Eps) = h
    BY <2>2, Handed
  <2>7. archElements[e].fsm => \A k \in h..OutClk(m) : IsState(e, k)
    BY <1>5, <2>2, <2>3, NoGap
  <2>8. h <= OutClk(m)
    BY <1>2, <2>2, <2>3, <2>5, <2>6
  <2>9. QED
    BY <1>2, <1>3, <2>1, <2>6, <2>7, <2>8 DEF Reaches
<1>6. QED
  BY <1>4, <1>5

-----------------------------------------------------------------------------
\* What an element allocates.

\* The node is one of the element, or it takes nothing.
Known(e, n) ==
  \/ Owner(n) = e \/ IsConst(n) \/ <<e, n>> \in Crossings
  \/ net.kind[n] = "io" /\ net.dataDeps[n] = {}

\* The nodes of an element are those it owns.
LEMMA OwnerIs ==
  ASSUME Base, NEW e \in DOMAIN archElements, NEW n \in Node
  PROVE  IsOwner(e, n) <=> Owner(n) = e
<1>1. /\ Owner(n) \in DOMAIN archElements /\ IsOwner(Owner(n), n) /\ EachNodeInOneElement
  BY BaseFacts, NodeClk
<1>2. IsOwner(e, n) /\ IsOwner(Owner(n), n) => e = Owner(n)
  BY <1>1 DEF EachNodeInOneElement
<1>3. QED
  BY <1>1, <1>2

\* Nothing is allocated of another element, but what takes nothing: a read is not
\* ordered after an access that does.
LEMMA AllocatesKnown ==
  ASSUME Base, ~ OrderedAfterForeignAccess, NEW e \in DOMAIN archElements,
         NEW n \in Node, Allocates(e, n)
  PROVE  Known(e, n)
<1> DEFINE S == {k \in Node : Allocates(e, k) /\ Known(e, k)}
<1>1. AllocInput /\ net \in Netlists /\ WellFormed(net)
  BY BaseFacts, SchedulerAssumption DEF AllocInput
<1>2. NodesOf(archElements[e]) \subseteq S
  <2>1. ASSUME NEW k \in NodesOf(archElements[e])
        PROVE  k \in S
    <3>1. k \in Node
      BY BaseFacts, ElementFacts DEF NodesOf
    <3>2. IsOwner(e, k)
      BY <2>1 DEF IsOwner
    <3>3. QED
      BY <3>1, <3>2, OwnerIs, AllocatesFacts DEF Known
  <2>2. QED
    BY <2>1
<1>3. ASSUME NEW m \in S, <<e, m>> \notin Crossings,
             NEW d \in (IF IsRead(m) THEN Deps(m) ELSE net.dataDeps[m])
      PROVE  d \in S
  <2>1. m \in Node /\ Allocates(e, m) /\ Known(e, m)
    OBVIOUS
  <2>2. Deps(m) \in SUBSET Node /\ net.dataDeps[m] \subseteq Deps(m)
    BY <1>1, <2>1, NetFacts
  <2>3. d \in Node /\ d \in Deps(m)
    BY <1>3, <2>2
  <2>4. Allocates(e, d)
    BY <1>3, <2>1, AllocatesFacts
  <2>5. CASE d \in net.dataDeps[m]
    <3>1. net.kind[m] # "const"
      BY <1>1, <2>1, <2>5, NetFacts
    <3>2. Owner(m) = e
      BY <1>3, <2>1, <2>5, <3>1 DEF Known, IsConst
    <3>3. IsConst(d) \/ Owner(d) = e \/ <<e, d>> \in Crossings
      BY <2>1, <2>5, <3>2, UserCrosses
    <3>4. QED
      BY <2>3, <2>4, <3>3 DEF Known
  <2>6. CASE d \notin net.dataDeps[m]
    <3>1. d \in net.ordDeps[m]
      BY <2>3, <2>6 DEF Deps, DepsOf
    <3>2. net.kind[d] = "io"
      BY <1>1, <2>1, <3>1 DEF WellFormed
    <3>3. net.dataDeps[d] = {} \/ Owner(d) = e \/ <<e, d>> \in Crossings
      BY <2>3, <2>4, <3>2 DEF OrderedAfterForeignAccess
    <3>4. QED
      BY <2>3, <2>4, <3>2, <3>3 DEF Known
  <2>7. QED
    BY <2>5, <2>6
<1>4. S \in SUBSET Node
  OBVIOUS
<1> HIDE DEF S
<1>5. n \in S
  BY <1>2, <1>3, <1>4 DEF Allocates
<1>6. QED
  BY <1>5 DEF S

-----------------------------------------------------------------------------
\* One step, when nothing keeps the nodes from being built.

\* What is read off the elements does not change.
LEMMA StaticGood ==
  ASSUME UNCHANGED StaticVars
  PROVE  /\ Good' <=> Good
         /\ \A e, d : Start(e, d)' = Start(e, d)
         /\ \A e, d : Reaches(e, d)' <=> Reaches(e, d)
         /\ \A e, c : IsState(e, c)' <=> IsState(e, c)
         /\ \A o, e : HandedAt(o, e)' = HandedAt(o, e)
         /\ \A o, e : LastsFor(o, e)' = LastsFor(o, e)
         /\ \A n : Owner(n)' = Owner(n) /\ IsConst(n)' = IsConst(n)
         /\ \A n : IsRead(n)' = IsRead(n) /\ IsWrite(n)' = IsWrite(n)
         /\ \A n : OutClk(n)' = OutClk(n)
         /\ \A n : Deps(n)' = Deps(n)
         /\ Crossings' = Crossings
<1>1. UNCHANGED <<net, scheduledIn, scheduledOut, archElements, connections>>
  BY DEF StaticVars
<1>2. /\ \A n : Owner(n)' = Owner(n)
      /\ \A n : /\ IsConst(n)' = IsConst(n) /\ OutClk(n)' = OutClk(n) /\ InClk(n)' = InClk(n)
                /\ IsRead(n)' = IsRead(n) /\ IsWrite(n)' = IsWrite(n) /\ Deps(n)' = Deps(n)
      /\ Crossings' = Crossings
      /\ \A o, t : ClosestClkWithState(o, t)' = ClosestClkWithState(o, t)
      /\ \A o, e : FirstUse(o, e)' = FirstUse(o, e)
      /\ \A o, e : FirstUseTime(o, e)' = FirstUseTime(o, e)
      /\ \A o, e : HandedAt(o, e)' = HandedAt(o, e)
      /\ \A e, d : TirTime(e, d)' = TirTime(e, d)
      /\ \A e, n : Allocates(e, n)' <=> Allocates(e, n)
  BY <1>1, StaticOwner, StaticNet, StaticCrossings, StaticMissing, StaticFirstUse, StaticUse,
     StaticTirTime, StaticAllocates
<1>3. \A e, c : IsState(e, c)' <=> IsState(e, c)
  BY <1>1 DEF IsState
<1>4. \A o, e : HandedClk(o, e)' = HandedClk(o, e)
  <2>1. ASSUME NEW o, NEW e
        PROVE  HandedClk(o, e)' = HandedClk(o, e)
    <3>1. HandedClk(o, e)' = IF archElements'[Owner(o)'].fsm /\ ~ archElements'[e].fsm
                             THEN ClosestClkWithState(o, FirstUse(o, e))'
                             ELSE start_clk(FirstUse(o, e)')
      BY DEF HandedClk
    <3>2. ClosestClkWithState(o, FirstUse(o, e))' = ClosestClkWithState(o, FirstUse(o, e))
      <4>1. PICK u : u = FirstUse(o, e)
        OBVIOUS
      <4>2. ClosestClkWithState(o, FirstUse(o, e))' = ClosestClkWithState(o, u)'
        BY <1>2, <4>1 DEF ClosestClkWithState
      <4>3. QED
        BY <1>2, <4>1, <4>2
    <3>3. QED
      BY <1>1, <1>2, <3>1, <3>2 DEF HandedClk
  <2>2. QED
    BY <2>1
<1>5. \A e, a, b : HasGap(e, a, b)' <=> HasGap(e, a, b)
  BY <1>1, <1>3 DEF HasGap
<1>6. AcrossGap' <=> AcrossGap
  <2>1. AcrossGap' <=>
          \E n \in Node : \E d \in {k \in net.dataDeps[n] : ~ IsConst(k)} :
            IF Owner(d) = Owner(n) THEN HasGap(Owner(n), OutClk(d), InClk(n))
            ELSE \/ HasGap(Owner(d), OutClk(d), HandedClk(d, Owner(n)))
                 \/ HasGap(Owner(n), HandedClk(d, Owner(n)), InClk(n))
    <3>1. \A n, d : /\ HasGap(Owner(n), OutClk(d), InClk(n))'
                         <=> HasGap(Owner(n), OutClk(d), InClk(n))
                    /\ HasGap(Owner(d), OutClk(d), HandedClk(d, Owner(n)))'
                         <=> HasGap(Owner(d), OutClk(d), HandedClk(d, Owner(n)))
                    /\ HasGap(Owner(n), HandedClk(d, Owner(n)), InClk(n))'
                         <=> HasGap(Owner(n), HandedClk(d, Owner(n)), InClk(n))
      <4>1. ASSUME NEW n, NEW d
            PROVE  HandedClk(d, Owner(n))' = HandedClk(d, Owner(n))
        <5>1. PICK e : e = Owner(n)
          OBVIOUS
        <5>2. HandedClk(d, Owner(n))' = HandedClk(d, e)'
          BY <1>2, <5>1 DEF HandedClk
        <5>3. QED
          BY <1>4, <5>1, <5>2
      <4>2. QED
        BY <1>1, <1>2, <1>3, <4>1 DEF HasGap
    <3>2. QED
      BY <1>1, <1>2, <3>1 DEF AcrossGap
  <2>2. QED
    BY <2>1 DEF AcrossGap
<1>7. EarlierConst' <=> EarlierConst
  <2>1. \A n, d : IsState(Owner(n), OutClk(d))' <=> IsState(Owner(n), OutClk(d))
    BY <1>1, <1>2 DEF IsState
  <2>2. QED
    BY <1>1, <1>2, <2>1 DEF EarlierConst
<1>8. OrderedAfterForeignAccess' <=> OrderedAfterForeignAccess
  BY <1>1, <1>2 DEF OrderedAfterForeignAccess
<1>9. CloseToNextClk' <=> CloseToNextClk
  BY <1>1, <1>2 DEF CloseToNextClk
<1>10. Good' <=> Good
  BY <1>6, <1>7, <1>8, <1>9 DEF Good
<1>11. \A e, d : Start(e, d)' = Start(e, d)
  BY <1>2 DEF Start
<1>12. \A e, d : Reaches(e, d)' <=> Reaches(e, d)
  BY <1>2 DEF Reaches
<1>13. \A o, e : LastsFor(o, e)' = LastsFor(o, e)
  BY <1>2 DEF LastsFor
<1>14. QED
  BY <1>2, <1>3, <1>10, <1>11, <1>12, <1>13

\* A step that takes a task, with all that is known
SafeTurn(s) == Turn(s) /\ SplitInput /\ SplitInv /\ WhileBuilding
GoodTurn(s) == SafeTurn(s) /\ Good

\* The tasks of a list before the j-th one
Earlier(q, j) == {q[i] : i \in {k \in DOMAIN q : k < j}}

\* The members of a sequence are at its positions.
LEMMA AtPosition ==
  ASSUME NEW q, IsSeq(q)
  PROVE  /\ \A i \in DOMAIN q : q[i] \in ToSet(q)
         /\ \A t \in ToSet(q) : \E i \in DOMAIN q : q[i] = t
         /\ \A j : Earlier(q, j) \subseteq ToSet(q)
  BY DEF ToSet, Earlier

\* What is before a task when the tasks s were put in the place of the first one: the
\* task was there behind the first one, or it is one of s.
LEMMA TurnEarlier ==
  ASSUME NEW s, Turn(s), NEW j \in DOMAIN todo'
  PROVE  \/ \E l \in DOMAIN todo :
              /\ 1 < l /\ todo'[j] = todo[l] /\ Head(todo) \in Earlier(todo, l)
              /\ Earlier(todo', j) \subseteq ToSet(s) \cup Earlier(todo, l)
              /\ ToSet(s) \subseteq Earlier(todo', j)
              /\ \A t \in Earlier(todo, l) : t = Head(todo) \/ t \in Earlier(todo', j)
         \/ j \in DOMAIN s /\ todo'[j] = s[j] /\ Earlier(todo', j) = Earlier(s, j)
<1> DEFINE h == Head(todo)
           r == Tail(todo)
           q == s \o r
<1>1. /\ IsSeq(todo) /\ todo # <<>> /\ IsSeq(s) /\ IsSeq(r) /\ todo' = q
  BY TurnTasks
<1>2. /\ 1 \in DOMAIN todo /\ todo[1] = h
      /\ DOMAIN todo \subseteq Nat \ {0}
      /\ \A i \in DOMAIN r : i + 1 \in DOMAIN todo /\ r[i] = todo[i + 1]
      /\ \A k \in DOMAIN todo : 1 < k => k - 1 \in DOMAIN r /\ r[k - 1] = todo[k]
  BY <1>1, RestAt
<1>3. /\ DOMAIN s = 1..Len(s) /\ Len(s) \in Nat
      /\ DOMAIN r = 1..Len(r) /\ Len(r) \in Nat
      /\ DOMAIN q = 1..(Len(s) + Len(r))
      /\ \A i \in DOMAIN s : q[i] = s[i]
      /\ \A i \in DOMAIN r : q[Len(s) + i] = r[i]
  BY <1>1, JoinedAt
<1>4. j \in DOMAIN q
  BY <1>1
<1> HIDE DEF h, r, q
<1>5. CASE j > Len(s)
  <2> DEFINE l == j - Len(s) + 1
  <2>1. j - Len(s) \in DOMAIN r /\ Len(s) + (j - Len(s)) = j
    BY <1>3, <1>4, <1>5
  <2>2. l \in DOMAIN todo /\ 1 < l /\ q[j] = todo[l]
    BY <1>2, <1>3, <2>1
  <2>3. h \in Earlier(todo, l)
    BY <1>2, <2>2 DEF Earlier
  <2>4. ASSUME NEW t \in Earlier(q, j)
        PROVE  t \in ToSet(s) \/ t \in Earlier(todo, l)
    <3>1. PICK i \in DOMAIN q : i < j /\ t = q[i]
      BY DEF Earlier
    <3>2. CASE i <= Len(s)
      <4>1. i \in DOMAIN s /\ t = s[i]
        BY <1>3, <3>1, <3>2
      <4>2. QED
        BY <1>1, <4>1, AtPosition
    <3>3. CASE i > Len(s)
      <4>1. i - Len(s) \in DOMAIN r /\ Len(s) + (i - Len(s)) = i
        BY <1>3, <3>1, <3>3
      <4>2. i - Len(s) + 1 \in DOMAIN todo /\ t = todo[i - Len(s) + 1]
        BY <1>2, <1>3, <3>1, <4>1
      <4>3. i - Len(s) + 1 < l
        BY <1>3, <1>4, <3>1
      <4>4. QED
        BY <4>2, <4>3 DEF Earlier
    <3>4. QED
      BY <1>3, <3>1, <3>2, <3>3
  <2>5. ASSUME NEW t \in ToSet(s)
        PROVE  t \in Earlier(q, j)
    <3>1. PICK i \in DOMAIN s : s[i] = t
      BY <1>1, AtPosition
    <3>2. i \in DOMAIN q /\ q[i] = t /\ i < j
      BY <1>3, <1>4, <1>5, <3>1
    <3>3. QED
      BY <3>2 DEF Earlier
  <2>6. ASSUME NEW t \in Earlier(todo, l), t # h
        PROVE  t \in Earlier(q, j)
    <3>1. PICK k \in DOMAIN todo : k < l /\ t = todo[k]
      BY DEF Earlier
    <3>2. 1 < k /\ k \in Nat
      BY <1>2, <2>6, <3>1
    <3>3. k - 1 \in DOMAIN r /\ r[k - 1] = t
      BY <1>2, <3>1, <3>2
    <3>4. Len(s) + (k - 1) \in DOMAIN q /\ q[Len(s) + (k - 1)] = t
      BY <1>3, <3>3
    <3>5. Len(s) + (k - 1) < j
      BY <1>3, <1>4, <3>1, <3>2
    <3>6. QED
      BY <3>4, <3>5 DEF Earlier
  <2>7. QED
    BY <1>1, <2>2, <2>3, <2>4, <2>5, <2>6 DEF h
<1>6. CASE j <= Len(s)
  <2>1. j \in DOMAIN s /\ q[j] = s[j]
    BY <1>3, <1>4, <1>6
  <2>2. \A i : (i \in DOMAIN q /\ i < j) <=> (i \in DOMAIN s /\ i < j)
    BY <1>3, <1>4, <1>6
  <2>3. \A i \in DOMAIN s : q[i] = s[i]
    BY <1>3
  <2>4. Earlier(q, j) = Earlier(s, j)
    BY <2>2, <2>3 DEF Earlier
  <2>5. QED
    BY <1>1, <2>1, <2>4
<1>7. QED
  BY <1>3, <1>4, <1>5, <1>6

\* What is put before the same rest is the same.
LEMMA SameBefore ==
  ASSUME NEW s, NEW z, NEW r, IsSeq(s), IsSeq(z), IsSeq(r), s \o r = z \o r
  PROVE  s = z
<1>1. /\ DOMAIN s = 1..Len(s) /\ Len(s) \in Nat /\ Len(r) \in Nat
      /\ DOMAIN (s \o r) = 1..(Len(s) + Len(r))
      /\ \A i \in DOMAIN s : (s \o r)[i] = s[i]
  BY JoinedAt
<1>2. /\ DOMAIN z = 1..Len(z) /\ Len(z) \in Nat
      /\ DOMAIN (z \o r) = 1..(Len(z) + Len(r))
      /\ \A i \in DOMAIN z : (z \o r)[i] = z[i]
  BY JoinedAt
<1>3. Len(s) = Len(z)
  <2>1. 1..(Len(s) + Len(r)) = 1..(Len(z) + Len(r))
    BY <1>1, <1>2
  <2>2. \A a, b \in Nat : 1..a = 1..b => a = b
    <3>1. ASSUME NEW a \in Nat, NEW b \in Nat, 1..a = 1..b
          PROVE  a = b
      <4>1. a > 0 => a \in 1..b
        BY <3>1
      <4>2. b > 0 => b \in 1..a
        BY <3>1
      <4>3. QED
        BY <4>1, <4>2
    <3>2. QED
      BY <3>1
  <2>3. Len(s) + Len(r) \in Nat /\ Len(z) + Len(r) \in Nat
    BY <1>1, <1>2
  <2>4. Len(s) + Len(r) = Len(z) + Len(r)
    BY <2>1, <2>2, <2>3
  <2>5. \A a, b, c \in Nat : a + c = b + c => a = b
    OBVIOUS
  <2>6. QED
    BY <1>1, <1>2, <2>4, <2>5
<1>4. DOMAIN s = DOMAIN z /\ \A i \in DOMAIN s : s[i] = z[i]
  BY <1>1, <1>2, <1>3
<1>5. s = [i \in DOMAIN s |-> s[i]] /\ z = [i \in DOMAIN z |-> z[i]]
  BY DEF IsSeq
<1>6. QED
  BY <1>4, <1>5

\* In the tasks for a node, it is allocated first, then registered.
LEMMA NodeOrder ==
  ASSUME NEW e, NEW n, NEW z, IsSeq(z), \A t \in ToSet(z) : t.step # "after"
  PROVE  LET s == OnEach(<<n>>, "alloc", e) \o OnEach(<<n>>, "after", e) \o z
         IN  \A j \in DOMAIN s :
               /\ s[j].step = "after" => Earlier(s, j) \subseteq {TaskOf("alloc", e, n)}
               /\ s[j] # TaskOf("alloc", e, n) => TaskOf("alloc", e, n) \in Earlier(s, j)
<1> DEFINE a == OnEach(<<n>>, "alloc", e)
           b == OnEach(<<n>>, "after", e)
           y == b \o z
           s == a \o y
<1>1. /\ IsSeq(a) /\ ToSet(a) = {TaskOf("alloc", e, n)} /\ IsSeq(b) /\ ToSet(b) = {TaskOf("after", e, n)}
      /\ DOMAIN a = {1} /\ a[1] = TaskOf("alloc", e, n)
      /\ DOMAIN b = {1} /\ b[1] = TaskOf("after", e, n)
  <2>1. DOMAIN <<n>> = {1}
    OBVIOUS
  <2>2. QED
    BY <2>1, OneCall DEF OnEach, TaskOf
<1>2. IsSeq(y) /\ s = a \o b \o z
  BY <1>1, Joined
<1> HIDE DEF a, b
<1>3. /\ Len(a) = 1 /\ Len(b) = 1
  <2>1. DOMAIN a = 1..Len(a) /\ Len(a) \in Nat /\ DOMAIN b = 1..Len(b) /\ Len(b) \in Nat
    BY <1>1, JoinedAt
  <2>2. \A k \in Nat : {1} = 1..k => k = 1
    <3>1. ASSUME NEW k \in Nat, {1} = 1..k
          PROVE  k = 1
      <4>1. 1 \in 1..k /\ (k > 0 => k \in {1})
        BY <3>1
      <4>2. QED
        BY <4>1
    <3>2. QED
      BY <3>1
  <2>3. QED
    BY <1>1, <2>1, <2>2
<1>4. /\ DOMAIN y = 1..(1 + Len(z)) /\ Len(z) \in Nat /\ DOMAIN z = 1..Len(z)
      /\ y[1] = b[1] /\ \A i \in DOMAIN z : y[1 + i] = z[i]
      /\ Len(y) \in Nat /\ DOMAIN y = 1..Len(y)
  <2>1. /\ DOMAIN z = 1..Len(z) /\ Len(z) \in Nat
        /\ DOMAIN (b \o z) = 1..(Len(b) + Len(z))
        /\ \A i \in DOMAIN b : (b \o z)[i] = b[i]
        /\ \A i \in DOMAIN z : (b \o z)[Len(b) + i] = z[i]
    BY <1>1, JoinedAt
  <2>2. y = b \o z
    OBVIOUS
  <2> HIDE DEF y
  <2>3. DOMAIN y = 1..Len(y) /\ Len(y) \in Nat
    BY <1>2, JoinedAt
  <2>4. QED
    BY <1>1, <1>3, <2>1, <2>2, <2>3
<1>5. /\ DOMAIN s = 1..(1 + Len(y))
      /\ s[1] = a[1] /\ \A i \in DOMAIN y : s[1 + i] = y[i]
  <2>1. IsSeq(a) /\ IsSeq(y) /\ 1 \in DOMAIN a
    BY <1>1, <1>2
  <2>2. s = a \o y
    OBVIOUS
  <2> HIDE DEF y, s
  <2>3. /\ DOMAIN (a \o y) = 1..(Len(a) + Len(y))
        /\ \A i \in DOMAIN a : (a \o y)[i] = a[i]
        /\ \A i \in DOMAIN y : (a \o y)[Len(a) + i] = y[i]
    BY <2>1, JoinedAt
  <2>4. QED
    BY <1>3, <2>1, <2>2, <2>3
<1> HIDE DEF s, y
<1>6. ASSUME NEW j \in DOMAIN s
      PROVE  /\ s[j].step = "after" => Earlier(s, j) \subseteq {TaskOf("alloc", e, n)}
             /\ s[j] # TaskOf("alloc", e, n) => TaskOf("alloc", e, n) \in Earlier(s, j)
  <2>1. CASE j = 1
    <3>1. s[j] = TaskOf("alloc", e, n)
      BY <1>1, <1>5, <2>1
    <3>2. QED
      BY <3>1, TaskFields
  <2>2. CASE j > 1
    <3>1. 1 \in DOMAIN s /\ s[1] = TaskOf("alloc", e, n) /\ 1 < j
      BY <1>1, <1>4, <1>5, <2>2
    <3>2. TaskOf("alloc", e, n) \in Earlier(s, j)
      BY <3>1 DEF Earlier
    <3>3. ASSUME s[j].step = "after"
          PROVE  j = 2
      <4>1. j - 1 \in DOMAIN y /\ 1 + (j - 1) = j
        BY <1>4, <1>5, <2>2
      <4>2. s[j] = y[j - 1]
        BY <1>5, <4>1
      <4>3. j - 1 # 1 => j - 2 \in DOMAIN z /\ 1 + (j - 2) = j - 1
        BY <1>4, <2>2, <4>1
      <4>4. j - 1 # 1 => y[j - 1] = z[j - 2] /\ z[j - 2] \in ToSet(z)
        BY <1>4, <4>3, AtPosition
      <4>5. j - 1 = 1
        BY <3>3, <4>2, <4>4
      <4>6. QED
        BY <2>2, <4>1, <4>5, <1>4
    <3>4. ASSUME s[j].step = "after"
          PROVE  Earlier(s, j) \subseteq {TaskOf("alloc", e, n)}
      <4>1. \A i \in DOMAIN s : i < j => i = 1
        BY <1>4, <1>5, <3>3, <3>4
      <4>2. QED
        BY <3>1, <4>1 DEF Earlier
    <3>5. QED
      BY <3>2, <3>4
  <2>3. QED
    BY <1>4, <1>5, <2>1, <2>2
<1>7. QED
  BY <1>2, <1>6 DEF s, a, b

-----------------------------------------------------------------------------
\* The task that is taken, and those it is replaced by.

\* The step, the first task and its fields
LEMMA TurnBase ==
  ASSUME NEW s, SafeTurn(s)
  PROVE  LET h == Head(todo)
         IN  /\ Base /\ UNCHANGED StaticVars
             /\ h \in Tasks /\ TaskTyped(h)
             /\ h.step \in {"element", "stage", "node", "io", "alloc", "operand", "after", "used",
                            "get", "create", "drive", "makeValid", "sync", "connect"}
             /\ h.step \notin {"element", "stage", "sync"} => h.node \in Node
             /\ h.step \in {"operand", "connect"} => h.user \in Node
             /\ Makes(h, ToSet(s)) /\ Does(h)
             /\ \A t \in Tasks : t = h \/ t \in Tasks'
             /\ \A t \in Tasks' : t \in Tasks \/ t \in ToSet(s)
             /\ ToSet(s) \subseteq Tasks'
<1> DEFINE h == Head(todo)
<1>1. Turn(s) /\ WhileBuilding /\ Base
  BY DEF SafeTurn, Turn, Base
<1>2. /\ h \in Tasks /\ Makes(h, ToSet(s)) /\ TaskOK(h, archElements)
      /\ Tasks = {h} \cup ToSet(Tail(todo)) /\ Tasks' = ToSet(s) \cup ToSet(Tail(todo))
  BY <1>1, TurnTasks
<1>3. UNCHANGED StaticVars
  BY <1>1, TurnKeeps
<1>4. TaskTyped(h)
  BY <1>1, <1>2 DEF WhileBuilding, TasksTyped
<1>5. h.step \in StepsIn("build")
  <2>1. TodoOK /\ ~ AllocFailed /\ allocPhase \in {"build", "done"}
    BY <1>1 DEF Turn, AllocInv, AllocOK, Building, AllocFailed
  <2>2. StepsIn("done") = {}
    BY DEF StepsIn
  <2>3. QED
    BY <1>2, <2>1, <2>2 DEF TodoOK
<1>6. h.step \in {"element", "stage", "node", "io", "alloc", "operand", "after", "used",
                  "get", "create", "drive", "makeValid", "sync", "connect"}
  BY <1>5 DEF StepsIn
<1>7. /\ h.step \notin {"element", "stage", "sync"} => h.node \in Node
      /\ h.step \in {"operand", "connect"} => h.user \in Node
  BY <1>2, <1>6 DEF TaskOK
<1>8. Does(h)
  BY <1>1 DEF Turn
<1>9. QED
  BY <1>1, <1>2, <1>3, <1>4, <1>6, <1>7, <1>8

\* What MadeOf does not say
LEMMA MadeFor ==
  ASSUME NEW s, SafeTurn(s), NEW t \in ToSet(s)
  PROVE  LET h == Head(todo)
         IN  /\ t.step = "drive" => /\ h.step = "alloc" /\ t = TaskOf("drive", h.elm, h.node)
                                    /\ ToSet(s) = OperandTasks(h.elm, h.node) \cup {t}
             /\ t.step = "operand" => /\ h.step = "alloc" /\ ~ IsRead(h.node)
                                      /\ t = OperandCall(h.elm, t.node, h.node)
             /\ t.step = "stage" => h.step = "element"
             /\ t.step = "node" => h.step = "stage"
             /\ t.step = "io" => h.step = "node" /\ t = TaskOf("io", h.elm, h.node)
             /\ t.step = "after" => /\ h.step \in {"node", "operand"} /\ ~ HasRtl(h.elm, h.node)
                                    /\ t = TaskOf("after", h.elm, h.node)
             /\ t.step = "used" =>
                  \/ h.step = "after" /\ \E d \in net.dataDeps[h.node] : t = TaskOf("used", h.elm, d)
                  \/ h.step = "connect" /\ t = TaskOf("used", Owner(h.node), h.node)
             /\ t.step = "sync" => h.step = "connect"
             /\ h.step = "element" => t.step = "stage"
             /\ h.step = "stage" => t.step = "node"
             /\ h.step = "connect" => /\ t.step \in {"makeValid", "get", "used", "sync"}
                                      /\ ToSet(s) = ToSet(HandOver(h.node, Owner(h.user)))
<1> DEFINE h == Head(todo)
<1>1. /\ Makes(h, ToSet(s))
      /\ h.step \in {"element", "stage", "node", "io", "alloc", "operand", "after", "used",
                     "get", "create", "drive", "makeValid", "sync", "connect"}
  BY TurnBase
<1> HIDE DEF h
<1>2. CASE h.step = "element"
  BY <1>1, <1>2 DEF Makes, h
<1>3. CASE h.step = "stage"
  BY <1>1, <1>3, TaskFields DEF Makes, h
<1>4. CASE h.step = "node"
  <2>1. /\ t \in NodeCalls(h.elm, h.node) \cup {TaskOf("io", h.elm, h.node)}
        /\ t = TaskOf("after", h.elm, h.node) => ~ HasRtl(h.elm, h.node)
    BY <1>1, <1>4, TaskFields DEF Makes, NodeCalls, wasInstantiated
  <2>2. QED
    BY <1>4, <2>1, TaskFields DEF h, NodeCalls
<1>5. CASE h.step = "io"
  <2>1. \E d : t = UseCall(h.elm, d, h.node)
    BY <1>1, <1>5 DEF Makes
  <2>2. QED
    BY <1>5, <2>1, TaskFields DEF h
<1>6. CASE h.step = "alloc"
  <2>1. \/ \E d : t = TaskOf("alloc", h.elm, d)
        \/ t \in OperandTasks(h.elm, h.node) /\ ~ IsRead(h.node)
        \/ t = TaskOf("create", h.elm, h.node)
        \/ /\ t = TaskOf("drive", h.elm, h.node)
           /\ ToSet(s) = OperandTasks(h.elm, h.node) \cup {t}
    BY <1>1, <1>6 DEF Makes
  <2>2. t \in OperandTasks(h.elm, h.node) => t = OperandCall(h.elm, t.node, h.node)
    BY DEF OperandTasks, OperandCall
  <2>3. t = OperandCall(h.elm, t.node, h.node) => t.step = "operand"
    BY TaskFields
  <2>4. QED
    BY <1>6, <2>1, <2>2, <2>3, TaskFields DEF h
<1>7. CASE h.step = "operand"
  <2>1. /\ t \in NodeCalls(h.elm, h.node) \cup {UseCall(h.elm, h.node, h.user)}
        /\ t \in NodeCalls(h.elm, h.node) => ~ HasRtl(h.elm, h.node)
    <3>1. t = UseCall(h.elm, h.node, h.user) => t \notin NodeCalls(h.elm, h.node)
      BY TaskFields DEF NodeCalls
    <3>2. QED
      BY <1>1, <1>7, <3>1 DEF Makes
  <2>2. QED
    BY <1>7, <2>1, TaskFields DEF h, NodeCalls
<1>8. CASE h.step = "after"
  <2>1. \E d \in net.dataDeps[h.node] : t = TaskOf("used", h.elm, d)
    BY <1>1, <1>8 DEF Makes
  <2>2. QED
    BY <1>8, <2>1, TaskFields DEF h
<1>9. CASE h.step = "connect"
  <2>1. ToSet(s) = ToSet(HandOver(h.node, Owner(h.user)))
    BY <1>1, <1>9 DEF Makes
  <2>2. /\ t.step \in {"makeValid", "get", "used", "sync"}
        /\ t.step = "used" => t = TaskOf("used", Owner(h.node), h.node)
    BY <2>1, HandOverFacts DEF GetCall, TaskOf
  <2>3. QED
    BY <1>9, <2>1, <2>2 DEF h
<1>10. CASE h.step \in {"used", "get", "create", "drive", "makeValid", "sync"}
  BY <1>1, <1>10 DEF Makes
<1>11. QED
  BY <1>1, <1>2, <1>3, <1>4, <1>5, <1>6, <1>7, <1>8, <1>9, <1>10

\* A chain that is made to last does so, or there is nothing to do.
LEMMA LastsTurn ==
  ASSUME NEW s, SafeTurn(s), Head(todo).step = "makeValid"
  PROVE  LET e == Head(todo).elm
             d == Head(todo).node
             endTime == Head(todo).endTime
             tir == netNodeToRtl[<<e, d>>]
         IN  /\ HasRtl(e, d) /\ d \in Node /\ e = Owner(d) /\ endTime \in Int
             /\ tir.timeOffset = TirTime(e, d) /\ TirTime(e, d) \in Int /\ tir.len \in Nat \ {0}
             /\ \/ /\ UNCHANGED <<netNodeToRtl, stageSignals>>
                   /\ archElements[e].fsm \/ start_clk(endTime) - Start(e, d) < tir.len
                \/ /\ ~ archElements[e].fsm
                   /\ \E K \in Nat \ {0} : \E index \in Int :
                        ExtendsBy(e, d, tir, endTime, K, index)
<1> DEFINE h == Head(todo)
           e == h.elm
           d == h.node
           endTime == h.endTime
           tir == netNodeToRtl[<<e, d>>]
<1>1. /\ AllocInput /\ AllocOK /\ NodesCovered /\ ConnectionsSound /\ Analyzed
      /\ ResourcesOK /\ Building /\ ~ AllocFailed' /\ MakeValid
      /\ h \in Tasks /\ TaskTyped(h) /\ ChainsLong /\ ExtensionsFirst /\ h.node \in Node
  BY TurnBase, BaseFacts, TurnKeeps DEF SafeTurn, Turn, Does, WhileBuilding, Base
<1>2. endTime \in Int
  BY <1>1 DEF TaskTyped
<1>3. e = Owner(d)
  <2>1. IsSeq(todo) /\ todo # <<>>
    BY TurnTasks DEF SafeTurn
  <2>2. 1 \in DOMAIN todo /\ todo[1] = h
    BY <2>1, RestAt
  <2>3. QED
    BY <1>1, <2>2 DEF ExtensionsFirst
<1>4. /\ HasRtl(e, d)
      /\ \/ /\ UNCHANGED <<netNodeToRtl, stageSignals>>
            /\ archElements[e].fsm \/ start_clk(endTime) - start_clk(tir.timeOffset) < tir.len
         \/ ~ archElements[e].fsm /\ ExtendValidity(e, d, endTime)
  BY <1>1 DEF MakeValid, Fail, AllocFailed
<1> DEFINE x == <<e, d>>
<1>5. x \in DOMAIN netNodeToRtl /\ x[1] = e /\ x[2] = d
  BY <1>4 DEF HasRtl
<1>6. tir.timeOffset = TirTime(e, d)
  BY <1>1, <1>5 DEF ResourcesOK
<1>7. TirTime(e, d) \in Int
  BY <1>1, TirTimeTyped
<1>8. tir.len \in Nat \ {0}
  BY <1>1, <1>5 DEF ChainsLong
<1>9. CASE ~ archElements[e].fsm /\ ExtendValidity(e, d, endTime)
  <2>1. /\ ExtendValidity(e, d, endTime) /\ ~ AllocFailed' /\ endTime \in Int
        /\ tir = netNodeToRtl[<<e, d>>] /\ tir.timeOffset \in Int /\ tir.len \in Nat
    BY <1>1, <1>2, <1>6, <1>7, <1>8, <1>9
  <2>2. \E K \in Nat \ {0} : \E index \in Int : ExtendsBy(e, d, tir, endTime, K, index)
    <3> HIDE DEF e, d, endTime, tir
    <3>1. QED
      BY <2>1, ExtensionAdds
  <2>3. QED
    BY <1>1, <1>2, <1>3, <1>4, <1>6, <1>7, <1>8, <1>9, <2>2
<1>10. CASE ~ (~ archElements[e].fsm /\ ExtendValidity(e, d, endTime))
  BY <1>1, <1>2, <1>3, <1>4, <1>6, <1>7, <1>8, <1>10 DEF Start
<1>11. QED
  BY <1>9, <1>10

\* A step adds no stage, but for a chain that is made to last: then to the end of it.
LEMMA StagesTurn ==
  ASSUME NEW s, SafeTurn(s), NEW x \in DOMAIN stageSignals', x \notin DOMAIN stageSignals
  PROVE  LET e == Head(todo).elm
             d == Head(todo).node
         IN  /\ Head(todo).step = "makeValid" /\ ~ archElements[e].fsm
             /\ HasRtl(e, d) /\ d \in Node /\ e = Owner(d)
             /\ \E K \in Nat \ {0} : /\ x = <<e, start_clk(TirTime(e, d) + Eps)
                                                   + netNodeToRtl[<<e, d>>].len - 1 + K>>
                                     /\ \A k \in 1..K :
                                          <<e, start_clk(TirTime(e, d) + Eps)
                                                 + netNodeToRtl[<<e, d>>].len - 1 + k>>
                                            \in DOMAIN stageSignals'
<1> DEFINE h == Head(todo)
           e == h.elm
           d == h.node
           tir == netNodeToRtl[<<e, d>>]
<1>1. AllocInput /\ AllocOK /\ ~ AllocFailed' /\ Does(h)
  BY DEF SafeTurn, Turn, AllocInv
<1>2. CASE h.step = "used"
  BY <1>1, <1>2, UsedEffect DEF Does
<1>3. CASE h.step = "after"
  BY <1>1, <1>3, AfterEffect DEF Does
<1>4. CASE h.step \notin {"used", "after", "makeValid"}
  BY <1>1, <1>4 DEF Does
<1>5. CASE h.step = "makeValid"
  <2>1. /\ HasRtl(e, d) /\ d \in Node /\ e = Owner(d)
        /\ tir.timeOffset = TirTime(e, d) /\ TirTime(e, d) \in Int /\ tir.len \in Nat \ {0}
        /\ \/ UNCHANGED <<netNodeToRtl, stageSignals>>
           \/ /\ ~ archElements[e].fsm
              /\ \E K \in Nat \ {0} : \E index \in Int :
                   ExtendsBy(e, d, tir, h.endTime, K, index)
    BY <1>5, LastsTurn
  <2>2. PICK K \in Nat \ {0}, index \in Int : /\ ~ archElements[e].fsm
                                              /\ ExtendsBy(e, d, tir, h.endTime, K, index)
    BY <2>1
  <2>3. PICK end : end = start_clk(TirTime(e, d) + Eps) + tir.len - 1
    OBVIOUS
  <2>4. \A stage : stage \in DOMAIN stageSignals' <=>
          stage \in DOMAIN stageSignals \/ \E k \in 1..K : stage = <<e, end + k>>
    <3>1. end = start_clk(tir.timeOffset + Eps) + tir.len - 1
      BY <2>1, <2>3
    <3>2. ExtendsBy(e, d, tir, h.endTime, K, index)
      BY <2>2
    <3> HIDE DEF e, d, tir
    <3>3. QED
      BY <3>1, <3>2, StagesOfExtension
  <2>5. PICK k \in 1..K : x = <<e, end + k>>
    BY <2>4
  <2>6. \A j \in 1..k : <<e, end + j>> \in DOMAIN stageSignals'
    BY <2>4
  <2>7. /\ k \in Nat \ {0} /\ x = <<e, start_clk(TirTime(e, d) + Eps) + tir.len - 1 + k>>
        /\ \A j \in 1..k :
             <<e, start_clk(TirTime(e, d) + Eps) + tir.len - 1 + j>> \in DOMAIN stageSignals'
    BY <2>3, <2>5, <2>6
  <2>8. ~ archElements[e].fsm /\ HasRtl(e, d) /\ d \in Node /\ e = Owner(d)
    BY <2>1, <2>2
  <2>9. QED
    BY <1>5, <2>7, <2>8
<1>6. QED
  BY <1>2, <1>3, <1>4, <1>5

-----------------------------------------------------------------------------
\* The stages, and the constants that need one.

\* No FSM gets another state.
LEMMA StatesTurn ==
  ASSUME NEW s, SafeTurn(s), StatesOnly
  PROVE  StatesOnly'
<1>1. UNCHANGED archElements /\ DOMAIN stageSignals \subseteq DOMAIN stageSignals'
  BY TurnKeeps DEF SafeTurn, StaticVars
<1>2. \A e \in DOMAIN archElements' : \A c \in ToSet(archElements'[e].clks) : StageAt(e, c)'
  BY <1>1 DEF StatesOnly, StageAt
<1>3. ASSUME NEW x \in DOMAIN stageSignals'
      PROVE  x = <<x[1], x[2]>> /\ (archElements[x[1]].fsm => IsState(x[1], x[2]))
  <2>1. CASE x \in DOMAIN stageSignals
    BY <2>1 DEF StatesOnly
  <2>2. CASE x \notin DOMAIN stageSignals
    BY <2>2, StagesTurn
  <2>3. QED
    BY <2>1, <2>2
<1>4. \A e, c : IsState(e, c)' <=> IsState(e, c)
  BY <1>1 DEF IsState
<1>5. QED
  BY <1>1, <1>2, <1>3, <1>4 DEF StatesOnly

\* A pipeline gets its stages one behind the other.
LEMMA NoGapsTurn ==
  ASSUME NEW s, GoodTurn(s), NoGapsInPipelines, ChainsThere
  PROVE  NoGapsInPipelines'
<1>1. UNCHANGED archElements /\ DOMAIN stageSignals \subseteq DOMAIN stageSignals'
  BY TurnKeeps DEF GoodTurn, SafeTurn, StaticVars
<1>2. ASSUME NEW x \in DOMAIN stageSignals', ~ archElements[x[1]].fsm
      PROVE  x[2] \in Int /\ \A c \in 0..x[2] : <<x[1], c>> \in DOMAIN stageSignals'
  <2>1. CASE x \in DOMAIN stageSignals
    BY <1>1, <1>2, <2>1 DEF NoGapsInPipelines, StageAt
  <2>2. CASE x \notin DOMAIN stageSignals
    <3> DEFINE e == Head(todo).elm
               d == Head(todo).node
               end == start_clk(TirTime(e, d) + Eps) + netNodeToRtl[<<e, d>>].len - 1
    <3>1. /\ SafeTurn(s) /\ Base /\ ~ CloseToNextClk /\ ChainsLong
      BY TurnBase DEF GoodTurn, Good, SafeTurn, WhileBuilding
    <3>2. /\ HasRtl(e, d) /\ d \in Node /\ e = Owner(d)
          /\ \E K \in Nat \ {0} : /\ x = <<e, end + K>>
                                  /\ \A k \in 1..K : <<e, end + k>> \in DOMAIN stageSignals'
      BY <2>2, <3>1, StagesTurn
    <3>3. start_clk(TirTime(e, d) + Eps) = Start(e, d) /\ Start(e, d) = OutClk(d) /\ OutClk(d) \in Nat
      BY <3>1, <3>2, OwnStart, NodeClk
    <3>4. netNodeToRtl[<<e, d>>].len \in Nat \ {0}
      BY <3>1, <3>2 DEF ChainsLong, HasRtl
    <3>5. end = LastClk(e, d) /\ end \in Nat /\ Start(e, d) \in Nat /\ Start(e, d) <= end
      BY <3>3, <3>4 DEF LastClk
    <3>6. StageAt(e, end)
      <4>1. <<e, d>> \in DOMAIN netNodeToRtl /\ Reaches(e, d)
        BY <3>2 DEF HasRtl, Reaches
      <4>2. \A c \in Start(e, d)..LastClk(e, d) : StageAt(e, c)
        BY <4>1 DEF ChainsThere
      <4>3. QED
        BY <3>5, <4>2
    <3> HIDE DEF e, d, end
    <3>7. PICK K \in Nat \ {0} : /\ x = <<e, end + K>>
                                 /\ \A k \in 1..K : <<e, end + k>> \in DOMAIN stageSignals'
      BY <3>2
    <3>8. x[1] = e /\ x[2] = end + K /\ ~ archElements[e].fsm
      BY <1>2, <3>7
    <3>9. \A c \in 0..end : <<e, c>> \in DOMAIN stageSignals'
      <4>1. \A c \in 0..end : StageAt(e, c)
        <5>1. <<e, end>> \in DOMAIN stageSignals
          BY <3>6 DEF StageAt
        <5>2. QED
          BY <3>8, <5>1 DEF NoGapsInPipelines
      <4>2. QED
        BY <1>1, <4>1 DEF StageAt
    <3>10. ASSUME NEW c \in 0..(end + K)
           PROVE  <<e, c>> \in DOMAIN stageSignals'
      <4>1. CASE c <= end
        BY <3>5, <3>9, <4>1
      <4>2. CASE c > end
        <5>1. c - end \in 1..K /\ end + (c - end) = c
          BY <3>5, <4>2
        <5>2. QED
          BY <3>7, <5>1
      <4>3. QED
        BY <3>5, <4>1, <4>2
    <3>11. QED
      BY <3>5, <3>8, <3>10
  <2>3. QED
    BY <2>1, <2>2
<1>3. QED
  BY <1>1, <1>2 DEF NoGapsInPipelines, StageAt

\* An operator or a write starts with the tasks for its operands, and the one for a
\* constant needs a stage for it.
LEMMA ConstsTurn ==
  ASSUME NEW s, SafeTurn(s), ConstsTaken
  PROVE  ConstsTaken'
<1> DEFINE h == Head(todo)
<1>1. /\ UNCHANGED StaticVars /\ h \in Tasks
      /\ ToSet(s) \subseteq Tasks'
      /\ \A t \in Tasks' : t \in Tasks \/ t \in ToSet(s)
      /\ DOMAIN stageSignals \subseteq DOMAIN stageSignals'
      /\ DOMAIN netNodeToRtl \subseteq DOMAIN netNodeToRtl'
      /\ ResourcesOK /\ Building /\ Turn(s)
      /\ AllocInput /\ AllocOK /\ BuildStep /\ ~ AllocFailed'
  BY TurnBase, TurnKeeps DEF SafeTurn, Turn, AllocInv
<1>2. /\ \A n : Owner(n)' = Owner(n) /\ IsConst(n)' = IsConst(n) /\ OutClk(n)' = OutClk(n)
      /\ \A n : IsWrite(n)' = IsWrite(n)
  BY <1>1, StaticGood
<1>3. UNCHANGED net
  BY <1>1 DEF StaticVars
<1>4. ASSUME NEW x \in DOMAIN netNodeToRtl', x \notin DOMAIN netNodeToRtl
      PROVE  /\ x = <<h.elm, h.node>> /\ net.kind[x[2]] \in {"io", "op"}
             /\ IsRead(x[2]) \/ h.step = "create"
  <2>1. /\ x = <<h.elm, h.node>> /\ h.step \in {"alloc", "create"}
        /\ h.step = "alloc" => IsRead(h.node)
    BY <1>1, <1>4, NewValue
  <2>2. h.step = "create" => net.kind[h.node] = "op"
    BY <1>1 DEF ResourcesOK
  <2>3. QED
    BY <2>1, <2>2 DEF IsRead
<1>5. \A x \in DOMAIN netNodeToRtl' : ~ IsConst(x[2])
  BY <1>4 DEF ConstsTaken, IsConst
<1>6. ASSUME NEW n \in Node, NEW d \in net.dataDeps[n], IsConst(d),
             net.kind[n] = "op" \/ IsWrite(n),
             \/ HasRtl(Owner(n), n)' \/ OfNode("create", Owner(n), n)'
             \/ OfNode("drive", Owner(n), n)' \/ <<Owner(n), n>> \in drives'
      PROVE  OperandCall(Owner(n), d, n) \in Tasks' \/ <<Owner(n), OutClk(d)>> \in DOMAIN stageSignals'
  <2>1. PICK e : e = Owner(n)
    OBVIOUS
  <2>2. \/ <<e, n>> \in DOMAIN netNodeToRtl'
        \/ \E t \in Tasks' : t.step \in {"create", "drive"} /\ t.elm = e /\ t.node = n
        \/ <<e, n>> \in drives'
    BY <1>2, <1>6, <2>1 DEF HasRtl, OfNode
  <2>3. CASE \/ HasRtl(e, n) \/ OfNode("create", e, n) \/ OfNode("drive", e, n)
             \/ <<e, n>> \in drives
    <3>1. OperandCall(e, d, n) \in Tasks \/ StageAt(e, OutClk(d))
      BY <1>6, <2>1, <2>3 DEF ConstsTaken
    <3>2. CASE StageAt(e, OutClk(d))
      BY <1>1, <2>1, <3>2 DEF StageAt
    <3>3. CASE OperandCall(e, d, n) \in Tasks
      <4>1. CASE OperandCall(e, d, n) \in Tasks'
        BY <2>1, <4>1
      <4>2. CASE OperandCall(e, d, n) \notin Tasks'
        <5>1. h = OperandCall(e, d, n) /\ Performed("operand")
          BY <1>1, <3>3, <4>2, TaskTaken, TaskFields
        <5>2. h.elm = e /\ h.node = d /\ InstantiateOutInTime
          BY <5>1, TaskFields DEF Performed
        <5>3. ~ HasRtl(e, d)
          <6>1. <<e, d>>[2] = d
            OBVIOUS
          <6>2. QED
            BY <1>6, <6>1 DEF ConstsTaken, HasRtl
        <5>4. <<e, OutClk(d)>> \in DOMAIN stageSignals
          <6> HIDE DEF h
          <6>1. h.elm = e /\ h.node = d
            BY <5>2
          <6>2. QED
            BY <1>1, <5>2, <5>3, <6>1 DEF InstantiateOutInTime, Fail, AllocFailed, h
        <5>5. QED
          BY <1>1, <2>1, <5>4
      <4>3. QED
        BY <4>1, <4>2
    <3>4. QED
      BY <3>1, <3>2, <3>3
  <2>4. CASE ~ (\/ HasRtl(e, n) \/ OfNode("create", e, n) \/ OfNode("drive", e, n)
                \/ <<e, n>> \in drives)
    <3>1. <<e, n>> \notin DOMAIN netNodeToRtl'
      <4>1. SUFFICES ASSUME <<e, n>> \in DOMAIN netNodeToRtl'
                     PROVE  FALSE
        OBVIOUS
      <4>2. <<e, n>> \notin DOMAIN netNodeToRtl
        BY <2>4 DEF HasRtl
      <4>3. <<e, n>> = <<h.elm, h.node>> /\ (IsRead(n) \/ h.step = "create")
        BY <1>4, <4>1, <4>2
      <4>4. ~ IsRead(n)
        BY <1>6 DEF IsRead, IsWrite
      <4>5. QED
        BY <1>1, <2>4, <4>3, <4>4 DEF OfNode
    <3>2. <<e, n>> \notin drives'
      <4>1. SUFFICES ASSUME <<e, n>> \in drives'
                     PROVE  FALSE
        OBVIOUS
      <4>2. h.step = "drive" /\ <<e, n>> = <<h.elm, h.node>>
        BY <1>1, <2>4, <4>1, RecordGrows
      <4>3. QED
        BY <1>1, <2>4, <4>2 DEF OfNode
    <3>3. PICK t \in Tasks' : t.step \in {"create", "drive"} /\ t.elm = e /\ t.node = n
      BY <2>2, <3>1, <3>2
    <3>4. t \in ToSet(s)
      BY <1>1, <2>4, <3>3 DEF OfNode
    <3>5. /\ t = TaskOf(t.step, h.elm, h.node)
          /\ OperandTasks(h.elm, h.node) \subseteq ToSet(s)
      <4>1. CASE t.step = "create"
        BY <1>1, <3>4, <4>1, MadeOf
      <4>2. CASE t.step = "drive"
        BY <3>4, <4>2, MadeFor
      <4>3. QED
        BY <3>3, <4>1, <4>2
    <3>6. h.elm = e /\ h.node = n
      BY <3>3, <3>5, TaskFields
    <3>7. OperandCall(e, d, n) \in OperandTasks(e, n)
      BY DEF OperandCall, OperandTasks
    <3>8. QED
      BY <1>1, <2>1, <3>5, <3>6, <3>7
  <2>5. QED
    BY <2>3, <2>4
<1>7. /\ \A e, d, n : OperandCall(e, d, n)' = OperandCall(e, d, n)
  BY DEF OperandCall
<1>8. ASSUME NEW n \in Node, NEW d \in net.dataDeps[n], IsConst(d),
             net.kind[n] = "op" \/ IsWrite(n),
             \/ HasRtl(Owner(n), n)' \/ OfNode("create", Owner(n), n)'
             \/ OfNode("drive", Owner(n), n)' \/ (<<Owner(n), n>> \in drives)'
      PROVE  (OperandCall(Owner(n), d, n) \in Tasks \/ StageAt(Owner(n), OutClk(d)))'
  <2>1. OperandCall(Owner(n), d, n) \in Tasks' \/ <<Owner(n), OutClk(d)>> \in DOMAIN stageSignals'
    BY <1>2, <1>6, <1>8
  <2>2. StageAt(Owner(n), OutClk(d))' <=> <<Owner(n), OutClk(d)>> \in DOMAIN stageSignals'
    BY <1>2 DEF StageAt
  <2>3. OperandCall(Owner(n), d, n)' = OperandCall(Owner(n), d, n)
    BY <1>2 DEF OperandCall
  <2>4. QED
    BY <2>1, <2>2, <2>3
<1>9. QED
  BY <1>2, <1>3, <1>5, <1>8 DEF ConstsTaken

-----------------------------------------------------------------------------
\* Which tasks there are, and in which order.

\* The operand of a node comes to its element, or is a constant.
LEMMA OperandReaches ==
  ASSUME Base, NEW m \in Node, NEW d \in net.dataDeps[m]
  PROVE  d \in Node /\ (IsConst(d) \/ Owner(d) = Owner(m) \/ <<Owner(m), d>> \in Crossings)
<1>1. d \in Node
  BY NodeClk
<1>2. ~ IsConst(d) /\ Owner(d) # Owner(m) => <<Owner(m), d>> \in Crossings
  BY UserCrosses
<1>3. QED
  BY <1>1, <1>2

\* The tasks of an element stay its own: what it allocates for others takes nothing.
LEMMA OwnTurn ==
  ASSUME NEW s, GoodTurn(s), OwnTasks
  PROVE  OwnTasks'
<1> DEFINE h == Head(todo)
<1>1. SafeTurn(s) /\ Base /\ ~ OrderedAfterForeignAccess
  BY TurnBase DEF GoodTurn, Good
<1>2. /\ UNCHANGED StaticVars /\ h \in Tasks /\ TaskTyped(h) /\ OwnTask(h)
      /\ h.step \notin {"element", "stage", "sync"} => h.node \in Node
      /\ h.step \in {"operand", "connect"} => h.user \in Node
      /\ \A t \in Tasks' : t \in Tasks \/ t \in ToSet(s)
      /\ Turn(s) /\ Makes(h, ToSet(s))
  BY <1>1, TurnBase DEF SafeTurn, OwnTasks
<1>3. /\ AllocInput /\ ResourcesOK /\ Building /\ AllocatedOK
      /\ \A n \in Node : net.kind[n] = "const" => net.dataDeps[n] = {}
  <2>1. AllocInput /\ ResourcesOK /\ Building /\ AllocatedOK
    BY <1>1, BaseFacts DEF Base, AllocInv
  <2>2. QED
    BY <2>1, NetFacts
<1>4. Crossings \subseteq DOMAIN netNodeToRtl
  BY <1>3 DEF ResourcesOK
<1> HIDE DEF h
<1>5. ASSUME NEW t \in ToSet(s), t.step = "operand"
      PROVE  OwnTask(t)
  <2>1. /\ h.step = "alloc" /\ ~ HasRtl(h.elm, h.node) /\ ~ IsRead(h.node)
        /\ h.elm = t.elm /\ h.node = t.user /\ t.node \in net.dataDeps[h.node]
    BY <1>1, <1>2, <1>5, MadeOf, MadeFor DEF h
  <2>2. h.elm \in DOMAIN archElements /\ h.node \in Node /\ Allocates(h.elm, h.node)
    BY <1>2, <1>3, <2>1 DEF TaskTyped, AllocatedOK
  <2>3. Known(h.elm, h.node)
    BY <1>1, <2>2, AllocatesKnown
  <2>4. net.kind[h.node] # "const" /\ net.dataDeps[h.node] # {} /\ <<h.elm, h.node>> \notin Crossings
    BY <1>3, <1>4, <2>1, <2>2 DEF HasRtl
  <2>5. Owner(h.node) = h.elm
    BY <2>3, <2>4 DEF Known, IsConst
  <2>6. QED
    BY <1>5, <2>1, <2>5 DEF OwnTask
<1>6. ASSUME NEW t \in ToSet(s), t.step = "after"
      PROVE  OwnTask(t)
  <2>1. /\ h.step \in {"node", "operand"} /\ ~ HasRtl(h.elm, h.node)
        /\ t.elm = h.elm /\ t.node = h.node
    BY <1>1, <1>6, MadeFor, TaskFields DEF h
  <2>2. CASE h.step = "node"
    <3>1. IsOwner(h.elm, h.node) /\ h.node \in Node /\ h.elm \in DOMAIN archElements
      BY <1>2, <2>2 DEF TaskTyped
    <3>2. QED
      BY <1>1, <1>6, <2>1, <3>1, OwnerIs DEF OwnTask
  <2>3. CASE h.step = "operand"
    <3>1. Owner(h.user) = h.elm /\ h.user \in Node /\ h.node \in net.dataDeps[h.user]
      BY <1>2, <2>3 DEF OwnTask, TaskTyped
    <3>2. IsConst(h.node) \/ Owner(h.node) = h.elm \/ <<h.elm, h.node>> \in Crossings
      BY <1>1, <3>1, OperandReaches
    <3>3. <<h.elm, h.node>> \notin Crossings
      BY <1>4, <2>1 DEF HasRtl
    <3>4. QED
      BY <1>6, <2>1, <3>2, <3>3 DEF OwnTask
  <2>4. QED
    BY <2>1, <2>2, <2>3
<1>7. ASSUME NEW t \in ToSet(s), t.step = "get", t.user[1] = "node"
      PROVE  OwnTask(t)
  <2>1. \/ h.step = "io" /\ t.elm = h.elm /\ t.user = <<"node", h.node>>
        \/ h.step = "operand" /\ t = UseCall(h.elm, h.node, h.user)
        \/ h.step = "connect"
    BY <1>2, <1>7, MadeOf DEF h
  <2>2. CASE h.step = "io" /\ t.elm = h.elm /\ t.user = <<"node", h.node>>
    <3>1. IsOwner(h.elm, h.node) /\ h.node \in Node /\ h.elm \in DOMAIN archElements
      BY <1>2, <2>2 DEF TaskTyped
    <3>2. t.user[2] = h.node
      BY <2>2
    <3>3. QED
      BY <1>1, <1>7, <2>2, <3>1, <3>2, OwnerIs DEF OwnTask
  <2>3. CASE h.step = "operand" /\ t = UseCall(h.elm, h.node, h.user)
    <3>1. Owner(h.user) = h.elm
      BY <1>2, <2>3 DEF OwnTask
    <3>2. t.user[2] = h.user /\ t.elm = h.elm
      BY <2>3, TaskFields
    <3>3. QED
      BY <1>7, <3>1, <3>2 DEF OwnTask
  <2>4. CASE h.step = "connect"
    <3>1. ToSet(s) = ToSet(HandOver(h.node, Owner(h.user)))
      BY <1>1, <1>7, <2>4, MadeFor DEF h
    <3>2. t = GetCall(Owner(h.node), h.node, start_clk(UseTime(h.node, Owner(h.user))) * Clk,
                      <<"element", Owner(h.user)>>)
      BY <1>7, <3>1, HandOverFacts
    <3>3. t.user[1] = "element"
      BY <3>2 DEF GetCall
    <3>4. QED
      BY <1>7, <3>3
  <2>5. QED
    BY <2>1, <2>2, <2>3, <2>4
<1>8. ASSUME NEW t \in ToSet(s), t.step = "used"
      PROVE  OwnTask(t)
  <2>1. \/ h.step = "after" /\ \E d \in net.dataDeps[h.node] : t = TaskOf("used", h.elm, d)
        \/ h.step = "connect" /\ t = TaskOf("used", Owner(h.node), h.node)
    BY <1>1, <1>8, MadeFor DEF h
  <2>2. CASE h.step = "connect" /\ t = TaskOf("used", Owner(h.node), h.node)
    BY <1>8, <2>2, TaskFields DEF OwnTask, Reaches
  <2>3. CASE h.step = "after" /\ \E d \in net.dataDeps[h.node] : t = TaskOf("used", h.elm, d)
    <3>1. PICK d \in net.dataDeps[h.node] : t = TaskOf("used", h.elm, d)
      BY <2>3
    <3>2. h.node \in Node /\ ~ IsConst(h.node)
      BY <1>2, <1>3, <2>3, <3>1 DEF IsConst
    <3>3. Owner(h.node) = h.elm
      BY <1>2, <2>3, <3>2 DEF OwnTask
    <3>4. IsConst(d) \/ Owner(d) = h.elm \/ <<h.elm, d>> \in Crossings
      BY <1>1, <3>2, <3>3, OperandReaches
    <3>5. t.elm = h.elm /\ t.node = d
      BY <3>1, TaskFields
    <3>6. QED
      BY <1>8, <3>4, <3>5 DEF OwnTask, Reaches
  <2>4. QED
    BY <2>1, <2>2, <2>3
<1>9. ASSUME NEW t \in ToSet(s)
      PROVE  OwnTask(t)
  BY <1>5, <1>6, <1>7, <1>8 DEF OwnTask
<1>10. \A t : OwnTask(t)' <=> OwnTask(t)
  <2>1. /\ \A e, d : Reaches(e, d)' <=> Reaches(e, d)
        /\ \A n : Owner(n)' = Owner(n) /\ IsConst(n)' = IsConst(n) /\ IsRead(n)' = IsRead(n)
    BY <1>2, StaticGood
  <2>2. QED
    BY <2>1 DEF OwnTask
<1>11. QED
  BY <1>2, <1>9, <1>10 DEF OwnTasks

\* Of two lists, the second one of which has at most one task, only the last task can
\* be one of the second one.
LEMMA LastOne ==
  ASSUME NEW a, NEW b, IsSeq(a), IsSeq(b), DOMAIN b \subseteq {1},
         \A t \in ToSet(a) : t.step # "io"
  PROVE  \A i, j \in DOMAIN (a \o b) : i < j => (a \o b)[i].step # "io"
<1>1. ASSUME NEW i \in DOMAIN (a \o b), NEW j \in DOMAIN (a \o b), i < j
      PROVE  (a \o b)[i].step # "io"
  <2> DEFINE q == a \o b
  <2>1. \/ i \in DOMAIN a /\ j \in DOMAIN a /\ q[i] = a[i] /\ q[j] = a[j]
        \/ q[i] \in ToSet(a) /\ q[j] \in ToSet(b)
        \/ \E k, l \in DOMAIN b : k < l /\ q[i] = b[k] /\ q[j] = b[l]
    BY <1>1, JoinedPair
  <2>2. CASE i \in DOMAIN a /\ q[i] = a[i]
    BY <2>2, AtPosition
  <2>3. CASE q[i] \in ToSet(a)
    BY <2>3
  <2>4. CASE \E k, l \in DOMAIN b : k < l
    BY <2>4
  <2>5. QED
    BY <2>1, <2>2, <2>3, <2>4
<1>2. QED
  BY <1>1

\* A step with a node or an operand as its first task is the one for it.
LEMMA StepOfNode ==
  ASSUME NEW s, SafeTurn(s), Head(todo).step \in {"node", "operand"}
  PROVE  /\ Head(todo).step = "node" => AllocateDataPath
         /\ Head(todo).step = "operand" => InstantiateOutInTime
         /\ IsSeq(s) /\ IsSeq(Tail(todo)) /\ todo' = s \o Tail(todo) /\ ~ AllocFailed'
<1> DEFINE h == Head(todo)
<1>1. Turn(s) /\ BuildStep /\ ~ AllocFailed'
  BY DEF SafeTurn, Turn
<1>2. /\ IsSeq(s) /\ todo' = s \o Tail(todo) /\ IsSeq(Tail(todo)) /\ todo # <<>> /\ IsSeq(todo)
  BY <1>1, TurnTasks
<1>3. h \notin ToSet(s)
  BY MadeFor
<1>4. todo' # todo
  <2>1. SUFFICES ASSUME todo' = todo
                 PROVE  FALSE
    OBVIOUS
  <2>2. IsSeq(<<h>>) /\ ToSet(<<h>>) = {h} /\ todo = <<h>> \o Tail(todo)
    BY <1>2, OneTask DEF IsSeq
  <2>3. s = <<h>>
    BY <1>2, <2>1, <2>2, SameBefore
  <2>4. QED
    BY <1>3, <2>2, <2>3
<1>5. CASE LoopOverStages \/ LoopOverNodes
  BY <1>5 DEF LoopOverStages, LoopOverNodes, NextIs
<1>6. CASE Connect \/ MakeValid \/ ConnectSync
  BY <1>6 DEF Connect, MakeValid, ConnectSync, NextIs
<1>7. CASE NextDatapath
  BY <1>1, <1>2, <1>7
  DEF NextDatapath, Get, AfterOutputUsed, AfterNodeInstantiated, InstantiateOutInTime,
      AllocateRtlInstance, CreateOutput, Drive, AllocateDataPath, CopyChannelSync, NextIs
<1>8. QED
  BY <1>1, <1>4, <1>5, <1>6, <1>7 DEF BuildStep

\* In a list of tasks for n it is allocated first, then registered.
AllocatedFirst(s, e, n) ==
  /\ \A j \in DOMAIN s : s[j].step = "after" => Earlier(s, j) \subseteq {TaskOf("alloc", e, n)}
  /\ \A j \in DOMAIN s : s[j] # TaskOf("alloc", e, n) => TaskOf("alloc", e, n) \in Earlier(s, j)
  /\ \A i, j \in DOMAIN s : i < j => s[i].step # "io"

\* The order of these lists.
LEMMA NodeList ==
  ASSUME NEW e, NEW n, NEW z, IsSeq(z), \A t \in ToSet(z) : t.step \in {"io", "get"},
         DOMAIN z \subseteq {1} \/ \A t \in ToSet(z) : t.step # "io",
         NEW s, s = OnEach(<<n>>, "alloc", e) \o OnEach(<<n>>, "after", e) \o z
  PROVE  AllocatedFirst(s, e, n)
<1> DEFINE a == OnEach(<<n>>, "alloc", e)
           b == OnEach(<<n>>, "after", e)
           y == a \o b
<1>1. \A t \in ToSet(z) : t.step # "after"
  OBVIOUS
<1>2. \A j \in DOMAIN s :
        /\ s[j].step = "after" => Earlier(s, j) \subseteq {TaskOf("alloc", e, n)}
        /\ s[j] # TaskOf("alloc", e, n) => TaskOf("alloc", e, n) \in Earlier(s, j)
  BY <1>1, NodeOrder
<1>3. /\ IsSeq(a) /\ ToSet(a) = {TaskOf("alloc", e, n)}
      /\ IsSeq(b) /\ ToSet(b) = {TaskOf("after", e, n)}
  BY OneCall
<1>4. IsSeq(y) /\ ToSet(y) = {TaskOf("alloc", e, n), TaskOf("after", e, n)}
  BY <1>3, Joined
<1>5. \A t \in ToSet(y) : t.step # "io"
  BY <1>4, TaskFields
<1>6. s = y \o z
  OBVIOUS
<1> HIDE DEF y
<1>7. \A i, j \in DOMAIN (y \o z) : i < j => (y \o z)[i].step # "io"
  <2>1. CASE DOMAIN z \subseteq {1}
    BY <1>4, <1>5, <2>1, LastOne
  <2>2. CASE \A t \in ToSet(z) : t.step # "io"
    <3>1. IsSeq(y \o z) /\ ToSet(y \o z) = ToSet(y) \cup ToSet(z)
      BY <1>4, Joined
    <3>2. \A i \in DOMAIN (y \o z) : (y \o z)[i] \in ToSet(y) \cup ToSet(z)
      BY <3>1, AtPosition
    <3>3. QED
      BY <1>5, <2>2, <3>2
  <2>3. QED
    BY <2>1, <2>2
<1>8. \A i, j \in DOMAIN s : i < j => s[i].step # "io"
  BY <1>6, <1>7
<1>9. QED
  BY <1>2, <1>8 DEF AllocatedFirst

\* An operand or a node that is not there is allocated before anything else is done
\* for it, and then registered; the conditions of an access come last.
LEMMA ListOfNode ==
  ASSUME NEW s, SafeTurn(s), Head(todo).step \in {"node", "operand"}
  PROVE  LET e == Head(todo).elm
             n == Head(todo).node
         IN  /\ \A j \in DOMAIN s : s[j].step = "after" => Earlier(s, j) \subseteq {TaskOf("alloc", e, n)}
             /\ Head(todo).step = "operand" /\ ~ HasRtl(e, n) =>
                  \A j \in DOMAIN s : s[j] # TaskOf("alloc", e, n) =>
                    TaskOf("alloc", e, n) \in Earlier(s, j)
             /\ \A i, j \in DOMAIN s : i < j => s[i].step # "io"
<1> DEFINE e == Head(todo).elm
           n == Head(todo).node
           m == Head(todo).user
           a == OnEach(<<n>>, "alloc", e)
           b == OnEach(<<n>>, "after", e)
           c == OnEach(<<n>>, "io", e)
           g == <<GetCall(e, n, scheduledIn[m], <<"node", m>>)>>
<1>1. /\ Head(todo).step = "node" => AllocateDataPath
      /\ Head(todo).step = "operand" => InstantiateOutInTime
      /\ IsSeq(s) /\ IsSeq(Tail(todo)) /\ todo' = s \o Tail(todo) /\ ~ AllocFailed'
  BY StepOfNode
<1>2. /\ IsSeq(a) /\ ToSet(a) = {TaskOf("alloc", e, n)}
      /\ IsSeq(b) /\ ToSet(b) = {TaskOf("after", e, n)}
      /\ IsSeq(c) /\ ToSet(c) = {TaskOf("io", e, n)} /\ DOMAIN c = {1}
      /\ IsSeq(<<>>) /\ ToSet(<<>>) = {} /\ DOMAIN <<>> = {}
      /\ IsSeq(g) /\ \A t \in ToSet(g) : t.step = "get"
  <2>1. DOMAIN <<n>> = {1}
    OBVIOUS
  <2>2. DOMAIN c = {1}
    BY <2>1 DEF OnEach
  <2>3. IsSeq(g) /\ \A t \in ToSet(g) : t.step = "get"
    BY OneTask DEF GetCall
  <2>4. DOMAIN <<>> = {}
    OBVIOUS
  <2>5. QED
    BY <2>2, <2>3, <2>4, OneCall, NoTask
<1>3. CASE Head(todo).step = "node"
  <2> DEFINE B == IF wasInstantiated(e, n) THEN b ELSE <<>>
             C == IF net.kind[n] = "io" THEN c ELSE <<>>
  <2>1. Continue(a \o B \o C)
    BY <1>1, <1>3 DEF AllocateDataPath
  <2>2. IsSeq(B) /\ IsSeq(C) /\ DOMAIN C \subseteq {1}
    BY <1>2
  <2>3. IsSeq(a \o B) /\ ToSet(a \o B) = ToSet(a) \cup ToSet(B)
    BY <1>2, <2>2, Joined
  <2>4. IsSeq(a \o B \o C) /\ ToSet(a \o B \o C) = ToSet(a) \cup ToSet(B) \cup ToSet(C)
    BY <2>2, <2>3, Joined
  <2>5. \A t \in ToSet(C) : t.step \in {"io", "get"}
    BY <1>2, TaskFields
  <2>6. \A t \in ToSet(a) : t.step = "alloc"
    BY <1>2, TaskFields
  <2> HIDE DEF B, C
  <2>7. s = a \o B \o C
    BY <1>1, <2>1, <2>4, SameBefore DEF Continue
  <2>8. CASE wasInstantiated(e, n)
    <3>1. s = a \o b \o C
      BY <2>7, <2>8 DEF B
    <3>2. Head(todo).step # "operand"
      BY <1>3
    <3>3. AllocatedFirst(s, e, n)
      <4> HIDE DEF e, n
      <4>1. QED
        BY <2>2, <2>5, <3>1, NodeList
    <3>4. QED
      BY <3>2, <3>3 DEF AllocatedFirst
  <2>9. CASE ~ wasInstantiated(e, n)
    <3>1. ToSet(B) = {}
      BY <1>2, <2>9 DEF B
    <3>2. \A t \in ToSet(s) : t.step # "after"
      BY <2>4, <2>5, <2>6, <2>7, <3>1
    <3>3. \A t \in ToSet(a \o B) : t.step # "io"
      BY <2>3, <2>6, <3>1
    <3>4. \A i, j \in DOMAIN s : i < j => s[i].step # "io"
      BY <2>2, <2>3, <2>7, <3>3, LastOne
    <3>5. QED
      BY <1>1, <1>3, <3>2, <3>4, AtPosition
  <2>10. QED
    BY <2>8, <2>9
<1>4. CASE Head(todo).step = "operand"
  <2> DEFINE G == IF IsConst(n) THEN <<>> ELSE g
  <2>1. IsSeq(G) /\ \A t \in ToSet(G) : t.step = "get"
    BY <1>2
  <2>2. IF HasRtl(e, n) THEN Continue(G) ELSE Continue(a \o b \o G)
    BY <1>1, <1>4 DEF InstantiateOutInTime, Fail, AllocFailed
  <2> HIDE DEF G
  <2>3. CASE HasRtl(e, n)
    <3>1. s = G
      BY <1>1, <2>1, <2>2, <2>3, SameBefore DEF Continue
    <3>2. \A j \in DOMAIN s : s[j].step = "get"
      BY <2>1, <3>1, AtPosition
    <3>3. QED
      BY <1>4, <2>3, <3>2
  <2>4. CASE ~ HasRtl(e, n)
    <3>1. IsSeq(a \o b \o G)
      BY <1>2, <2>1, Joined
    <3>2. s = a \o b \o G
      BY <1>1, <2>2, <2>4, <3>1, SameBefore DEF Continue
    <3>3. \A t \in ToSet(G) : t.step \in {"io", "get"}
      BY <2>1
    <3>4. \A t \in ToSet(G) : t.step # "io"
      BY <2>1
    <3>5. AllocatedFirst(s, e, n)
      <4> HIDE DEF e, n
      <4>1. QED
        BY <2>1, <3>2, <3>3, <3>4, NodeList
    <3>6. QED
      BY <3>5 DEF AllocatedFirst
  <2>5. QED
    BY <2>3, <2>4
<1>5. QED
  BY <1>3, <1>4

-----------------------------------------------------------------------------
\* The loops.

\* LoopsLast by what is before a task
LEMMA LoopsBefore ==
  LoopsLast <=>
    \A j \in DOMAIN todo : todo[j].step \notin {"element", "stage", "node", "connect"} =>
      \A t \in Earlier(todo, j) : t.step \notin {"element", "stage", "node", "io", "connect"}
<1>1. ASSUME LoopsLast, NEW j \in DOMAIN todo,
             todo[j].step \notin {"element", "stage", "node", "connect"},
             NEW t \in Earlier(todo, j)
      PROVE  t.step \notin {"element", "stage", "node", "io", "connect"}
  <2>1. PICK i \in DOMAIN todo : i < j /\ t = todo[i]
    BY DEF Earlier
  <2>2. QED
    BY <1>1, <2>1 DEF LoopsLast
<1>2. ASSUME \A j \in DOMAIN todo : todo[j].step \notin {"element", "stage", "node", "connect"} =>
               \A t \in Earlier(todo, j) :
                 t.step \notin {"element", "stage", "node", "io", "connect"},
             NEW i \in DOMAIN todo, NEW j \in DOMAIN todo, i < j,
             todo[i].step \in {"element", "stage", "node", "io", "connect"}
      PROVE  todo[j].step \in {"element", "stage", "node", "connect"}
  <2>1. todo[i] \in Earlier(todo, j)
    BY <1>2 DEF Earlier
  <2>2. QED
    BY <1>2, <2>1
<1>3. QED
  BY <1>1, <1>2 DEF LoopsLast

\* The parts of a node come before the rest of the loops.
LEMMA LoopsTurn ==
  ASSUME NEW s, SafeTurn(s), LoopsLast
  PROVE  LoopsLast'
<1> DEFINE h == Head(todo)
<1>1. Turn(s)
  BY DEF SafeTurn
<1>2. ASSUME NEW j \in DOMAIN todo', todo'[j].step \notin {"element", "stage", "node", "connect"},
             NEW t \in Earlier(todo', j)
      PROVE  t.step \notin {"element", "stage", "node", "io", "connect"}
  <2>1. ASSUME NEW l \in DOMAIN todo, todo'[j] = todo[l], h \in Earlier(todo, l),
               Earlier(todo', j) \subseteq ToSet(s) \cup Earlier(todo, l)
        PROVE  t.step \notin {"element", "stage", "node", "io", "connect"}
    <3>1. \A u \in Earlier(todo, l) : u.step \notin {"element", "stage", "node", "io", "connect"}
      BY <1>2, <2>1, LoopsBefore
    <3>2. CASE t \in ToSet(s)
      <4>1. h.step \notin {"element", "stage", "node"}
        BY <2>1, <3>1
      <4>2. t.step \notin {"connect", "element"}
        BY <1>1, <3>2, MadeOf
      <4>3. t.step \notin {"stage", "node", "io"}
        BY <3>2, <4>1, MadeFor
      <4>4. QED
        BY <4>2, <4>3
    <3>3. QED
      BY <1>2, <2>1, <3>1, <3>2
  <2>2. ASSUME j \in DOMAIN s, todo'[j] = s[j], Earlier(todo', j) = Earlier(s, j)
        PROVE  t.step \notin {"element", "stage", "node", "io", "connect"}
    <3>1. PICK i \in DOMAIN s : i < j /\ t = s[i]
      BY <1>2, <2>2 DEF Earlier
    <3>2. s[i] \in ToSet(s) /\ s[j] \in ToSet(s)
      BY <1>1, <2>2, TurnTasks, AtPosition
    <3>3. t.step \notin {"connect", "element"}
      BY <1>1, <3>1, <3>2, MadeOf
    <3>4. s[j].step \notin {"stage", "node"}
      BY <1>2, <2>2
    <3>5. h.step \notin {"element", "stage"}
      BY <3>2, <3>4, MadeFor
    <3>6. t.step \notin {"stage", "node"}
      BY <3>1, <3>2, <3>5, MadeFor
    <3>7. t.step # "io"
      BY <2>2, <3>1, <3>2, MadeFor, ListOfNode
    <3>8. QED
      BY <3>3, <3>6, <3>7
  <2>3. QED
    BY <1>1, <2>1, <2>2, TurnEarlier
<1>3. LoopsLast' <=>
        \A j \in DOMAIN todo' : todo'[j].step \notin {"element", "stage", "node", "connect"} =>
          \A t \in Earlier(todo', j) : t.step \notin {"element", "stage", "node", "io", "connect"}
  <2>1. (Earlier(todo, 1))' = Earlier(todo', 1)
    BY DEF Earlier
  <2>2. ASSUME NEW i \in DOMAIN todo', NEW j \in DOMAIN todo', i < j
        PROVE  todo'[i] \in Earlier(todo', j)
    BY <2>2 DEF Earlier
  <2>3. \A j \in DOMAIN todo' : \A t \in Earlier(todo', j) :
          \E i \in DOMAIN todo' : i < j /\ t = todo'[i]
    BY DEF Earlier
  <2>4. QED
    BY <2>2, <2>3 DEF LoopsLast
<1>4. QED
  BY <1>2, <1>3

\* The loops come to every read.
LEMMA ReadsTurn ==
  ASSUME NEW s, SafeTurn(s), ReadsBuilt
  PROVE  ReadsBuilt'
<1> DEFINE h == Head(todo)
<1>1. /\ UNCHANGED StaticVars /\ Does(h) /\ ToSet(s) \subseteq Tasks' /\ Makes(h, ToSet(s))
      /\ \A t \in Tasks : t = h \/ t \in Tasks'
      /\ DOMAIN netNodeToRtl \subseteq DOMAIN netNodeToRtl'
      /\ AllocInput /\ AllocOK /\ ~ AllocFailed'
  BY TurnBase, TurnKeeps DEF SafeTurn, Turn
<1>2. UNCHANGED <<net, archElements>> /\ \A n : IsRead(n)' = IsRead(n)
  BY <1>1, StaticGood DEF StaticVars
<1>3. ASSUME NEW e \in DOMAIN archElements, NEW k \in DOMAIN archElements[e].nodes,
             NEW n \in ToSet(archElements[e].nodes[k]), IsRead(n)
      PROVE  \/ \E t \in Tasks' : t.step = "element" /\ t.elm = e
             \/ \E t \in Tasks' : t.step = "stage" /\ t.elm = e /\ t.stage = k
             \/ \E t \in Tasks' : t.step = "node" /\ t.elm = e /\ t.node = n
             \/ \E t \in Tasks' : t.step = "alloc" /\ t.elm = e /\ t.node = n
             \/ <<e, n>> \in DOMAIN netNodeToRtl'
  <2>1. \/ OfElement(e) \/ OfStage(e, k) \/ OfNode("node", e, n)
        \/ OfNode("alloc", e, n) \/ HasRtl(e, n)
    BY <1>3 DEF ReadsBuilt
  <2>2. CASE HasRtl(e, n)
    BY <1>1, <2>2 DEF HasRtl
  <2>3. CASE OfElement(e)
    <3>1. PICK t \in Tasks : t.step = "element" /\ t.elm = e
      BY <2>3 DEF OfElement
    <3>2. CASE t = h
      <4> DEFINE u == [step |-> "stage", elm |-> e, stage |-> k]
      <4>1. u \in ToSet(s)
        BY <1>1, <3>1, <3>2 DEF Makes
      <4>2. u.step = "stage" /\ u.elm = e /\ u.stage = k
        OBVIOUS
      <4>3. QED
        BY <1>1, <4>1, <4>2
    <3>3. QED
      BY <1>1, <3>1, <3>2
  <2>4. CASE OfStage(e, k)
    <3>1. PICK t \in Tasks : t.step = "stage" /\ t.elm = e /\ t.stage = k
      BY <2>4 DEF OfStage
    <3>2. CASE t = h
      <4>1. TaskOf("node", e, n) \in ToSet(s)
        BY <1>1, <3>1, <3>2 DEF Makes
      <4>2. QED
        BY <1>1, <4>1, TaskFields
    <3>3. QED
      BY <1>1, <3>1, <3>2
  <2>5. CASE OfNode("node", e, n)
    <3>1. PICK t \in Tasks : t.step = "node" /\ t.elm = e /\ t.node = n
      BY <2>5 DEF OfNode
    <3>2. CASE t = h
      <4>1. TaskOf("alloc", e, n) \in ToSet(s)
        BY <1>1, <3>1, <3>2 DEF Makes, NodeCalls
      <4>2. QED
        BY <1>1, <4>1, TaskFields
    <3>3. QED
      BY <1>1, <3>1, <3>2
  <2>6. CASE OfNode("alloc", e, n)
    <3>1. PICK t \in Tasks : t.step = "alloc" /\ t.elm = e /\ t.node = n
      BY <2>6 DEF OfNode
    <3>2. CASE t = h /\ ~ HasRtl(e, n)
      <4>1. AllocateRtlInstance /\ h.elm = e /\ h.node = n
        BY <1>1, <3>1, <3>2 DEF Does
      <4>2. NewTir(e, n, scheduledOut[n])
        BY <1>1, <1>3, <3>2, <4>1, AllocEffect DEF IsRead, IsWrite
      <4>3. <<e, n>> \in DOMAIN netNodeToRtl'
        BY <4>2 DEF NewTir
      <4>4. QED
        BY <4>3
    <3>3. QED
      BY <1>1, <2>2, <3>1, <3>2
  <2>7. QED
    BY <2>1, <2>2, <2>3, <2>4, <2>5, <2>6
<1>4. QED
  BY <1>2, <1>3 DEF ReadsBuilt, OfElement, OfStage, OfNode, HasRtl

-----------------------------------------------------------------------------
\* The operands of the accesses.

\* A value that is about to be made stays so, until it is there.
LEMMA ComingStays ==
  ASSUME NEW s, SafeTurn(s), NEW e, NEW d \in Node, IsRead(d) \/ net.kind[d] = "op",
         Coming(e, d)
  PROVE  Coming(e, d)'
<1> DEFINE h == Head(todo)
<1>1. /\ Does(h) /\ ToSet(s) \subseteq Tasks' /\ Makes(h, ToSet(s))
      /\ \A t \in Tasks : t = h \/ t \in Tasks'
      /\ DOMAIN netNodeToRtl \subseteq DOMAIN netNodeToRtl'
      /\ AllocInput /\ AllocOK /\ ~ AllocFailed'
  BY TurnBase, TurnKeeps DEF SafeTurn, Turn
<1>2. SUFFICES \/ <<e, d>> \in DOMAIN netNodeToRtl'
               \/ \E t \in Tasks' : t.step \in {"alloc", "create"} /\ t.elm = e /\ t.node = d
  BY DEF Coming, HasRtl, OfNode
<1>3. CASE HasRtl(e, d)
  BY <1>1, <1>3 DEF HasRtl
<1>4. CASE ~ HasRtl(e, d)
  <2>1. PICK t \in Tasks : t.step \in {"alloc", "create"} /\ t.elm = e /\ t.node = d
    BY <1>4 DEF Coming, OfNode
  <2>2. CASE t \in Tasks'
    BY <2>1, <2>2
  <2>3. CASE t = h /\ h.step = "create"
    <3>1. CreateOutput /\ h.elm = e /\ h.node = d
      BY <1>1, <2>1, <2>3 DEF Does
    <3>2. <<e, d>> \in DOMAIN netNodeToRtl'
      BY <1>1, <3>1, CreateEffect DEF NewTir
    <3>3. QED
      BY <3>2
  <2>4. CASE t = h /\ h.step = "alloc"
    <3>1. AllocateRtlInstance /\ h.elm = e /\ h.node = d
      BY <1>1, <2>1, <2>4 DEF Does
    <3>2. CASE IsRead(d)
      <4>1. NewTir(e, d, scheduledOut[d])
        BY <1>1, <1>4, <3>1, <3>2, AllocEffect DEF IsRead, IsWrite
      <4>2. QED
        BY <4>1 DEF NewTir
    <3>3. CASE net.kind[d] = "op"
      <4>1. ~ IsRead(d) /\ ~ IsWrite(d)
        BY <3>3 DEF IsRead, IsWrite
      <4>2. TaskOf("create", e, d) \in ToSet(s)
        BY <1>1, <1>4, <2>4, <3>1, <3>3, <4>1 DEF Makes
      <4>3. QED
        BY <1>1, <4>2, TaskFields
    <3>4. QED
      BY <3>2, <3>3
  <2>5. QED
    BY <1>1, <2>1, <2>2, <2>3, <2>4
<1>5. QED
  BY <1>3, <1>4

\* An operand that is no constant is an operator or a read.
LEMMA OperandKind ==
  ASSUME AllocInput, NEW n \in Node, NEW d \in net.dataDeps[n], ~ IsConst(d)
  PROVE  d \in Node /\ (IsRead(d) \/ net.kind[d] = "op")
<1>1. d \in Node /\ net.kind[d] # "gate" /\ ~ IsWrite(d)
  BY NetFacts
<1>2. net.kind[d] \in Kind /\ net.kind[d] # "const"
  BY <1>1, NetFacts DEF IsConst
<1>3. QED
  BY <1>1, <1>2 DEF Kind, IsRead, IsWrite

\* A read has allocated its operands.
LEMMA ReadsReady ==
  ASSUME NEW s, SafeTurn(s), AccessesReady, NEW n \in Node, NEW d \in net.dataDeps[n],
         IsRead(n), <<Owner(n), n>> \in DOMAIN netNodeToRtl', ~ IsConst(d)
  PROVE  \/ <<Owner(n), d>> \in DOMAIN netNodeToRtl'
         \/ \E t \in Tasks' : t.step \in {"alloc", "create"} /\ t.elm = Owner(n) /\ t.node = d
<1> DEFINE h == Head(todo)
<1>1. /\ ToSet(s) \subseteq Tasks' /\ Makes(h, ToSet(s)) /\ h \in Tasks
      /\ AllocInput /\ ResourcesOK /\ Building /\ Turn(s)
  BY TurnBase, TurnKeeps DEF SafeTurn, Turn
<1>2. PICK e : e = Owner(n)
  OBVIOUS
<1>3. CASE HasRtl(e, n)
  <2>1. Coming(e, d)
    BY <1>2, <1>3 DEF AccessesReady
  <2>2. Coming(e, d)'
    BY <1>1, <2>1, OperandKind, ComingStays
  <2>3. QED
    BY <1>2, <2>2 DEF Coming, HasRtl, OfNode
<1>4. CASE ~ HasRtl(e, n)
  <2>1. e = h.elm /\ n = h.node /\ h.step \in {"alloc", "create"}
    BY <1>1, <1>2, <1>4, NewValue DEF HasRtl
  <2>2. h.step = "alloc"
    BY <1>1, <2>1 DEF ResourcesOK, IsRead
  <2>3. d \in Deps(n)
    BY <1>1, NetFacts
  <2>4. TaskOf("alloc", e, d) \in ToSet(s)
    BY <1>1, <1>4, <2>1, <2>2, <2>3 DEF Makes
  <2>5. QED
    BY <1>1, <1>2, <2>4, TaskFields
<1>5. QED
  BY <1>3, <1>4

\* The operands of an access are brought to it before it is instantiated.
LEMMA AccessesTurn ==
  ASSUME NEW s, SafeTurn(s), AccessesReady
  PROVE  AccessesReady'
<1> DEFINE h == Head(todo)
<1>1. /\ UNCHANGED StaticVars /\ Does(h) /\ ToSet(s) \subseteq Tasks' /\ Makes(h, ToSet(s))
      /\ \A t \in Tasks : t = h \/ t \in Tasks'
      /\ \A t \in Tasks' : t \in Tasks \/ t \in ToSet(s)
      /\ DOMAIN netNodeToRtl \subseteq DOMAIN netNodeToRtl'
      /\ AllocInput /\ AllocOK /\ AllocInv /\ ~ AllocFailed' /\ Building /\ ResourcesOK /\ Base
      /\ h.step \notin {"element", "stage", "sync"} => h.node \in Node
      /\ TaskTyped(h) /\ TasksTyped /\ Turn(s)
  BY TurnBase, TurnKeeps DEF SafeTurn, Turn, WhileBuilding
<1>2. /\ UNCHANGED net
      /\ \A n : Owner(n)' = Owner(n) /\ IsRead(n)' = IsRead(n) /\ IsConst(n)' = IsConst(n)
  BY <1>1, StaticGood DEF StaticVars
<1>3. \A n \in Node : \A d \in net.dataDeps[n] :
        IsRead(n) /\ <<Owner(n), n>> \in DOMAIN netNodeToRtl' /\ ~ IsConst(d) =>
          \/ <<Owner(n), d>> \in DOMAIN netNodeToRtl'
          \/ \E t \in Tasks' : t.step \in {"alloc", "create"} /\ t.elm = Owner(n) /\ t.node = d
  BY ReadsReady
<1>4. \A n \in Node : \A d \in net.dataDeps[n] :
        IsRead(n) /\ HasRtl(Owner(n), n)' /\ ~ IsConst(d) => Coming(Owner(n), d)'
  BY <1>2, <1>3 DEF Coming, HasRtl, OfNode
<1>5. ASSUME NEW t \in Tasks', t.step = "io", NEW d \in net.dataDeps[t.node]
      PROVE  \/ IsConst(d)
             \/ <<t.elm, d>> \in DOMAIN netNodeToRtl'
             \/ \E u \in Tasks' : u.step \in {"alloc", "create"} /\ u.elm = t.elm /\ u.node = d
             \/ OperandCall(t.elm, d, t.node) \in Tasks'
             \/ TaskOf("alloc", t.elm, t.node) \in Tasks'
                  /\ (IsRead(t.node) => <<t.elm, t.node>> \notin DOMAIN netNodeToRtl')
  <2> DEFINE e == t.elm
             n == t.node
  <2>1. SUFFICES ASSUME ~ IsConst(d)
                 PROVE  \/ <<e, d>> \in DOMAIN netNodeToRtl'
                        \/ \E u \in Tasks' : u.step \in {"alloc", "create"} /\ u.elm = e /\ u.node = d
                        \/ OperandCall(e, d, n) \in Tasks'
                        \/ TaskOf("alloc", e, n) \in Tasks'
                             /\ (IsRead(n) => <<e, n>> \notin DOMAIN netNodeToRtl')
    OBVIOUS
  <2>2. TaskTyped(t) /\ n \in Node
    <3>1. CASE t \in Tasks
      <4>1. TaskOK(t, archElements)
        BY <1>1, <3>1 DEF AllocOK, TodoOK
      <4>2. QED
        BY <1>1, <1>5, <3>1, <4>1 DEF TasksTyped, TaskOK
    <3>2. CASE t \in ToSet(s)
      <4>1. h.step = "node" /\ t = TaskOf("io", h.elm, h.node)
        BY <1>5, <3>2, MadeFor
      <4>2. QED
        BY <1>1, <3>2, <4>1, MadeTyped, TaskFields
    <3>3. QED
      BY <1>1, <3>1, <3>2
  <2>3. IsOwner(e, n) /\ e \in DOMAIN archElements
    BY <1>5, <2>2 DEF TaskTyped
  <2>4. e = Owner(n) /\ d \in Node /\ d \in Deps(n) /\ (IsRead(d) \/ net.kind[d] = "op")
    BY <1>1, <2>1, <2>2, <2>3, OwnerIs, OperandKind, NetFacts
  <2>5. IsRead(n) /\ <<e, n>> \in DOMAIN netNodeToRtl' =>
          \/ <<e, d>> \in DOMAIN netNodeToRtl'
          \/ \E u \in Tasks' : u.step \in {"alloc", "create"} /\ u.elm = e /\ u.node = d
    BY <1>3, <2>1, <2>2, <2>4
  <2> HIDE DEF e, n
  <2>6. CASE TaskOf("alloc", e, n) \in Tasks'
    BY <2>5, <2>6
  <2>7. CASE Coming(e, d)
    <3>1. Coming(e, d)'
      BY <2>4, <2>7, ComingStays
    <3>2. QED
      BY <3>1 DEF Coming, HasRtl, OfNode
  <2>8. CASE OperandCall(e, d, n) \in Tasks /\ OperandCall(e, d, n) \notin Tasks'
    <3>1. h.step = "operand" /\ h.elm = e /\ h.node = d
      BY <1>1, <2>8, TaskFields
    <3>2. CASE HasRtl(e, d)
      BY <1>1, <3>2 DEF HasRtl
    <3>3. CASE ~ HasRtl(e, d)
      <4>1. TaskOf("alloc", e, d) \in ToSet(s)
        BY <1>1, <3>1, <3>3 DEF Makes, NodeCalls
      <4>2. QED
        BY <1>1, <4>1, TaskFields
    <3>4. QED
      BY <3>2, <3>3
  <2>9. CASE /\ TaskOf("alloc", e, n) \in Tasks /\ TaskOf("alloc", e, n) \notin Tasks'
             /\ IsRead(n) => ~ HasRtl(e, n)
    <3>1. h.step = "alloc" /\ h.elm = e /\ h.node = n
      BY <1>1, <2>9, TaskFields
    <3>2. ~ HasRtl(e, n)
      <4>1. net.kind[n] = "io"
        <5>1. CASE t \in Tasks
          BY <1>1, <1>5, <5>1 DEF AllocInv, UsesOK, n
        <5>2. CASE t \in ToSet(s)
          <6>1. h.step = "node"
            BY <1>5, <5>2, MadeFor
          <6>2. QED
            BY <3>1, <6>1
        <5>3. QED
          BY <1>1, <5>1, <5>2
      <4>2. IsRead(n) \/ IsWrite(n)
        BY <4>1 DEF IsRead, IsWrite
      <4>3. IsWrite(n) => <<e, n>> \notin DOMAIN netNodeToRtl
        <5>1. <<e, n>>[2] = n
          OBVIOUS
        <5>2. QED
          BY <1>1, <5>1 DEF ResourcesOK
      <4>4. QED
        BY <2>9, <4>2, <4>3 DEF HasRtl
    <3>3. CASE IsRead(n)
      <4>1. TaskOf("alloc", e, d) \in ToSet(s)
        BY <1>1, <2>4, <3>1, <3>2, <3>3 DEF Makes
      <4>2. QED
        BY <1>1, <4>1, TaskFields
    <3>4. CASE ~ IsRead(n)
      <4>1. OperandCall(e, d, n) \in OperandTasks(e, n)
        BY <1>5 DEF OperandCall, OperandTasks, n
      <4>2. IsWrite(n) \/ net.kind[n] = "op" => OperandCall(e, d, n) \in ToSet(s)
        BY <1>1, <3>1, <3>2, <3>4, <4>1 DEF Makes
      <4>3. net.kind[n] = "io"
        <5>1. CASE t \in Tasks
          BY <1>1, <1>5, <5>1 DEF AllocInv, UsesOK, n
        <5>2. CASE t \in ToSet(s)
          BY <1>5, <3>1, <5>2, MadeFor
        <5>3. QED
          BY <1>1, <5>1, <5>2
      <4>4. QED
        BY <1>1, <3>4, <4>2, <4>3 DEF IsRead, IsWrite
    <3>5. QED
      BY <3>3, <3>4
  <2>10. CASE t \in Tasks
    <3>1. \/ IsConst(d) \/ Coming(e, d) \/ OperandCall(e, d, n) \in Tasks
          \/ TaskOf("alloc", e, n) \in Tasks /\ (IsRead(n) => ~ HasRtl(e, n))
      BY <1>5, <2>10 DEF AccessesReady, e, n
    <3>2. QED
      BY <2>1, <2>6, <2>7, <2>8, <2>9, <3>1
  <2>11. CASE t \in ToSet(s)
    <3>1. h.step = "node" /\ t = TaskOf("io", h.elm, h.node)
      BY <1>5, <2>11, MadeFor
    <3>2. h.elm = e /\ h.node = n
      BY <3>1, TaskFields DEF e, n
    <3>3. TaskOf("alloc", e, n) \in ToSet(s)
      BY <1>1, <3>1, <3>2 DEF Makes, NodeCalls
    <3>4. QED
      BY <1>1, <2>6, <3>3
  <2>12. QED
    BY <1>1, <2>10, <2>11
<1>6. \A t \in Tasks' : t.step = "io" =>
        \A d \in net.dataDeps[t.node] :
          \/ IsConst(d)' \/ Coming(t.elm, d)'
          \/ (OperandCall(t.elm, d, t.node) \in Tasks)'
          \/ (TaskOf("alloc", t.elm, t.node) \in Tasks)'
               /\ (IsRead(t.node)' => ~ HasRtl(t.elm, t.node)')
  BY <1>2, <1>5 DEF Coming, HasRtl, OfNode, OperandCall, TaskOf
<1>7. QED
  BY <1>2, <1>4, <1>6 DEF AccessesReady

-----------------------------------------------------------------------------
\* The values that are taken.

\* When the loops go on, nothing of a node is left to do.
LEMMA OnlyLoops ==
  ASSUME NEW s, SafeTurn(s), LoopsLast,
         Head(todo).step \in {"element", "stage", "node", "io", "connect"}
  PROVE  \A t \in Tasks : t = Head(todo) \/ t.step \in {"element", "stage", "node", "connect"}
<1>1. IsSeq(todo) /\ todo # <<>>
  BY TurnTasks DEF SafeTurn
<1>2. 1 \in DOMAIN todo /\ todo[1] = Head(todo) /\ DOMAIN todo \subseteq Nat \ {0}
  BY <1>1, RestAt
<1>3. ASSUME NEW t \in Tasks, t # Head(todo)
      PROVE  t.step \in {"element", "stage", "node", "connect"}
  <2>1. PICK i \in DOMAIN todo : todo[i] = t
    BY <1>1, AtPosition DEF Tasks
  <2>2. 1 < i
    BY <1>2, <1>3, <2>1
  <2>3. QED
    BY <1>2, <2>1, <2>2 DEF LoopsLast
<1>4. QED
  BY <1>3

\* MadeUpTo by what is before a task
LEMMA MadeUpToHere ==
  \A j \in DOMAIN todo :
    MadeUpTo(j) <=>
      \/ HasRtl(todo[j].elm, todo[j].node)
      \/ TaskOf("alloc", todo[j].elm, todo[j].node) \in Earlier(todo, j)
      \/ TaskOf("create", todo[j].elm, todo[j].node) \in Earlier(todo, j)
  BY DEF MadeUpTo, Earlier

\* A value which is allocated is there, or it is about to be created.
LEMMA AllocMakes ==
  ASSUME NEW s, SafeTurn(s), NEW e, NEW d \in Node, IsRead(d) \/ net.kind[d] = "op",
         Head(todo) \in {TaskOf("alloc", e, d), TaskOf("create", e, d)}
  PROVE  \/ <<e, d>> \in DOMAIN netNodeToRtl'
         \/ TaskOf("create", e, d) \in ToSet(s)
<1> DEFINE h == Head(todo)
<1>1. /\ Does(h) /\ Makes(h, ToSet(s))
      /\ DOMAIN netNodeToRtl \subseteq DOMAIN netNodeToRtl'
      /\ AllocInput /\ AllocOK /\ ~ AllocFailed'
  BY TurnBase, TurnKeeps DEF SafeTurn, Turn
<1>2. h.elm = e /\ h.node = d /\ h.step \in {"alloc", "create"}
  BY TaskFields
<1>3. CASE h.step = "create"
  <2>1. CreateOutput
    BY <1>1, <1>3 DEF Does
  <2>2. <<e, d>> \in DOMAIN netNodeToRtl'
    BY <1>1, <1>2, <2>1, CreateEffect DEF NewTir
  <2>3. QED
    BY <2>2
<1>4. CASE h.step = "alloc" /\ ~ HasRtl(e, d)
  <2>1. AllocateRtlInstance
    BY <1>1, <1>4 DEF Does
  <2>2. CASE IsRead(d)
    <3>1. NewTir(e, d, scheduledOut[d])
      BY <1>1, <1>2, <1>4, <2>1, <2>2, AllocEffect DEF IsRead, IsWrite
    <3>2. QED
      BY <3>1 DEF NewTir
  <2>3. CASE net.kind[d] = "op"
    <3>1. ~ IsRead(d) /\ ~ IsWrite(d)
      BY <2>3 DEF IsRead, IsWrite
    <3>2. QED
      BY <1>1, <1>2, <1>4, <2>3, <3>1 DEF Makes
  <2>4. QED
    BY <2>2, <2>3
<1>5. CASE HasRtl(e, d)
  BY <1>1, <1>5 DEF HasRtl
<1>6. QED
  BY <1>2, <1>3, <1>4, <1>5

\* A value is made before a call of get for it is done.
LEMMA GetsTurn ==
  ASSUME NEW s, SafeTurn(s), GetsReady, LoopsLast, AccessesReady
  PROVE  GetsReady'
<1> DEFINE h == Head(todo)
<1>1. /\ ToSet(s) \subseteq Tasks' /\ Makes(h, ToSet(s)) /\ Turn(s) /\ AllocInput /\ h \in Tasks
      /\ DOMAIN netNodeToRtl \subseteq DOMAIN netNodeToRtl' /\ TasksTyped
      /\ IsSeq(todo) /\ IsSeq(s) /\ IsSeq(todo')
  <2>1. Turn(s)
    BY DEF SafeTurn
  <2>2. IsSeq(todo')
    BY <2>1 DEF Turn, AllocInv, AllocOK, TodoOK, IsSeq
  <2>3. QED
    BY <2>1, <2>2, TurnBase, TurnKeeps, TurnTasks DEF SafeTurn, Turn, WhileBuilding
<1>2. ASSUME NEW j \in DOMAIN todo', todo'[j].step = "get", todo'[j].user[1] = "node"
      PROVE  LET e == todo'[j].elm
                 d == todo'[j].node
             IN  \/ <<e, d>> \in DOMAIN netNodeToRtl'
                 \/ TaskOf("alloc", e, d) \in Earlier(todo', j)
                 \/ TaskOf("create", e, d) \in Earlier(todo', j)
  <2> DEFINE t == todo'[j]
             e == t.elm
             d == t.node
  <2>1. ASSUME NEW l \in DOMAIN todo, todo'[j] = todo[l],
               ToSet(s) \subseteq Earlier(todo', j),
               \A u \in Earlier(todo, l) : u = h \/ u \in Earlier(todo', j)
        PROVE  \/ <<e, d>> \in DOMAIN netNodeToRtl'
               \/ TaskOf("alloc", e, d) \in Earlier(todo', j)
               \/ TaskOf("create", e, d) \in Earlier(todo', j)
    <3>1. MadeUpTo(l)
      BY <1>2, <2>1 DEF GetsReady
    <3>2. \/ HasRtl(e, d) \/ TaskOf("alloc", e, d) \in Earlier(todo, l)
          \/ TaskOf("create", e, d) \in Earlier(todo, l)
      BY <2>1, <3>1, MadeUpToHere
    <3>3. t \in Tasks
      BY <1>1, <2>1, AtPosition DEF Tasks
    <3>4. d \in Node /\ (IsRead(d) \/ net.kind[d] = "op")
      <4>1. TaskTyped(t) /\ t.user[1] # "element"
        BY <1>1, <1>2, <3>3 DEF TasksTyped
      <4>2. PICK m \in Node : d \in net.dataDeps[m] /\ ~ IsConst(d)
        BY <1>2, <4>1 DEF TaskTyped
      <4>3. QED
        BY <1>1, <4>2, OperandKind
    <3> HIDE DEF t, e, d
    <3>5. CASE HasRtl(e, d)
      BY <1>1, <3>5 DEF HasRtl
    <3>6. CASE h \in {TaskOf("alloc", e, d), TaskOf("create", e, d)}
      <4>1. \/ <<e, d>> \in DOMAIN netNodeToRtl'
            \/ TaskOf("create", e, d) \in ToSet(s)
        BY <3>4, <3>6, AllocMakes
      <4>2. QED
        BY <2>1, <4>1
    <3>7. QED
      BY <2>1, <3>2, <3>5, <3>6
  <2>2. ASSUME j \in DOMAIN s, todo'[j] = s[j], Earlier(todo', j) = Earlier(s, j)
        PROVE  \/ <<e, d>> \in DOMAIN netNodeToRtl'
               \/ TaskOf("alloc", e, d) \in Earlier(todo', j)
               \/ TaskOf("create", e, d) \in Earlier(todo', j)
    <3>1. t \in ToSet(s) /\ t.step = "get" /\ t.user[1] = "node"
      BY <1>1, <1>2, <2>2, AtPosition
    <3>2. \/ h.step = "io" /\ t.elm = h.elm /\ t.user = <<"node", h.node>>
          \/ h.step = "operand" /\ t = UseCall(h.elm, h.node, h.user)
          \/ h.step = "connect"
      BY <1>1, <3>1, MadeOf
    <3>3. CASE h.step = "connect"
      <4>1. ToSet(s) = ToSet(HandOver(h.node, Owner(h.user)))
        BY <3>1, <3>3, MadeFor
      <4>2. t = GetCall(Owner(h.node), h.node, start_clk(UseTime(h.node, Owner(h.user))) * Clk,
                        <<"element", Owner(h.user)>>)
        BY <3>1, <4>1, HandOverFacts
      <4>3. t.user[1] = "element"
        BY <4>2 DEF GetCall
      <4>4. QED
        BY <3>1, <4>3
    <3>4. CASE h.step = "operand" /\ t = UseCall(h.elm, h.node, h.user)
      <4>1. e = h.elm /\ d = h.node /\ t # TaskOf("alloc", e, d)
        BY <3>4, TaskFields
      <4>2. CASE HasRtl(e, d)
        BY <1>1, <4>2 DEF HasRtl
      <4>3. CASE ~ HasRtl(e, d)
        <5>1. TaskOf("alloc", e, d) \in Earlier(s, j)
          BY <2>2, <3>4, <4>1, <4>3, ListOfNode
        <5>2. QED
          BY <2>2, <5>1
      <4>4. QED
        BY <4>2, <4>3
    <3>5. CASE h.step = "io"
      <4>1. PICK c \in net.dataDeps[h.node] : ~ IsConst(c) /\ t = UseCall(h.elm, c, h.node)
        BY <1>1, <3>1, <3>5 DEF Makes
      <4>2. e = h.elm /\ d = c
        BY <4>1, TaskFields
      <4>3. \A u \in Tasks : u = h \/ u.step \in {"element", "stage", "node", "connect"}
        BY <3>5, OnlyLoops
      <4>4. \A u \in Tasks : u.step \notin {"alloc", "create", "operand"}
        BY <3>5, <4>3
      <4>5. \/ IsConst(c) \/ Coming(h.elm, c)
            \/ OperandCall(h.elm, c, h.node) \in Tasks
            \/ TaskOf("alloc", h.elm, h.node) \in Tasks
        BY <1>1, <3>5 DEF AccessesReady
      <4>6. HasRtl(h.elm, c)
        BY <4>1, <4>4, <4>5, TaskFields DEF Coming, OfNode
      <4>7. QED
        BY <1>1, <4>2, <4>6 DEF HasRtl
    <3>6. QED
      BY <3>2, <3>3, <3>4, <3>5
  <2>3. QED
    BY <1>1, <2>1, <2>2, TurnEarlier
<1>3. ASSUME NEW j \in DOMAIN todo', todo'[j].step = "get", todo'[j].user[1] = "node"
      PROVE  MadeUpTo(j)'
  <2>1. Earlier(todo', j) = {todo'[i] : i \in {k \in DOMAIN todo' : k < j}}
    BY DEF Earlier
  <2>2. \/ <<todo'[j].elm, todo'[j].node>> \in DOMAIN netNodeToRtl'
        \/ \E i \in DOMAIN todo' : i < j /\ \/ todo'[i] = TaskOf("alloc", todo'[j].elm, todo'[j].node)
                                            \/ todo'[i] = TaskOf("create", todo'[j].elm, todo'[j].node)
    BY <1>2, <1>3, <2>1
  <2>3. QED
    BY <2>2 DEF MadeUpTo, HasRtl, TaskOf
<1>4. QED
  BY <1>3 DEF GetsReady

-----------------------------------------------------------------------------
\* A value is new until it is registered.

\* NewUntilRegistered by what is before a task
NewAt(j) ==
  LET e == todo[j].elm
      n == todo[j].node
  IN  /\ HasRtl(e, n) => netNodeToRtl[<<e, n>>].len = 1
      /\ \E S \in SUBSET Node :
           /\ ClosedUnderDeps(S) /\ Deps(n) \subseteq S /\ n \notin S
           /\ \A t \in Earlier(todo, j) : Inside(t, S, n)

\* NewUntilRegistered, for one task.
LEMMA NewUntilHere ==
  ASSUME NewUntilRegistered, NEW j \in DOMAIN todo, todo[j].step = "after"
  PROVE  NewAt(j)
<1>1. PICK S \in SUBSET Node :
        /\ ClosedUnderDeps(S) /\ Deps(todo[j].node) \subseteq S /\ todo[j].node \notin S
        /\ \A i \in DOMAIN todo : i < j => Inside(todo[i], S, todo[j].node)
  BY DEF NewUntilRegistered
<1>2. \A t \in Earlier(todo, j) : Inside(t, S, todo[j].node)
  BY <1>1 DEF Earlier
<1>3. QED
  BY <1>1, <1>2 DEF NewUntilRegistered, NewAt

\* The parts of a task that is about nodes of S are so, too, or make n.
LEMMA MadeInside ==
  ASSUME NEW s, SafeTurn(s), NEW S, ClosedUnderDeps(S), NEW n, Deps(n) \subseteq S,
         Inside(Head(todo), S, n), NEW t \in ToSet(s)
  PROVE  Inside(t, S, n)
<1> DEFINE h == Head(todo)
<1>1. Turn(s) /\ (h.step \in {"alloc", "operand"} => h.node \in Node)
  BY TurnBase DEF SafeTurn
<1>2. \A k \in Node : net.dataDeps[k] \subseteq Deps(k)
  BY NetFacts DEF SafeTurn, Turn
<1>3. h.step = "alloc" => Deps(h.node) \subseteq S /\ h.node \in S \cup {n}
  BY DEF Inside, ClosedUnderDeps
<1>4. h.step = "operand" => h.node \in S
  BY DEF Inside
<1>5. h.step \notin {"element", "stage", "node", "io", "connect", "makeValid"}
  BY DEF Inside
<1>6. t.step \notin {"element", "stage", "node", "io", "connect", "makeValid"}
  <2>1. t.step \notin {"element", "connect"} /\ t.step # "makeValid"
    BY <1>1, <1>5, MadeOf
  <2>2. t.step \notin {"stage", "node", "io"}
    BY <1>5, MadeFor
  <2>3. QED
    BY <2>1, <2>2
<1>7. t.step = "alloc" => t.node \in S \cup {n}
  <2>1. ASSUME t.step = "alloc"
        PROVE  \/ h.step = "operand" /\ t = TaskOf("alloc", h.elm, h.node)
               \/ h.step = "alloc" /\ \E d \in Deps(h.node) : t = TaskOf("alloc", h.elm, d)
    BY <1>1, <1>5, <2>1, MadeOf
  <2>2. QED
    BY <1>3, <1>4, <2>1, TaskFields
<1>8. t.step = "create" => t.node \in S \cup {n}
  <2>1. t.step = "create" => h.step = "alloc" /\ t = TaskOf("create", h.elm, h.node)
    BY <1>1, MadeOf
  <2>2. QED
    BY <1>3, <2>1, TaskFields
<1>9. t.step = "operand" => t.node \in S
  <2>1. t.step = "operand" => h.step = "alloc" /\ t.node \in net.dataDeps[h.node]
    BY <1>1, MadeOf
  <2>2. QED
    BY <1>1, <1>2, <1>3, <2>1
<1>10. t.step = "get" => t.node \in S
  <2>1. t.step = "get" => h.step = "operand" /\ t = UseCall(h.elm, h.node, h.user)
    BY <1>1, <1>5, MadeOf
  <2>2. QED
    BY <1>4, <2>1, TaskFields
<1>11. QED
  BY <1>6, <1>7, <1>8, <1>9, <1>10 DEF Inside

\* Nothing takes a value between its allocation and its registration.
LEMMA NewTurn ==
  ASSUME NEW s, SafeTurn(s), Acyclic, NewUntilRegistered
  PROVE  NewUntilRegistered'
<1> DEFINE h == Head(todo)
<1>1. /\ UNCHANGED StaticVars /\ Does(h) /\ Turn(s) /\ TasksTyped /\ CreatesOnce /\ ChainsLong
      /\ h.step \in {"node", "operand"} => h.node \in Node
      /\ IsSeq(s) /\ AllocInput
  <2>1. Turn(s) /\ TasksTyped /\ CreatesOnce /\ ChainsLong /\ AllocInput
    BY DEF SafeTurn, WhileBuilding, Turn
  <2>2. QED
    BY <2>1, TurnBase, TurnTasks
<1>2. \A n : Deps(n)' = Deps(n)
  BY <1>1, StaticGood
<1>3. ASSUME NEW j \in DOMAIN todo', todo'[j].step = "after"
      PROVE  LET e == todo'[j].elm
                 n == todo'[j].node
             IN  /\ <<e, n>> \in DOMAIN netNodeToRtl' => netNodeToRtl'[<<e, n>>].len = 1
                 /\ \E S \in SUBSET Node :
                      /\ ClosedUnderDeps(S) /\ Deps(n) \subseteq S /\ n \notin S
                      /\ \A t \in Earlier(todo', j) : Inside(t, S, n)
  <2> DEFINE e == todo'[j].elm
             n == todo'[j].node
             Goal == /\ <<e, n>> \in DOMAIN netNodeToRtl' => netNodeToRtl'[<<e, n>>].len = 1
                     /\ \E S \in SUBSET Node :
                          /\ ClosedUnderDeps(S) /\ Deps(n) \subseteq S /\ n \notin S
                          /\ \A t \in Earlier(todo', j) : Inside(t, S, n)
  <2>1. ASSUME NEW l \in DOMAIN todo, todo'[j] = todo[l], h \in Earlier(todo, l),
               Earlier(todo', j) \subseteq ToSet(s) \cup Earlier(todo, l)
        PROVE  Goal
    <3>1. NewAt(l)
      BY <1>3, <2>1, NewUntilHere
    <3>2. HasRtl(e, n) => netNodeToRtl[<<e, n>>].len = 1
      BY <2>1, <3>1 DEF NewAt
    <3>3. PICK S \in SUBSET Node :
            /\ ClosedUnderDeps(S) /\ Deps(n) \subseteq S /\ n \notin S
            /\ \A t \in Earlier(todo, l) : Inside(t, S, n)
      BY <2>1, <3>1 DEF NewAt
    <3> HIDE DEF e, n
    <3>4. Inside(h, S, n)
      BY <2>1, <3>3
    <3>5. \A t \in Earlier(todo', j) : Inside(t, S, n)
      BY <2>1, <3>3, <3>4, MadeInside
    <3>6. ASSUME <<e, n>> \in DOMAIN netNodeToRtl'
          PROVE  netNodeToRtl'[<<e, n>>].len = 1
      <4>1. CASE <<e, n>> \notin DOMAIN netNodeToRtl
        BY <1>1, <3>6, <4>1, NewValue
      <4>2. CASE <<e, n>> \in DOMAIN netNodeToRtl
        <5> DEFINE x == <<e, n>>
        <5>1. h.step # "makeValid" /\ (h.step = "get" => h.node # n)
          BY <3>3, <3>4 DEF Inside
        <5>2. x \in DOMAIN netNodeToRtl /\ x[2] = n
          BY <4>2
        <5> HIDE DEF x
        <5>3. ~ (h.step = "get" /\ x = <<h.elm, h.node>>)
          BY <5>1, <5>2
        <5>4. netNodeToRtl'[x].len = netNodeToRtl[x].len
          BY <1>1, <5>1, <5>2, <5>3, ChainTurn
        <5>5. QED
          BY <3>2, <4>2, <5>4 DEF x, HasRtl
      <4>3. QED
        BY <4>1, <4>2
    <3>7. QED
      BY <3>3, <3>5, <3>6
  <2>2. ASSUME j \in DOMAIN s, todo'[j] = s[j], Earlier(todo', j) = Earlier(s, j)
        PROVE  Goal
    <3>1. s[j] \in ToSet(s)
      BY <1>1, <2>2, AtPosition
    <3>2. /\ h.step \in {"node", "operand"} /\ ~ HasRtl(h.elm, h.node)
          /\ todo'[j] = TaskOf("after", h.elm, h.node)
      BY <1>3, <2>2, <3>1, MadeFor
    <3>3. e = h.elm /\ n = h.node /\ n \in Node
      BY <1>1, <3>2, TaskFields
    <3>4. UNCHANGED netNodeToRtl
      BY <1>1, <3>2 DEF Does
    <3>5. Earlier(todo', j) \subseteq {TaskOf("alloc", e, n)}
      BY <1>3, <2>2, <3>2, <3>3, ListOfNode
    <3>6. PICK S \in SUBSET Node : ClosedUnderDeps(S) /\ Deps(n) \subseteq S /\ n \notin S
      BY <1>1, <3>3, NetFacts, BeforeItself
    <3>7. \A t \in Earlier(todo', j) : Inside(t, S, n)
      BY <3>5, TaskFields DEF Inside
    <3>8. <<e, n>> \notin DOMAIN netNodeToRtl'
      BY <3>2, <3>3, <3>4 DEF HasRtl
    <3>9. QED
      BY <3>6, <3>7, <3>8
  <2>3. QED
    BY <1>1, <2>1, <2>2, TurnEarlier
<1>4. ASSUME NEW j \in DOMAIN todo', todo'[j].step = "after"
      PROVE  /\ HasRtl(todo[j].elm, todo[j].node)'
                  => netNodeToRtl'[<<todo'[j].elm, todo'[j].node>>].len = 1
             /\ \E S \in SUBSET Node :
                  /\ ClosedUnderDeps(S)' /\ Deps(todo[j].node)' \subseteq S /\ todo'[j].node \notin S
                  /\ \A i \in DOMAIN todo' : i < j => Inside(todo'[i], S, todo'[j].node)
  <2>1. PICK n : n = todo'[j].node
    OBVIOUS
  <2>2. PICK S \in SUBSET Node :
          /\ ClosedUnderDeps(S) /\ Deps(n) \subseteq S /\ n \notin S
          /\ \A t \in Earlier(todo', j) : Inside(t, S, n)
    BY <1>3, <1>4, <2>1
  <2>3. ClosedUnderDeps(S)' /\ Deps(todo[j].node)' \subseteq S
    <3>1. Deps(todo[j].node)' = Deps(n)'
      BY <2>1 DEF Deps
    <3>2. QED
      BY <1>2, <2>2, <3>1 DEF ClosedUnderDeps
  <2>4. \A i \in DOMAIN todo' : i < j => Inside(todo'[i], S, n)
    BY <2>2 DEF Earlier
  <2>5. QED
    BY <1>3, <1>4, <2>1, <2>2, <2>3, <2>4 DEF HasRtl
<1>5. QED
  BY <1>4 DEF NewUntilRegistered, Inside, HasRtl

-----------------------------------------------------------------------------
\* The clks of the calls of get.

\* The chain of a value begins in a clk.
LEMMA ReachedStart ==
  ASSUME Base, Good, NEW e, NEW d \in Node, Reaches(e, d)
  PROVE  Start(e, d) \in Nat
<1>1. ~ AcrossGap /\ ~ CloseToNextClk
  BY DEF Good
<1>2. CASE Owner(d) = e
  BY <1>1, <1>2, OwnStart, NodeClk
<1>3. CASE <<e, d>> \in Crossings
  <2> DEFINE x == <<e, d>>
  <2>1. x \in Crossings /\ x[1] = e /\ x[2] = d
    BY <1>3
  <2> HIDE DEF x
  <2>2. QED
    BY <1>1, <2>1, Handed
<1>4. QED
  BY <1>2, <1>3 DEF Reaches

\* get is called for a time which is not before the value comes, in an element that
\* has the states in between.
LEMMA GetTime ==
  ASSUME Base, Good, OwnTasks, TasksTyped, NEW t \in Tasks, t.step = "get"
  PROVE  LET e == t.elm
             d == t.node
             c == start_clk(t.time + Eps)
         IN  /\ e \in DOMAIN archElements /\ d \in Node /\ Reaches(e, d)
             /\ c \in Nat /\ Start(e, d) \in Nat /\ Start(e, d) <= c
             /\ archElements[e].fsm => \A k \in Start(e, d)..c : IsState(e, k)
             /\ t.user[1] # "element" => t.user[1] = "node" /\ IsState(e, c)
             /\ t.user[1] = "element" => /\ c = HandedAt(d, t.user[2]) /\ e = Owner(d)
                                         /\ <<t.user[2], d>> \in Crossings
<1> DEFINE e == t.elm
           d == t.node
           c == start_clk(t.time + Eps)
<1>1. /\ TaskTyped(t) /\ OwnTask(t) /\ ~ AcrossGap /\ ~ CloseToNextClk /\ Eps = 1
      /\ SyncOK /\ Building
  BY BaseFacts DEF TasksTyped, OwnTasks, Good, Base, AllocInv
<1>2. e \in DOMAIN archElements
  BY <1>1 DEF TaskTyped
<1>3. CASE t.user[1] # "element"
  <2>1. PICK m \in Node : /\ t = UseCall(e, d, m) /\ d \in net.dataDeps[m] /\ ~ IsConst(d)
    BY <1>1, <1>3 DEF TaskTyped
  <2>2. t.user[1] = "node" /\ t.user[2] = m /\ t.time = scheduledIn[m]
    BY <2>1, TaskFields
  <2>3. Owner(m) = e
    BY <1>1, <2>2 DEF OwnTask
  <2>4. c = OutClk(m)
    <3>1. start_clk(scheduledIn[m] + 1) = OutClk(m)
      BY <1>1, NotClose
    <3>2. QED
      BY <1>1, <2>2, <3>1
  <2>5. OutClk(m) \in Nat /\ IsState(Owner(m), OutClk(m))
    BY NodeClk
  <2> HIDE DEF e, d, c
  <2>6. /\ d \in Node /\ Reaches(e, d) /\ Start(e, d) \in Nat /\ Start(e, d) <= OutClk(m)
        /\ archElements[e].fsm => \A k \in Start(e, d)..OutClk(m) : IsState(e, k)
    BY <1>1, <2>1, <2>3, Arrives
  <2>7. QED
    BY <1>2, <1>3, <2>2, <2>3, <2>4, <2>5, <2>6 DEF e, d, c
<1>4. CASE t.user[1] = "element"
  <2> DEFINE dst == t.user[2]
             x == <<dst, d>>
             h == HandedAt(d, dst)
  <2>1. e = Owner(d) /\ t.time = h * Clk /\ x \in Crossings
    BY <1>1, <1>4 DEF SyncOK
  <2>2. x[1] = dst /\ x[2] = d
    OBVIOUS
  <2> HIDE DEF x, dst, e, d, h, c
  <2>3. /\ d \in Node /\ HandedAt(d, dst) \in Nat /\ OutClk(d) <= HandedAt(d, dst)
        /\ archElements[Owner(d)].fsm => \A k \in OutClk(d)..HandedAt(d, dst) : IsState(Owner(d), k)
    BY <1>1, <2>1, <2>2, Handed
  <2>4. Start(e, d) = OutClk(d) /\ OutClk(d) \in Nat
    BY <1>1, <2>1, <2>3, OwnStart, NodeClk
  <2>5. c = h
    BY <2>1, <2>3, ClkOfSignal DEF h, c
  <2>6. Reaches(e, d)
    BY <2>1 DEF Reaches
  <2>7. QED
    BY <1>2, <1>4, <2>1, <2>3, <2>4, <2>5, <2>6 DEF e, d, c, dst, h, x
<1>5. QED
  BY <1>3, <1>4

\* A call of get that makes a chain longer does so where there are stages: before a
\* value is handed over by a pipeline its chain was made to last.
LEMMA GetStages ==
  ASSUME NEW s, GoodTurn(s), StatesOnly, NoGapsInPipelines, OwnTasks, HandReady,
         Head(todo).step = "get"
  PROVE  LET h == Head(todo)
             e == h.elm
             d == h.node
             c == start_clk(h.time + Eps)
         IN  c <= LastClk(e, d) \/ \A k \in Start(e, d)..c : StageAt(e, k)
<1> DEFINE h == Head(todo)
           e == h.elm
           d == h.node
           c == start_clk(h.time + Eps)
<1>1. SafeTurn(s) /\ Good
  BY DEF GoodTurn
<1>2. Base /\ h \in Tasks /\ TasksTyped /\ ExtensionsFirst /\ IsSeq(todo) /\ todo # <<>>
  BY <1>1, TurnBase, TurnTasks DEF SafeTurn, WhileBuilding
<1>3. /\ e \in DOMAIN archElements /\ d \in Node /\ Reaches(e, d)
      /\ c \in Nat /\ Start(e, d) \in Nat /\ Start(e, d) <= c
      /\ archElements[e].fsm => \A k \in Start(e, d)..c : IsState(e, k)
      /\ h.user[1] # "element" => h.user[1] = "node" /\ IsState(e, c)
      /\ h.user[1] = "element" => c = HandedAt(d, h.user[2])
  BY <1>1, <1>2, GetTime
<1>4. \A k : IsState(e, k) => StageAt(e, k)
  BY <1>3 DEF StatesOnly, IsState
<1>5. CASE archElements[e].fsm
  BY <1>3, <1>4, <1>5
<1>6. CASE ~ archElements[e].fsm /\ h.user[1] # "element"
  <2>1. StageAt(e, c)
    BY <1>3, <1>4, <1>6
  <2> HIDE DEF e, c
  <2>2. \A k \in 0..c : StageAt(e, k)
    <3>1. <<e, c>> \in DOMAIN stageSignals
      BY <2>1 DEF StageAt
    <3>2. QED
      BY <1>6, <3>1 DEF NoGapsInPipelines
  <2>3. QED
    BY <1>3, <2>2 DEF e, c
<1>7. CASE ~ archElements[e].fsm /\ h.user[1] = "element"
  <2>1. LastsFor(d, h.user[2]) \notin Tasks
    <3>1. LastsFor(d, h.user[2]).step = "makeValid"
      BY DEF LastsFor
    <3>2. 1 \in DOMAIN todo /\ todo[1] = h
      BY <1>2, RestAt
    <3>3. ASSUME NEW t \in Tasks, t.step = "makeValid"
          PROVE  FALSE
      <4>1. PICK i \in DOMAIN todo : todo[i] = t
        BY <1>2, AtPosition DEF Tasks
      <4>2. i = 1
        BY <1>2, <3>3, <4>1 DEF ExtensionsFirst
      <4>3. QED
        BY <3>2, <3>3, <4>1, <4>2
    <3>4. QED
      BY <3>1, <3>3
  <2>2. HandedAt(d, h.user[2]) <= LastClk(e, d)
    BY <1>2, <1>7, <2>1 DEF HandReady
  <2>3. QED
    BY <1>3, <1>7, <2>2
<1>8. QED
  BY <1>5, <1>6, <1>7

\* The chain of d gets K stages more, in which it is registered, and lasts until endTime.
Lengthened(e, d, endTime, K) ==
  /\ netNodeToRtl'[<<e, d>>].len = netNodeToRtl[<<e, d>>].len + K
  /\ \A stage, c : Registered(stage, c)' <=>
       Registered(stage, c) \/ (c = d /\ \E k \in 1..K : stage = <<e, LastClk(e, d) + k>>)
  /\ \A stage : stage \in DOMAIN stageSignals' <=>
       stage \in DOMAIN stageSignals \/ \E k \in 1..K : stage = <<e, LastClk(e, d) + k>>
  /\ \E t \in Int : endTime <= t /\ start_clk(t) = LastClk(e, d) + K

\* A chain that is made to last does so, or there is nothing to do.
LEMMA LengthTurn ==
  ASSUME NEW s, GoodTurn(s), Head(todo).step = "makeValid"
  PROVE  LET e == Head(todo).elm
             d == Head(todo).node
             endTime == Head(todo).endTime
         IN  /\ HasRtl(e, d) /\ d \in Node /\ e = Owner(d) /\ endTime \in Int
             /\ netNodeToRtl[<<e, d>>].len \in Nat \ {0} /\ Start(e, d) \in Nat
             /\ \/ /\ UNCHANGED <<netNodeToRtl, stageSignals>>
                   /\ archElements[e].fsm
                        \/ start_clk(endTime) - Start(e, d) < netNodeToRtl[<<e, d>>].len
                \/ ~ archElements[e].fsm /\ \E K \in Nat \ {0} : Lengthened(e, d, endTime, K)
<1> DEFINE h == Head(todo)
           e == h.elm
           d == h.node
           endTime == h.endTime
           tir == netNodeToRtl[<<e, d>>]
           x == <<e, d>>
<1>1. SafeTurn(s) /\ Good /\ Base /\ ~ CloseToNextClk /\ ResourcesOK /\ Building
  BY TurnBase, BaseFacts DEF GoodTurn, Good, Base
<1>2. /\ HasRtl(e, d) /\ d \in Node /\ e = Owner(d) /\ endTime \in Int
      /\ tir.timeOffset = TirTime(e, d) /\ TirTime(e, d) \in Int /\ tir.len \in Nat \ {0}
      /\ \/ /\ UNCHANGED <<netNodeToRtl, stageSignals>>
            /\ archElements[e].fsm \/ start_clk(endTime) - Start(e, d) < tir.len
         \/ /\ ~ archElements[e].fsm
            /\ \E K \in Nat \ {0} : \E index \in Int : ExtendsBy(e, d, tir, endTime, K, index)
  BY <1>1, LastsTurn
<1> HIDE DEF h, e, d, endTime
<1>3. /\ Start(e, d) = OutClk(d) /\ OutClk(d) \in Nat
      /\ start_clk(TirTime(e, d) + Eps) = OutClk(d)
      /\ start_clk(TirTime(e, d) + Eps + Eps) = OutClk(d)
      /\ start_clk(TirTime(e, d)) = OutClk(d)
  BY <1>1, <1>2, OwnStart, NodeClk DEF Start
<1>4. x \in DOMAIN netNodeToRtl /\ x[1] = e /\ x[2] = d
  BY <1>2 DEF HasRtl
<1>5. ASSUME NEW K \in Nat \ {0}, NEW index \in Int, ExtendsBy(e, d, tir, endTime, K, index)
      PROVE  Lengthened(e, d, endTime, K)
  <2>1. PICK len \in Nat \ {0} : len = tir.len
    BY <1>2
  <2>2. LastClk(e, d) = OutClk(d) + len - 1
    BY <1>3, <2>1 DEF LastClk
  <2>3. index = len - 1 + K
    <3>1. index = OutClk(d) + len - 1 + K - OutClk(d)
      BY <1>2, <1>3, <1>5, <2>1 DEF ExtendsBy
    <3>2. QED
      BY <1>3, <3>1
  <2>4. netNodeToRtl'[<<e, d>>].len = len + K
    <3>1. netNodeToRtl' = [netNodeToRtl EXCEPT ![<<e, d>>] = Extended(@, index)]
      BY <1>5 DEF ExtendsBy
    <3>2. netNodeToRtl'[<<e, d>>] = Extended(tir, index)
      BY <1>4, <3>1
    <3>3. tir = [timeOffset |-> TirTime(e, d), len |-> len]
      BY <1>1, <1>4, <2>1 DEF ResourcesOK
    <3>4. Extended(tir, index).len = IF index < len THEN len ELSE index + 1
      <4> HIDE DEF tir
      <4>1. QED
        BY <3>3, ExtendedLen
    <3>5. QED
      BY <2>3, <3>2, <3>4
  <2>5. start_clk(tir.timeOffset + Eps) + tir.len - 1 = LastClk(e, d)
    BY <1>2, <1>3, <2>1, <2>2
  <2>6. QED
    BY <1>5, <2>1, <2>4, <2>5 DEF ExtendsBy, Lengthened
<1>6. Start(e, d) \in Nat
  BY <1>3
<1>7. QED
  BY <1>2, <1>5, <1>6 DEF h, e, d, endTime

-----------------------------------------------------------------------------
\* The chains and their stages.

\* A chain never ends earlier than before.
LEMMA LastGrows ==
  ASSUME NEW s, SafeTurn(s), NEW x \in DOMAIN netNodeToRtl
  PROVE  /\ x \in DOMAIN netNodeToRtl' /\ x = <<x[1], x[2]>> /\ x[2] \in Node
         /\ netNodeToRtl[x].len \in Nat \ {0} /\ netNodeToRtl'[x].len \in Nat \ {0}
         /\ netNodeToRtl[x].len <= netNodeToRtl'[x].len
         /\ Start(x[1], x[2]) \in Int
         /\ LastClk(x[1], x[2]) = Start(x[1], x[2]) + netNodeToRtl[x].len - 1
<1>1. /\ Turn(s) /\ TasksTyped /\ CreatesOnce /\ ChainsLong /\ ResourcesOK /\ Base
      /\ DOMAIN netNodeToRtl \subseteq DOMAIN netNodeToRtl' /\ Building
  BY TurnBase, TurnKeeps DEF SafeTurn, WhileBuilding, Turn
<1>2. x = <<x[1], x[2]>> /\ x[2] \in Node
  BY <1>1 DEF ResourcesOK
<1>3. netNodeToRtl[x].len \in Nat \ {0}
  BY <1>1 DEF ChainsLong
<1>4. netNodeToRtl'[x].len \in Nat \ {0} /\ netNodeToRtl[x].len <= netNodeToRtl'[x].len
  <2> DEFINE index == IndexFor(netNodeToRtl[x], Head(todo).time)
  <2>1. \/ netNodeToRtl'[x].len = netNodeToRtl[x].len
        \/ index \in Nat /\ netNodeToRtl[x].len <= index /\ netNodeToRtl'[x].len = index + 1
        \/ netNodeToRtl'[x].len \in Nat /\ netNodeToRtl[x].len < netNodeToRtl'[x].len
    BY <1>1, ChainTurn
  <2> HIDE DEF index
  <2>2. QED
    BY <1>3, <2>1
<1>5. Start(x[1], x[2]) \in Int
  <2>1. TirTime(x[1], x[2]) \in Int
    BY <1>1, <1>2, BaseFacts, TirTimeTyped DEF Base, AllocInv
  <2>2. QED
    BY <2>1, ClkBounds DEF Start
<1>6. LastClk(x[1], x[2]) = Start(x[1], x[2]) + netNodeToRtl[x].len - 1
  BY <1>2 DEF LastClk
<1>7. QED
  BY <1>1, <1>2, <1>3, <1>4, <1>5, <1>6

\* When a chain gets longer, its stages are there.
LEMMA ChainStages ==
  ASSUME NEW s, GoodTurn(s), StatesOnly, NoGapsInPipelines, OwnTasks, HandReady, ChainsThere,
         NEW x \in DOMAIN netNodeToRtl', Reaches(x[1], x[2]),
         NEW c \in Start(x[1], x[2])..(Start(x[1], x[2]) + netNodeToRtl'[x].len - 1)
  PROVE  <<x[1], c>> \in DOMAIN stageSignals'
<1> DEFINE h == Head(todo)
           e == x[1]
           d == x[2]
<1>1. SafeTurn(s) /\ Good /\ Base /\ ~ CloseToNextClk
  BY TurnBase DEF GoodTurn, Good
<1>2. /\ Turn(s) /\ TasksTyped /\ CreatesOnce /\ ChainsLong /\ ResourcesOK /\ ResourcesOK'
      /\ DOMAIN stageSignals \subseteq DOMAIN stageSignals' /\ Building /\ Building'
      /\ h \in Tasks /\ UNCHANGED StaticVars
  BY <1>1, TurnBase, TurnKeeps DEF SafeTurn, WhileBuilding, Turn
<1>3. CASE x \notin DOMAIN netNodeToRtl
  <2>1. x = <<e, d>> /\ d \in Node
    BY <1>2 DEF ResourcesOK
  <2>2. netNodeToRtl'[x].len = 1 /\ x \notin Crossings
    BY <1>2, <1>3, NewValue DEF ResourcesOK
  <2>3. Owner(d) = e
    BY <2>1, <2>2 DEF Reaches
  <2>4. Start(e, d) = OutClk(d) /\ IsState(e, OutClk(d)) /\ e \in DOMAIN archElements
        /\ OutClk(d) \in Nat
    BY <1>1, <2>1, <2>3, OwnStart, NodeClk
  <2>5. c = OutClk(d)
    BY <2>2, <2>4
  <2>6. StageAt(e, c)
    BY <2>4, <2>5 DEF StatesOnly, IsState
  <2>7. QED
    BY <1>2, <2>6 DEF StageAt
<1>4. CASE x \in DOMAIN netNodeToRtl
  <2>1. /\ x = <<e, d>> /\ d \in Node
        /\ netNodeToRtl[x].len \in Nat \ {0} /\ Start(e, d) \in Int
        /\ LastClk(e, d) = Start(e, d) + netNodeToRtl[x].len - 1
    BY <1>1, <1>4, LastGrows
  <2>2. \A k \in Start(e, d)..LastClk(e, d) : <<e, k>> \in DOMAIN stageSignals'
    BY <1>2, <1>4 DEF ChainsThere, StageAt
  <2>3. CASE netNodeToRtl'[x].len = netNodeToRtl[x].len
    BY <2>1, <2>2, <2>3
  <2>4. CASE h.step = "get" /\ x = <<h.elm, h.node>>
    <3> DEFINE index == IndexFor(netNodeToRtl[x], h.time)
               end == start_clk(h.time + Eps)
    <3>1. \/ netNodeToRtl'[x].len = netNodeToRtl[x].len
          \/ index \in Nat /\ netNodeToRtl[x].len <= index /\ netNodeToRtl'[x].len = index + 1
      BY <1>2, <1>4, <2>4, ChainTurn
    <3>2. e = h.elm /\ d = h.node
      BY <2>4
    <3>3. index = end - Start(e, d)
      BY <1>2, <2>4, <3>2, GetTurn DEF Start
    <3>4. end \in Nat
      BY <1>1, <1>2, <2>4, GetTime
    <3>5. end <= LastClk(e, d) \/ \A k \in Start(e, d)..end : StageAt(e, k)
      BY <2>4, <3>2, GetStages
    <3>6. CASE index \in Nat /\ netNodeToRtl[x].len <= index /\ netNodeToRtl'[x].len = index + 1
      <4>1. \A k \in Start(e, d)..end : StageAt(e, k)
        <5> HIDE DEF end, index, e, d
        <5>1. ~ (end <= LastClk(e, d))
          BY <2>1, <3>3, <3>4, <3>6
        <5>2. QED
          BY <3>5, <5>1
      <4>2. c \in Start(e, d)..end
        <5>1. c \in Start(e, d)..(Start(e, d) + netNodeToRtl'[x].len - 1)
          OBVIOUS
        <5> HIDE DEF end, index, e, d
        <5>2. QED
          BY <2>1, <3>3, <3>4, <3>6, <5>1
      <4>3. StageAt(e, c)
        BY <4>1, <4>2
      <4>4. QED
        BY <1>2, <4>3 DEF StageAt
    <3>7. QED
      BY <2>3, <3>1, <3>6
  <2>5. CASE h.step = "makeValid" /\ x = <<h.elm, h.node>>
    <3> DEFINE endTime == h.endTime
    <3>1. e = h.elm /\ d = h.node
      BY <2>5
    <3>2. \/ UNCHANGED <<netNodeToRtl, stageSignals>>
          \/ \E K \in Nat \ {0} : Lengthened(e, d, endTime, K)
      BY <2>5, <3>1, LengthTurn
    <3>3. ASSUME NEW K \in Nat \ {0}, Lengthened(e, d, endTime, K)
          PROVE  <<e, c>> \in DOMAIN stageSignals'
      <4> HIDE DEF endTime, e, d
      <4>1. netNodeToRtl'[x].len = netNodeToRtl[x].len + K
        BY <2>1, <3>3 DEF Lengthened
      <4>2. c \in Start(e, d)..(LastClk(e, d) + K)
        BY <2>1, <4>1 DEF e, d
      <4>3. CASE c <= LastClk(e, d)
        BY <2>1, <2>2, <4>2, <4>3
      <4>4. CASE c > LastClk(e, d)
        <5>1. c - LastClk(e, d) \in 1..K /\ LastClk(e, d) + (c - LastClk(e, d)) = c
          BY <2>1, <4>2, <4>4
        <5>2. QED
          BY <3>3, <5>1 DEF Lengthened
      <4>5. QED
        BY <2>1, <4>2, <4>3, <4>4
    <3>4. QED
      BY <2>3, <3>2, <3>3
  <2>6. QED
    BY <1>2, <1>4, <2>3, <2>4, <2>5, ChainTurn
<1>5. QED
  BY <1>3, <1>4

\* A chain is registered up to its end.
LEMMA RegisteredThere ==
  ASSUME NEW s, GoodTurn(s), StatesOnly, NoGapsInPipelines, ChainsThere,
         NEW e, NEW c, NEW d, Registered(<<e, c>>, d)', Owner(d) = e
  PROVE  <<e, d>> \in DOMAIN netNodeToRtl'
         /\ c <= Start(e, d) + netNodeToRtl'[<<e, d>>].len - 1
<1> DEFINE h == Head(todo)
           x == <<e, d>>
<1>1. SafeTurn(s) /\ Good /\ Base /\ ~ CloseToNextClk
  BY TurnBase DEF GoodTurn, Good
<1>2. /\ Turn(s) /\ OnlyThere /\ ResourcesOK /\ Building /\ AllocOK /\ AllocInput
      /\ archElements \in Seq(ElementType) /\ Does(h)
  BY <1>1, BaseFacts DEF SafeTurn, WhileBuilding, Turn
<1>3. x[1] = e /\ x[2] = d
  OBVIOUS
<1>4. ASSUME x \in DOMAIN netNodeToRtl
      PROVE  /\ x \in DOMAIN netNodeToRtl' /\ d \in Node
             /\ netNodeToRtl[x].len \in Nat \ {0} /\ netNodeToRtl'[x].len \in Nat \ {0}
             /\ netNodeToRtl[x].len <= netNodeToRtl'[x].len
             /\ Start(e, d) \in Nat
             /\ LastClk(e, d) = Start(e, d) + netNodeToRtl[x].len - 1
             /\ start_clk(TirTime(e, d) + Eps) = Start(e, d)
             /\ netNodeToRtl[x].timeOffset = TirTime(e, d)
  <2> HIDE DEF x
  <2>1. /\ x \in DOMAIN netNodeToRtl' /\ d \in Node
        /\ netNodeToRtl[x].len \in Nat \ {0} /\ netNodeToRtl'[x].len \in Nat \ {0}
        /\ netNodeToRtl[x].len <= netNodeToRtl'[x].len
        /\ LastClk(e, d) = Start(e, d) + netNodeToRtl[x].len - 1
    BY <1>1, <1>3, <1>4, LastGrows
  <2>2. Start(e, d) = OutClk(d) /\ OutClk(d) \in Nat /\ start_clk(TirTime(e, d) + Eps) = OutClk(d)
    BY <1>1, <2>1, OwnStart, NodeClk
  <2>3. netNodeToRtl[x].timeOffset = TirTime(e, d)
    BY <1>2, <1>3, <1>4 DEF ResourcesOK
  <2>4. QED
    BY <2>1, <2>2, <2>3
<1>5. CASE Registered(<<e, c>>, d)
  <2>1. x \in DOMAIN netNodeToRtl
    BY <1>2, <1>5 DEF OnlyThere, HasRtl
  <2>2. c <= LastClk(e, d)
    <3> DEFINE y == <<e, c>>
    <3>1. y \in DOMAIN stageSignals /\ d \in stageSignals[y] /\ y[1] = e /\ y[2] = c
      BY <1>5 DEF Registered
    <3> HIDE DEF y
    <3>2. QED
      BY <3>1 DEF ChainsThere
  <2>3. c \in Int
    <3>1. <<e, c>> \in DOMAIN stageSignals
      BY <1>5 DEF Registered
    <3> DEFINE y == <<e, c>>
    <3>2. y \in DOMAIN stageSignals /\ y[1] = e /\ y[2] = c
      BY <3>1
    <3> HIDE DEF y
    <3>3. CASE archElements[e].fsm
      <4>1. IsState(e, c)
        BY <3>2, <3>3 DEF StatesOnly
      <4>2. e \in DOMAIN archElements
        BY <1>1, <1>4, <2>1, NodeClk
      <4>3. ToSet(archElements[e].clks) \subseteq Int
        BY <1>2, <4>2, ElementFacts, SeqIsSeq
      <4>4. QED
        BY <4>1, <4>3 DEF IsState
    <3>4. CASE ~ archElements[e].fsm
      BY <3>2, <3>4 DEF NoGapsInPipelines
    <3>5. QED
      BY <3>3, <3>4
  <2> HIDE DEF x
  <2>4. QED
    BY <1>4, <2>1, <2>2, <2>3 DEF x
<1>6. CASE ~ Registered(<<e, c>>, d)
  <2> DEFINE tir == netNodeToRtl[<<h.elm, h.node>>]
  <2>1. CASE h.step = "used"
    <3>1. /\ d = h.node /\ HasRtl(h.elm, h.node)
          /\ \E k \in NotRegisteredYet(h.elm, h.node) : <<e, c>> = StageFromEnd(tir, h.elm, k)
      BY <1>2, <1>6, <2>1, SignalsTurn
    <3>2. PICK k \in NotRegisteredYet(h.elm, h.node) : <<e, c>> = StageFromEnd(tir, h.elm, k)
      BY <3>1
    <3>3. e = h.elm /\ x \in DOMAIN netNodeToRtl /\ tir = netNodeToRtl[x]
      BY <3>1, <3>2 DEF StageFromEnd, HasRtl
    <3>4. k \in 0..(netNodeToRtl[x].len - 1)
      BY <3>1, <3>2, <3>3 DEF NotRegisteredYet
    <3>5. c = start_clk(netNodeToRtl[x].timeOffset + Eps) + netNodeToRtl[x].len - 1 - k
      BY <3>2, <3>3 DEF StageFromEnd
    <3> HIDE DEF x
    <3>6. c <= Start(e, d) + netNodeToRtl'[x].len - 1
      BY <1>4, <3>3, <3>4, <3>5
    <3>7. QED
      BY <1>4, <3>3, <3>6 DEF x
  <2>2. CASE h.step = "after"
    <3>1. /\ d = h.node /\ HasRtl(h.elm, h.node)
          /\ <<e, c>> = <<h.elm, start_clk(tir.timeOffset)>>
      BY <1>2, <1>6, <2>2, SignalsTurn
    <3>2. e = h.elm /\ x \in DOMAIN netNodeToRtl /\ c = start_clk(netNodeToRtl[x].timeOffset)
      BY <3>1 DEF HasRtl
    <3> HIDE DEF x
    <3>3. c = Start(e, d)
      BY <1>4, <3>2 DEF Start
    <3>4. c <= Start(e, d) + netNodeToRtl'[x].len - 1
      BY <1>4, <3>2, <3>3
    <3>5. QED
      BY <1>4, <3>2, <3>4 DEF x
  <2>3. CASE h.step = "makeValid"
    <3> DEFINE endTime == h.endTime
    <3>1. \/ UNCHANGED <<netNodeToRtl, stageSignals>>
          \/ HasRtl(h.elm, h.node) /\ \E K \in Nat \ {0} : Lengthened(h.elm, h.node, endTime, K)
      BY <2>3, LengthTurn
    <3>2. ~ UNCHANGED <<netNodeToRtl, stageSignals>>
      BY <1>6 DEF Registered
    <3>3. PICK K \in Nat \ {0} : Lengthened(h.elm, h.node, endTime, K)
      BY <3>1, <3>2
    <3>4. d = h.node /\ \E k \in 1..K : <<e, c>> = <<h.elm, LastClk(h.elm, h.node) + k>>
      <4> HIDE DEF h, endTime
      <4>1. QED
        BY <1>6, <3>3 DEF Lengthened
    <3>5. PICK k \in 1..K : c = LastClk(e, d) + k
      BY <3>4
    <3>6. e = h.elm /\ x \in DOMAIN netNodeToRtl
      BY <3>1, <3>2, <3>4 DEF HasRtl
    <3>7. netNodeToRtl'[x].len = netNodeToRtl[x].len + K
      BY <3>3, <3>4, <3>6 DEF Lengthened
    <3> HIDE DEF x
    <3>8. c <= Start(e, d) + netNodeToRtl'[x].len - 1
      BY <1>4, <3>5, <3>6, <3>7
    <3>9. QED
      BY <1>4, <3>6, <3>8 DEF x
  <2>4. CASE h.step \notin {"used", "after", "makeValid"}
    BY <1>2, <1>6, <2>4, SignalsTurn
  <2>5. QED
    BY <2>1, <2>2, <2>3, <2>4
<1>7. QED
  BY <1>5, <1>6

\* The chains keep in the stages that are there.
LEMMA ChainsThereTurn ==
  ASSUME NEW s, GoodTurn(s), StatesOnly, NoGapsInPipelines, OwnTasks, HandReady, ChainsThere
  PROVE  ChainsThere'
<1>1. /\ UNCHANGED StaticVars /\ SafeTurn(s) /\ ResourcesOK' /\ Building'
  BY TurnBase, TurnKeeps DEF GoodTurn, SafeTurn, Turn
<1>2. /\ \A e, d : Start(e, d)' = Start(e, d)
      /\ \A e, d : Reaches(e, d)' <=> Reaches(e, d)
      /\ \A n : Owner(n)' = Owner(n)
  BY <1>1, StaticGood
<1>3. StatesOnly'
  BY <1>1, StatesTurn
<1>4. ASSUME NEW x \in DOMAIN netNodeToRtl', Reaches(x[1], x[2]),
             NEW c \in Start(x[1], x[2])..(LastClk(x[1], x[2]))'
      PROVE  <<x[1], c>> \in DOMAIN stageSignals'
  <2>1. x = <<x[1], x[2]>>
    BY <1>1 DEF ResourcesOK
  <2>2. LastClk(x[1], x[2])' = Start(x[1], x[2]) + netNodeToRtl'[x].len - 1
    BY <1>2, <2>1 DEF LastClk
  <2>3. QED
    BY <1>4, <2>2, ChainStages
<1>5. ASSUME NEW x \in DOMAIN stageSignals', NEW d \in stageSignals'[x], Owner(d) = x[1]
      PROVE  x[2] <= LastClk(x[1], d)'
  <2>1. PICK e, c : e = x[1] /\ c = x[2]
    OBVIOUS
  <2>2. x = <<e, c>>
    BY <1>3, <2>1 DEF StatesOnly
  <2>3. Registered(<<e, c>>, d)'
    BY <2>2 DEF Registered
  <2>4. c <= Start(e, d) + netNodeToRtl'[<<e, d>>].len - 1
    BY <1>5, <2>1, <2>3, RegisteredThere
  <2>5. LastClk(x[1], d)' = Start(e, d) + netNodeToRtl'[<<e, d>>].len - 1
    <3>1. LastClk(e, d)' = Start(e, d)' + netNodeToRtl'[<<e, d>>].len - 1
      BY DEF LastClk
    <3>2. x[1]' = e
      BY <2>1
    <3>3. QED
      BY <1>2, <2>1, <3>1, <3>2
  <2>6. QED
    BY <2>1, <2>4, <2>5
<1>6. \A x \in DOMAIN netNodeToRtl' : Reaches(x[1], x[2])' =>
        \A c \in Start(x[1], x[2])'..LastClk(x[1], x[2])' : <<x[1], c>> \in DOMAIN stageSignals'
  BY <1>2, <1>4
<1>7. \A x \in DOMAIN stageSignals' : \A d \in stageSignals'[x] :
        Owner(d)' = x[1] => x[2] <= LastClk(x[1], d)'
  BY <1>2, <1>5
<1>8. QED
  BY <1>6, <1>7 DEF ChainsThere, StageAt

-----------------------------------------------------------------------------
\* What is handed over is there, until then.

\* When only connections are left, every value that crosses is made.
LEMMA OwnsBuilt ==
  ASSUME Base, Good, ReadsBuilt, \A t \in Tasks : t.step = "connect", NEW x \in Crossings
  PROVE  HasRtl(Owner(x[2]), x[2])
<1>1. /\ AllocInput /\ NodesCovered /\ Split /\ archElements \in Seq(ElementType) /\ NodesBuilt
      /\ Building /\ ~ AcrossGap /\ ~ CloseToNextClk
  BY BaseFacts DEF Base, AllocInv, Good
<1> DEFINE o == x[2]
           e == Owner(o)
<1>2. PICK m \in Node : o \in net.dataDeps[m] /\ ~ IsConst(o)
  BY <1>1, Handed
<1>3. o \in Node /\ (IsRead(o) \/ net.kind[o] = "op")
  BY <1>1, <1>2, OperandKind
<1>4. PICK k \in DOMAIN archElements[e].nodes : o \in ToSet(archElements[e].nodes[k])
  BY <1>1, <1>3, OwnerFacts
<1>5. e \in DOMAIN archElements
  BY <1>1, <1>3, OwnerFacts
<1>6. /\ ~ OfElement(e) /\ ~ OfStage(e, k) /\ ~ OfNode("node", e, o)
      /\ ~ OfNode("alloc", e, o) /\ ~ OfNode("create", e, o)
  BY DEF OfElement, OfStage, OfNode
<1> HIDE DEF e, o
<1>7. CASE IsRead(o)
  <2>1. HasRtl(e, o)
    BY <1>4, <1>5, <1>6, <1>7 DEF ReadsBuilt
  <2>2. QED
    BY <2>1 DEF e, o
<1>8. CASE net.kind[o] = "op"
  <2>1. Built(e, o)
    BY <1>1, <1>4, <1>5, <1>6 DEF NodesBuilt
  <2>2. HasRtl(e, o)
    BY <1>6, <1>8, <2>1 DEF Built
  <2>3. QED
    BY <2>2 DEF e, o
<1>9. QED
  BY <1>3, <1>7, <1>8

\* When a connection is made, only connections are left.
LEMMA OnlyConnections ==
  ASSUME NEW s, SafeTurn(s), Head(todo).step = "connect"
  PROVE  \A t \in Tasks : t.step = "connect"
<1>1. IsSeq(todo) /\ todo # <<>> /\ ExtensionsFirst
  BY TurnTasks DEF SafeTurn, WhileBuilding
<1>2. 1 \in DOMAIN todo /\ todo[1] = Head(todo) /\ DOMAIN todo \subseteq Nat \ {0}
  BY <1>1, RestAt
<1>3. ASSUME NEW t \in Tasks
      PROVE  t.step = "connect"
  <2>1. PICK j \in DOMAIN todo : todo[j] = t
    BY <1>1, AtPosition DEF Tasks
  <2>2. j = 1 \/ 1 < j
    BY <1>2
  <2>3. QED
    BY <1>1, <1>2, <2>1, <2>2 DEF ExtensionsFirst
<1>4. QED
  BY <1>3

\* The calls for a connection are those of a value that crosses.
LEMMA CallsOfConnection ==
  ASSUME NEW s, GoodTurn(s), Head(todo).step = "connect", NEW t \in ToSet(s)
  PROVE  \E x \in Crossings :
           LET o == x[2]
               dst == x[1]
           IN  /\ LastsFor(o, dst) \in ToSet(s)
               /\ \/ t = LastsFor(o, dst)
                  \/ t = GetCall(Owner(o), o, HandedAt(o, dst) * Clk, <<"element", dst>>)
                  \/ t = TaskOf("used", Owner(o), o)
                  \/ t = [step |-> "sync", clk |-> HandedAt(o, dst), src |-> Owner(o), dst |-> dst]
<1> DEFINE h == Head(todo)
           o == h.node
           dst == Owner(h.user)
           x == <<dst, o>>
<1>1. SafeTurn(s) /\ Good /\ Base /\ ~ AcrossGap /\ ~ CloseToNextClk
  BY TurnBase DEF GoodTurn, Good
<1>2. /\ h \in Tasks /\ HandedOK /\ ResourcesOK /\ Building
      /\ ToSet(s) = ToSet(HandOver(o, dst))
  BY <1>1, TurnBase, MadeFor DEF Base, AllocInv
<1>3. x \in Crossings
  <2>1. <<h.node, h.user>> \in ToSet(connections)
    BY <1>2 DEF HandedOK
  <2> DEFINE c == <<h.node, h.user>>
  <2>2. c \in ToSet(connections) /\ c[1] = o /\ dst = Owner(c[2])
    BY <2>1
  <2>3. <<Owner(c[2]), c[1]>> \in Crossings
    <3> HIDE DEF c
    <3>1. QED
      BY <2>2, CrossingOfConnection
  <2>4. QED
    BY <2>2, <2>3
<1>4. x[1] = dst /\ x[2] = o
  OBVIOUS
<1> HIDE DEF x, o, dst
<1>5. UseTime(o, dst) = FirstUseTime(o, dst)
  <2>1. TirTime(dst, o) = FirstUseTime(o, dst)
    BY <1>1, <1>3, <1>4, Handed
  <2>2. x \in DOMAIN netNodeToRtl /\ netNodeToRtl[x].timeOffset = TirTime(dst, o)
    BY <1>2, <1>3, <1>4 DEF ResourcesOK
  <2>3. QED
    BY <2>1, <2>2 DEF UseTime, x
<1>6. ToSet(s) =
        { LastsFor(o, dst),
          GetCall(Owner(o), o, HandedAt(o, dst) * Clk, <<"element", dst>>),
          TaskOf("used", Owner(o), o),
          [step |-> "sync", clk |-> HandedAt(o, dst), src |-> Owner(o), dst |-> dst] }
  BY <1>2, <1>5, HandOverFacts DEF LastsFor, HandedAt, TaskOf
<1>7. QED
  BY <1>3, <1>4, <1>6

\* A chain that was made to last for another element does so.
LEMMA LastedTurn ==
  ASSUME NEW s, GoodTurn(s), NEW x \in Crossings, Head(todo) = LastsFor(x[2], x[1]),
         ~ archElements[Owner(x[2])].fsm
  PROVE  LET o == x[2]
             e == Owner(o)
         IN  /\ <<e, o>> \in DOMAIN netNodeToRtl'
             /\ HandedAt(o, x[1]) <= Start(e, o) + netNodeToRtl'[<<e, o>>].len - 1
<1> DEFINE h == Head(todo)
           o == x[2]
           e == Owner(o)
           endTime == FirstUseTime(o, x[1])
           y == <<e, o>>
<1>1. SafeTurn(s) /\ Good /\ Base /\ ~ AcrossGap /\ ~ CloseToNextClk
  BY TurnBase DEF GoodTurn, Good
<1>2. h.step = "makeValid" /\ h.elm = e /\ h.node = o /\ h.endTime = endTime
  BY DEF LastsFor
<1>3. HandedAt(o, x[1]) = start_clk(endTime)
  BY DEF HandedAt
<1> HIDE DEF e, o, endTime, h
<1>4. /\ HasRtl(e, o) /\ endTime \in Int
      /\ netNodeToRtl[<<e, o>>].len \in Nat \ {0} /\ Start(e, o) \in Nat
      /\ \/ /\ UNCHANGED <<netNodeToRtl, stageSignals>>
            /\ archElements[e].fsm \/ start_clk(endTime) - Start(e, o) < netNodeToRtl[<<e, o>>].len
         \/ ~ archElements[e].fsm /\ \E K \in Nat \ {0} : Lengthened(e, o, endTime, K)
  <2>1. GoodTurn(s) /\ Head(todo).step = "makeValid"
    BY <1>2 DEF h
  <2>2. QED
    BY <1>2, <2>1, LengthTurn DEF h
<1>5. y \in DOMAIN netNodeToRtl' /\ start_clk(endTime) \in Int
  BY <1>1, <1>4, TurnKeeps, ClkBounds DEF HasRtl, SafeTurn
<1>6. ASSUME UNCHANGED <<netNodeToRtl, stageSignals>>,
             start_clk(endTime) - Start(e, o) < netNodeToRtl[<<e, o>>].len
      PROVE  start_clk(endTime) <= Start(e, o) + netNodeToRtl'[<<e, o>>].len - 1
  BY <1>4, <1>5, <1>6
<1>7. ASSUME NEW K \in Nat \ {0}, Lengthened(e, o, endTime, K)
      PROVE  start_clk(endTime) <= Start(e, o) + netNodeToRtl'[<<e, o>>].len - 1
  <2>1. PICK t \in Int : endTime <= t /\ start_clk(t) = LastClk(e, o) + K
    BY <1>7 DEF Lengthened
  <2>2. start_clk(endTime) <= start_clk(t)
    BY <1>4, <2>1, EarlierInClk
  <2>3. netNodeToRtl'[<<e, o>>].len = netNodeToRtl[<<e, o>>].len + K
    BY <1>7 DEF Lengthened
  <2>4. LastClk(e, o) = Start(e, o) + netNodeToRtl[<<e, o>>].len - 1
    BY DEF LastClk
  <2>5. QED
    BY <1>4, <1>5, <2>1, <2>2, <2>3, <2>4
<1>8. start_clk(endTime) <= Start(e, o) + netNodeToRtl'[<<e, o>>].len - 1
  <2>1. ~ archElements[e].fsm
    BY DEF e, o
  <2>2. QED
    BY <1>4, <1>6, <1>7, <2>1
<1>9. QED
  BY <1>3, <1>5, <1>8 DEF e, o, y

\* The calls for a connection are put in the place of it when the value is there.
LEMMA NewCallsReady ==
  ASSUME NEW s, GoodTurn(s), StatesOnly, ReadsBuilt, NEW t \in ToSet(s)
  PROVE  /\ t.step = "makeValid" =>
              /\ HasRtl(t.elm, t.node)
              /\ \E x \in Crossings : t = LastsFor(x[2], x[1])
         /\ t.step = "get" /\ t.user[1] = "element" =>
              HasRtl(t.elm, t.node) /\ LastsFor(t.node, t.user[2]) \in ToSet(s)
         /\ t.step = "sync" =>
              \E x \in Crossings :
                /\ t.src = Owner(x[2]) /\ t.dst = x[1] /\ t.clk = HandedAt(x[2], x[1])
                /\ \/ StageAt(t.src, t.clk)
                   \/ LastsFor(x[2], x[1]) \in ToSet(s) /\ ~ archElements[t.src].fsm
<1> DEFINE h == Head(todo)
<1>1. SafeTurn(s) /\ Good /\ Base /\ Turn(s)
  BY TurnBase DEF GoodTurn, SafeTurn
<1>2. CASE h.step # "connect"
  <2>1. t.step # "makeValid" /\ t.step # "sync"
    BY <1>1, <1>2, MadeOf, MadeFor
  <2>2. t.step = "get" => t.user[1] = "node"
    <3>1. t.step = "get" => \/ t.user = <<"node", h.node>>
                            \/ t = UseCall(h.elm, h.node, h.user)
      BY <1>1, <1>2, MadeOf
    <3>2. QED
      BY <3>1, TaskFields
  <2>3. QED
    BY <2>1, <2>2
<1>3. CASE h.step = "connect"
  <2>1. PICK x \in Crossings :
           LET o == x[2]
               dst == x[1]
           IN  /\ LastsFor(o, dst) \in ToSet(s)
               /\ \/ t = LastsFor(o, dst)
                  \/ t = GetCall(Owner(o), o, HandedAt(o, dst) * Clk, <<"element", dst>>)
                  \/ t = TaskOf("used", Owner(o), o)
                  \/ t = [step |-> "sync", clk |-> HandedAt(o, dst), src |-> Owner(o), dst |-> dst]
    BY <1>3, CallsOfConnection
  <2>2. \A u \in Tasks : u.step = "connect"
    BY <1>1, <1>3, OnlyConnections
  <2>3. HasRtl(Owner(x[2]), x[2])
    BY <1>1, <2>2, OwnsBuilt
  <2>4. CASE t = LastsFor(x[2], x[1])
    BY <2>3, <2>4 DEF LastsFor
  <2>5. CASE t = GetCall(Owner(x[2]), x[2], HandedAt(x[2], x[1]) * Clk, <<"element", x[1]>>)
    BY <2>1, <2>3, <2>5 DEF GetCall
  <2>6. CASE t = TaskOf("used", Owner(x[2]), x[2])
    BY <2>6, TaskFields
  <2>7. CASE t = [step |-> "sync", clk |-> HandedAt(x[2], x[1]), src |-> Owner(x[2]), dst |-> x[1]]
    <3>1. /\ t.src = Owner(x[2]) /\ t.dst = x[1] /\ t.clk = HandedAt(x[2], x[1]) /\ t.step = "sync"
      BY <2>7
    <3>2. archElements[Owner(x[2])].fsm => StageAt(t.src, t.clk)
      <4>1. /\ x[2] \in Node /\ HandedAt(x[2], x[1]) \in Nat /\ OutClk(x[2]) <= HandedAt(x[2], x[1])
            /\ archElements[Owner(x[2])].fsm =>
                 \A k \in OutClk(x[2])..HandedAt(x[2], x[1]) : IsState(Owner(x[2]), k)
        BY <1>1, Handed DEF Good
      <4>2. Owner(x[2]) \in DOMAIN archElements /\ OutClk(x[2]) \in Nat
        BY <1>1, <4>1, NodeClk
      <4>3. archElements[Owner(x[2])].fsm => IsState(Owner(x[2]), HandedAt(x[2], x[1]))
        BY <4>1, <4>2
      <4>4. QED
        BY <3>1, <4>2, <4>3 DEF StatesOnly, IsState
    <3>3. QED
      BY <2>1, <3>1, <3>2
  <2>8. QED
    BY <2>1, <2>4, <2>5, <2>6, <2>7
<1>4. QED
  BY <1>2, <1>3

\* What is handed over stays ready.
LEMMA HandReadyTurn ==
  ASSUME NEW s, GoodTurn(s), StatesOnly, NoGapsInPipelines, OwnTasks, ReadsBuilt, ChainsThere,
         HandReady
  PROVE  HandReady'
<1> DEFINE h == Head(todo)
<1>1. /\ SafeTurn(s) /\ Good /\ Base /\ UNCHANGED StaticVars
      /\ \A t \in Tasks : t = h \/ t \in Tasks'
      /\ \A t \in Tasks' : t \in Tasks \/ t \in ToSet(s)
      /\ ToSet(s) \subseteq Tasks'
  BY TurnBase DEF GoodTurn
<1>2. /\ DOMAIN netNodeToRtl \subseteq DOMAIN netNodeToRtl'
      /\ DOMAIN stageSignals \subseteq DOMAIN stageSignals'
      /\ archElements' = archElements
  BY <1>1, TurnKeeps DEF SafeTurn, StaticVars
<1>3. /\ \A e, d : Start(e, d)' = Start(e, d)
      /\ \A o, e : HandedAt(o, e)' = HandedAt(o, e)
      /\ \A o, e : LastsFor(o, e)' = LastsFor(o, e)
      /\ \A n : Owner(n)' = Owner(n)
      /\ Crossings' = Crossings
  BY <1>1, StaticGood
<1>4. ASSUME NEW x \in Crossings, LastsFor(x[2], x[1]) \in Tasks,
             ~ archElements[Owner(x[2])].fsm
      PROVE  \/ LastsFor(x[2], x[1]) \in Tasks'
             \/ /\ <<Owner(x[2]), x[2]>> \in DOMAIN netNodeToRtl'
                /\ HandedAt(x[2], x[1]) <= Start(Owner(x[2]), x[2])
                                             + netNodeToRtl'[<<Owner(x[2]), x[2]>>].len - 1
  BY <1>1, <1>4, LastedTurn
<1>5. ASSUME NEW x \in Crossings, <<Owner(x[2]), x[2]>> \in DOMAIN netNodeToRtl',
             HandedAt(x[2], x[1]) <= Start(Owner(x[2]), x[2])
                                       + netNodeToRtl'[<<Owner(x[2]), x[2]>>].len - 1
      PROVE  <<Owner(x[2]), HandedAt(x[2], x[1])>> \in DOMAIN stageSignals'
  <2> DEFINE o == x[2]
             e == Owner(o)
             c == HandedAt(o, x[1])
             y == <<e, o>>
  <2>1. o \in Node /\ c \in Nat /\ OutClk(o) <= c
    BY <1>1, Handed DEF Good
  <2>2. Start(e, o) = OutClk(o) /\ OutClk(o) \in Nat
    BY <1>1, <2>1, OwnStart, NodeClk DEF Good
  <2>3. y \in DOMAIN netNodeToRtl' /\ y[1] = e /\ y[2] = o /\ Reaches(e, o)
    BY <1>5 DEF Reaches
  <2>4. c <= Start(e, o) + netNodeToRtl'[y].len - 1
    BY <1>5
  <2>5. netNodeToRtl'[y].len \in Nat
    BY <1>1, <2>3, ChainsTurn DEF SafeTurn, WhileBuilding, ChainsLong
  <2>6. c \in Start(e, o)..(Start(e, o) + netNodeToRtl'[y].len - 1)
    <3> HIDE DEF y, c, e, o
    <3>1. QED
      BY <2>1, <2>2, <2>4, <2>5
  <2>7. Reaches(y[1], y[2]) /\ c \in Start(y[1], y[2])..(Start(y[1], y[2]) + netNodeToRtl'[y].len - 1)
    BY <2>3, <2>6
  <2> HIDE DEF y, c
  <2>8. <<y[1], c>> \in DOMAIN stageSignals'
    BY <2>3, <2>7, ChainStages
  <2>9. QED
    BY <2>3, <2>8 DEF c
<1>6. ASSUME NEW t \in Tasks', t.step = "makeValid"
      PROVE  /\ <<t.elm, t.node>> \in DOMAIN netNodeToRtl'
             /\ \E x \in Crossings : t = LastsFor(x[2], x[1])
  <2>1. HasRtl(t.elm, t.node) /\ \E x \in Crossings : t = LastsFor(x[2], x[1])
    BY <1>1, <1>6, NewCallsReady DEF HandReady
  <2>2. QED
    BY <1>2, <2>1 DEF HasRtl
<1>7. ASSUME NEW t \in Tasks', t.step = "get", t.user[1] = "element"
      PROVE  /\ <<t.elm, t.node>> \in DOMAIN netNodeToRtl'
             /\ \/ archElements[t.elm].fsm
                \/ HandedAt(t.node, t.user[2])
                     <= Start(t.elm, t.node) + netNodeToRtl'[<<t.elm, t.node>>].len - 1
                \/ LastsFor(t.node, t.user[2]) \in Tasks'
  <2>1. CASE t \in ToSet(s)
    <3>1. HasRtl(t.elm, t.node) /\ LastsFor(t.node, t.user[2]) \in ToSet(s)
      BY <1>7, <2>1, NewCallsReady
    <3>2. QED
      BY <1>1, <1>2, <3>1 DEF HasRtl
  <2>2. CASE t \in Tasks
    <3> DEFINE e == t.elm
               o == t.node
               x == <<t.user[2], t.node>>
               y == <<t.elm, t.node>>
    <3>1. /\ y \in DOMAIN netNodeToRtl
          /\ \/ archElements[e].fsm
             \/ HandedAt(o, t.user[2]) <= LastClk(e, o)
             \/ LastsFor(o, t.user[2]) \in Tasks
      BY <1>7, <2>2 DEF HandReady, HasRtl
    <3>2. x \in Crossings /\ e = Owner(o)
      BY <1>1, <1>7, <2>2 DEF Base, AllocInv, SyncOK
    <3>3. x[1] = t.user[2] /\ x[2] = o /\ y[1] = e /\ y[2] = o
      OBVIOUS
    <3>4. y \in DOMAIN netNodeToRtl'
      BY <1>2, <3>1
    <3>5. CASE archElements[e].fsm
      BY <3>4, <3>5
    <3>6. CASE HandedAt(o, t.user[2]) <= LastClk(e, o)
      <4>1. HandedAt(o, t.user[2]) <= Start(e, o) + netNodeToRtl'[y].len - 1
        <5> HIDE DEF e, o, y
        <5>1. /\ netNodeToRtl[y].len \in Nat /\ netNodeToRtl'[y].len \in Nat
              /\ netNodeToRtl[y].len <= netNodeToRtl'[y].len
              /\ Start(e, o) \in Int
              /\ LastClk(e, o) = Start(e, o) + netNodeToRtl[y].len - 1
          BY <1>1, <3>1, <3>3, LastGrows
        <5>2. HandedAt(o, t.user[2]) \in Int
          <6> HIDE DEF x
          <6>1. QED
            BY <1>1, <3>2, <3>3, Handed DEF Good
        <5>3. QED
          BY <3>6, <5>1, <5>2
      <4>2. QED
        BY <3>4, <4>1
    <3>7. CASE LastsFor(o, t.user[2]) \in Tasks /\ ~ archElements[e].fsm
      <4>1. \/ LastsFor(o, t.user[2]) \in Tasks'
            \/ HandedAt(o, t.user[2]) <= Start(e, o) + netNodeToRtl'[<<e, o>>].len - 1
        <5> HIDE DEF x, e, o
        <5>1. QED
          BY <1>4, <3>2, <3>3, <3>7
      <4>2. QED
        BY <3>4, <4>1
    <3>8. QED
      BY <3>1, <3>5, <3>6, <3>7
  <2>3. QED
    BY <1>1, <2>1, <2>2
<1>8. ASSUME NEW t \in Tasks', t.step = "sync"
      PROVE  \E x \in Crossings :
               /\ t.src = Owner(x[2]) /\ t.dst = x[1] /\ t.clk = HandedAt(x[2], x[1])
               /\ \/ <<t.src, t.clk>> \in DOMAIN stageSignals'
                  \/ LastsFor(x[2], x[1]) \in Tasks' /\ ~ archElements[t.src].fsm
  <2>1. CASE t \in ToSet(s)
    <3>1. PICK x \in Crossings :
                /\ t.src = Owner(x[2]) /\ t.dst = x[1] /\ t.clk = HandedAt(x[2], x[1])
                /\ \/ StageAt(t.src, t.clk)
                   \/ LastsFor(x[2], x[1]) \in ToSet(s) /\ ~ archElements[t.src].fsm
      BY <1>8, <2>1, NewCallsReady
    <3>2. QED
      BY <1>1, <1>2, <3>1 DEF StageAt
  <2>2. CASE t \in Tasks
    <3>1. PICK x \in Crossings :
             /\ t.src = Owner(x[2]) /\ t.dst = x[1] /\ t.clk = HandedAt(x[2], x[1])
             /\ StageAt(t.src, t.clk) \/ (LastsFor(x[2], x[1]) \in Tasks /\ ~ archElements[t.src].fsm)
      BY <1>8, <2>2 DEF HandReady
    <3>2. CASE StageAt(t.src, t.clk)
      BY <1>2, <3>1, <3>2 DEF StageAt
    <3>3. CASE LastsFor(x[2], x[1]) \in Tasks /\ ~ archElements[t.src].fsm
      <4>1. \/ LastsFor(x[2], x[1]) \in Tasks'
            \/ <<Owner(x[2]), HandedAt(x[2], x[1])>> \in DOMAIN stageSignals'
        BY <1>4, <1>5, <3>1, <3>3
      <4>2. QED
        BY <3>1, <3>3, <4>1
    <3>4. QED
      BY <3>1, <3>2, <3>3
  <2>3. QED
    BY <1>1, <2>1, <2>2
<1>9. \A t \in Tasks' :
        /\ t.step = "makeValid" =>
             HasRtl(t.elm, t.node)' /\ \E x \in Crossings' : t = LastsFor(x[2], x[1])'
        /\ t.step = "get" /\ t.user[1] = "element" =>
             /\ HasRtl(t.elm, t.node)'
             /\ \/ archElements'[t.elm].fsm
                \/ HandedAt(t.node, t.user[2])' <= LastClk(t.elm, t.node)'
                \/ LastsFor(t.node, t.user[2])' \in Tasks'
        /\ t.step = "sync" =>
             \E x \in Crossings' :
               /\ t.src = Owner(x[2])' /\ t.dst = x[1] /\ t.clk = HandedAt(x[2], x[1])'
               /\ \/ StageAt(t.src, t.clk)'
                  \/ LastsFor(x[2], x[1])' \in Tasks' /\ ~ archElements'[t.src].fsm
  <2> SUFFICES ASSUME NEW t \in Tasks'
               PROVE  /\ t.step = "makeValid" =>
                           HasRtl(t.elm, t.node)' /\ \E x \in Crossings' : t = LastsFor(x[2], x[1])'
                      /\ t.step = "get" /\ t.user[1] = "element" =>
                           /\ HasRtl(t.elm, t.node)'
                           /\ \/ archElements'[t.elm].fsm
                              \/ HandedAt(t.node, t.user[2])' <= LastClk(t.elm, t.node)'
                              \/ LastsFor(t.node, t.user[2])' \in Tasks'
                      /\ t.step = "sync" =>
                           \E x \in Crossings' :
                             /\ t.src = Owner(x[2])' /\ t.dst = x[1] /\ t.clk = HandedAt(x[2], x[1])'
                             /\ \/ StageAt(t.src, t.clk)'
                                \/ LastsFor(x[2], x[1])' \in Tasks' /\ ~ archElements'[t.src].fsm
    OBVIOUS
  <2>1. CASE t.step = "makeValid"
    BY <1>3, <1>6, <2>1 DEF HasRtl
  <2>2. CASE t.step = "get" /\ t.user[1] = "element"
    <3>1. LastClk(t.elm, t.node)' = Start(t.elm, t.node)' + netNodeToRtl'[<<t.elm, t.node>>].len - 1
      BY DEF LastClk
    <3>2. QED
      BY <1>2, <1>3, <1>7, <2>2, <3>1 DEF HasRtl
  <2>3. CASE t.step = "sync"
    <3>1. PICK x \in Crossings :
               /\ t.src = Owner(x[2]) /\ t.dst = x[1] /\ t.clk = HandedAt(x[2], x[1])
               /\ \/ <<t.src, t.clk>> \in DOMAIN stageSignals'
                  \/ LastsFor(x[2], x[1]) \in Tasks' /\ ~ archElements[t.src].fsm
      BY <1>8, <2>3
    <3>2. QED
      BY <1>2, <1>3, <2>3, <3>1 DEF StageAt
  <2>4. QED
    BY <2>1, <2>2, <2>3
<1>10. QED
  BY <1>9 DEF HandReady, HasRtl, StageAt

-----------------------------------------------------------------------------
\* How it begins.

\* Nothing is built: the loops are to be done, then the connections.
Fresh ==
  /\ \A t \in Tasks : t.step \in {"element", "connect"}
  /\ \A e \in DOMAIN archElements : OfElement(e)
  /\ IsSeq(todo)
  /\ netNodeToRtl = [x \in Crossings |-> [timeOffset |-> FirstUseTime(x[2], x[1]), len |-> 1]]
  /\ stageSignals = [x \in UNION {{e} \X ToSet(archElements[e].clks) : e \in DOMAIN archElements}
                       |-> {}]
  /\ drives = {}

\* The stages and states are those of the elements.
LEMMA FreshStages ==
  ASSUME Fresh
  PROVE  /\ \A e, c : StageAt(e, c) <=> e \in DOMAIN archElements /\ IsState(e, c)
         /\ \A x \in DOMAIN stageSignals : x = <<x[1], x[2]>> /\ stageSignals[x] = {}
<1>1. DOMAIN stageSignals = UNION {{e} \X ToSet(archElements[e].clks) : e \in DOMAIN archElements}
  BY DEF Fresh
<1>2. ASSUME NEW x \in DOMAIN stageSignals
      PROVE  x = <<x[1], x[2]>> /\ x[1] \in DOMAIN archElements /\ IsState(x[1], x[2])
  <2>1. PICK e \in DOMAIN archElements : x \in {e} \X ToSet(archElements[e].clks)
    BY <1>1
  <2>2. QED
    BY <2>1 DEF IsState
<1>3. \A e \in DOMAIN archElements : \A c : IsState(e, c) => <<e, c>> \in DOMAIN stageSignals
  BY <1>1 DEF IsState
<1>4. \A e, c : StageAt(e, c) => e \in DOMAIN archElements /\ IsState(e, c)
  <2>1. SUFFICES ASSUME NEW e, NEW c, StageAt(e, c)
                 PROVE  e \in DOMAIN archElements /\ IsState(e, c)
    OBVIOUS
  <2> DEFINE x == <<e, c>>
  <2>2. x \in DOMAIN stageSignals /\ x[1] = e /\ x[2] = c
    BY <2>1 DEF StageAt
  <2> HIDE DEF x
  <2>3. QED
    BY <1>2, <2>2
<1>5. \A x \in DOMAIN stageSignals : stageSignals[x] = {}
  BY DEF Fresh
<1>6. QED
  BY <1>2, <1>3, <1>4, <1>5 DEF StageAt

\* The FSMs have their states, and nothing takes a constant.
LEMMA FreshConsts == Base /\ Fresh => StatesOnly /\ ConstsTaken
<1> SUFFICES ASSUME Base, Fresh
             PROVE  StatesOnly /\ ConstsTaken
  OBVIOUS
<1>1. StatesOnly
  <2>1. ASSUME NEW x \in DOMAIN stageSignals
        PROVE  x = <<x[1], x[2]>> /\ IsState(x[1], x[2])
    <3>1. x = <<x[1], x[2]>>
      BY FreshStages
    <3>2. StageAt(x[1], x[2])
      BY <3>1 DEF StageAt
    <3>3. QED
      BY <3>1, <3>2, FreshStages
  <2>2. QED
    BY <2>1, FreshStages DEF StatesOnly, IsState
<1>2. ConstsTaken
  <2>1. ASSUME NEW x \in Crossings
        PROVE  ~ IsConst(x[2])
    <3>1. PICK c \in ToSet(connections) : x = <<Owner(c[2]), c[1]>>
      BY DEF Crossings
    <3>2. x[2] = c[1]
      BY <3>1
    <3>3. QED
      BY <3>2, CrossingOf
  <2>2. \A n \in Node : ~ HasRtl(Owner(n), n)
    BY BaseFacts, OwnIsNoCrossing DEF Fresh, HasRtl
  <2>3. \A e, n : ~ OfNode("create", e, n) /\ ~ OfNode("drive", e, n) /\ <<e, n>> \notin drives
    BY DEF Fresh, OfNode
  <2>4. DOMAIN netNodeToRtl = Crossings
    BY DEF Fresh
  <2>5. QED
    BY <2>1, <2>2, <2>3, <2>4 DEF ConstsTaken
<1>3. QED
  BY <1>1, <1>2

\* The building begins with what it needs.
LEMMA FreshReady == Base /\ Good /\ Fresh => Ready
<1> SUFFICES ASSUME Base, Good, Fresh
             PROVE  Ready
  OBVIOUS
<1>1. /\ ~ AcrossGap /\ ~ CloseToNextClk /\ SplitInv /\ archElements \in Seq(ElementType)
      /\ StatesOnly /\ ConstsTaken
  BY BaseFacts, FreshConsts DEF Good, Base
<1>2. \A j \in DOMAIN todo : todo[j] \in Tasks /\ todo[j].step \in {"element", "connect"}
  BY AtPosition DEF Fresh, Tasks
<1>3. \A t \in Tasks : t.step \in {"element", "connect"}
  BY DEF Fresh
<1>4. NoGapsInPipelines
  <2>1. SUFFICES ASSUME NEW x \in DOMAIN stageSignals, ~ archElements[x[1]].fsm
                 PROVE  x[2] \in Int /\ \A c \in 0..x[2] : StageAt(x[1], c)
    BY DEF NoGapsInPipelines
  <2>2. x[1] \in DOMAIN archElements /\ IsState(x[1], x[2])
    <3>1. x = <<x[1], x[2]>>
      BY FreshStages
    <3>2. StageAt(x[1], x[2])
      BY <3>1 DEF StageAt
    <3>3. QED
      BY <3>2, FreshStages
  <2>3. ToSet(archElements[x[1]].clks) = 0..(Len(archElements[x[1]].clks) - 1)
    BY <1>1, <2>1, <2>2 DEF SplitInv, ElementsOK, WellSplit
  <2>4. Len(archElements[x[1]].clks) \in Nat
    BY <1>1, <2>2, ElementFacts
  <2>5. x[2] \in Int /\ \A c \in 0..x[2] : IsState(x[1], c)
    BY <2>2, <2>3, <2>4 DEF IsState
  <2>6. QED
    BY <2>2, <2>5, FreshStages
<1>5. OwnTasks
  BY <1>3 DEF OwnTasks, OwnTask
<1>6. LoopsLast
  BY <1>2 DEF LoopsLast
<1>7. ReadsBuilt
  BY DEF ReadsBuilt, Fresh
<1>8. AccessesReady
  <2>1. \A n \in Node : ~ HasRtl(Owner(n), n)
    BY BaseFacts, OwnIsNoCrossing DEF Fresh, HasRtl
  <2>2. QED
    BY <1>3, <2>1 DEF AccessesReady
<1>9. GetsReady
  BY <1>2 DEF GetsReady
<1>10. NewUntilRegistered
  BY <1>2 DEF NewUntilRegistered
<1>11. ChainsThere
  <2>1. ASSUME NEW x \in Crossings
        PROVE  /\ Start(x[1], x[2]) \in Nat /\ LastClk(x[1], x[2]) = Start(x[1], x[2])
               /\ StageAt(x[1], Start(x[1], x[2]))
    <3> DEFINE h == HandedAt(x[2], x[1])
    <3>1. /\ x = <<x[1], x[2]>> /\ x[1] \in DOMAIN archElements /\ h \in Nat
          /\ Start(x[1], x[2]) = h
          /\ archElements[x[1]].fsm => IsState(x[1], h)
          /\ \E m \in Node : Owner(m) = x[1] /\ x[2] \in net.dataDeps[m] /\ h <= OutClk(m)
      BY <1>1, Handed
    <3>2. PICK m \in Node : Owner(m) = x[1] /\ h <= OutClk(m)
      BY <3>1
    <3>3. IsState(x[1], OutClk(m)) /\ OutClk(m) \in Nat
      BY <3>2, NodeClk
    <3>4. StageAt(x[1], OutClk(m))
      BY <3>1, <3>3, FreshStages
    <3>5. ASSUME ~ archElements[x[1]].fsm
          PROVE  StageAt(x[1], h)
      <4> DEFINE y == <<x[1], OutClk(m)>>
      <4>1. y \in DOMAIN stageSignals /\ y[1] = x[1] /\ y[2] = OutClk(m)
        BY <3>4 DEF StageAt
      <4> HIDE DEF y
      <4>2. \A c \in 0..OutClk(m) : StageAt(x[1], c)
        BY <1>4, <3>5, <4>1 DEF NoGapsInPipelines
      <4>3. h \in 0..OutClk(m)
        <5> HIDE DEF h
        <5>1. QED
          BY <3>1, <3>2, <3>3
      <4>4. QED
        BY <4>2, <4>3
    <3>6. StageAt(x[1], h)
      BY <3>1, <3>5, FreshStages
    <3>7. netNodeToRtl[<<x[1], x[2]>>].len = 1
      BY <3>1 DEF Fresh
    <3>8. LastClk(x[1], x[2]) = h + 1 - 1
      BY <3>1, <3>7 DEF LastClk
    <3>9. QED
      BY <3>1, <3>6, <3>8
  <2>2. \A x \in DOMAIN stageSignals : stageSignals[x] = {}
    BY FreshStages
  <2>3. \A x \in DOMAIN netNodeToRtl : \A c \in Start(x[1], x[2])..LastClk(x[1], x[2]) :
          StageAt(x[1], c)
    <3>1. SUFFICES ASSUME NEW x \in Crossings,
                          NEW c \in Start(x[1], x[2])..LastClk(x[1], x[2])
                   PROVE  StageAt(x[1], c)
      BY DEF Fresh
    <3>2. c = Start(x[1], x[2])
      BY <2>1
    <3>3. QED
      BY <2>1, <3>2
  <2>4. QED
    BY <2>2, <2>3 DEF ChainsThere
<1>12. HandReady
  BY <1>3 DEF HandReady
<1>13. QED
  BY <1>4, <1>5, <1>6, <1>7, <1>8, <1>9, <1>10, <1>11, <1>12 DEF Ready

\* What FreshReady says, of the state after a step.
LEMMA FreshNext == Base' /\ Good' /\ Fresh' => Ready'
  BY FreshReady, PTL

\* What FreshConsts says, of the state after a step.
LEMMA FreshConstsNext == Base' /\ Fresh' => StatesOnly' /\ ConstsTaken'
  BY FreshConsts, PTL

\* This is how Declare leaves it.
LEMMA DeclareFresh ==
  ASSUME AllocInv, AllocInv', Declare, UNCHANGED StaticVars
  PROVE  Fresh'
<1>1. AllocOK /\ NothingBuilt
  BY DEF AllocInv
<1>2. /\ \A t \in Tasks' : t.step \in {"element", "connect"}
      /\ \A e \in DOMAIN archElements : OfElement(e)'
      /\ netNodeToRtl' = [x \in Crossings |-> [timeOffset |-> FirstUseTime(x[2], x[1]), len |-> 1]]
      /\ drives' = {}
  BY <1>1, DeclareEffect
<1>3. /\ archElements' = archElements /\ Crossings' = Crossings
      /\ \A o, e : FirstUseTime(o, e)' = FirstUseTime(o, e)
      /\ stageSignals' = [x \in UNION {{e} \X ToSet(archElements[e].clks) : e \in DOMAIN archElements}
                            |-> {}]
  BY StaticCrossings, StaticUse DEF Declare, StaticVars
<1>4. IsSeq(todo')
  BY DEF AllocInv, AllocOK, TodoOK
<1>5. netNodeToRtl' = [x \in Crossings' |-> [timeOffset |-> FirstUseTime(x[2], x[1])', len |-> 1]]
  BY <1>2, <1>3
<1>6. QED
  BY <1>2, <1>3, <1>4, <1>5 DEF Fresh

\* The last step changes nothing of what is needed.
LEMMA ReadyStays ==
  ASSUME UNCHANGED StaticVars, UNCHANGED <<todo, rtlVars>>
  PROVE  (StatesOnly => StatesOnly') /\ (ConstsTaken => ConstsTaken') /\ (Ready => Ready')
<1>1. /\ todo' = todo /\ netNodeToRtl' = netNodeToRtl /\ stageSignals' = stageSignals
      /\ drives' = drives /\ net' = net /\ archElements' = archElements /\ Tasks' = Tasks
      /\ scheduledIn' = scheduledIn
  BY DEF rtlVars, StaticVars, Tasks
<1>2. /\ \A e, d : Start(e, d)' = Start(e, d)
      /\ \A e, d : Reaches(e, d)' <=> Reaches(e, d)
      /\ \A e, c : IsState(e, c)' <=> IsState(e, c)
      /\ \A o, e : HandedAt(o, e)' = HandedAt(o, e)
      /\ \A o, e : LastsFor(o, e)' = LastsFor(o, e)
      /\ \A n : Owner(n)' = Owner(n) /\ IsConst(n)' = IsConst(n)
      /\ \A n : IsRead(n)' = IsRead(n) /\ IsWrite(n)' = IsWrite(n)
      /\ \A n : OutClk(n)' = OutClk(n)
      /\ \A n : Deps(n)' = Deps(n)
      /\ Crossings' = Crossings
  BY StaticGood
<1>3. /\ \A e, c : StageAt(e, c)' <=> StageAt(e, c)
      /\ \A e, n : HasRtl(e, n)' <=> HasRtl(e, n)
      /\ \A step, e, n : OfNode(step, e, n)' <=> OfNode(step, e, n)
      /\ \A e : OfElement(e)' <=> OfElement(e)
      /\ \A e, k : OfStage(e, k)' <=> OfStage(e, k)
      /\ \A step, e, n : TaskOf(step, e, n)' = TaskOf(step, e, n)
      /\ \A e, d, m : OperandCall(e, d, m)' = OperandCall(e, d, m)
  BY <1>1 DEF StageAt, HasRtl, OfNode, OfElement, OfStage, TaskOf, OperandCall
<1>4. /\ \A e, d : LastClk(e, d)' = LastClk(e, d)
      /\ \A e, n : Coming(e, n)' <=> Coming(e, n)
      /\ \A t : OwnTask(t)' <=> OwnTask(t)
  <2>1. \A e, d : LastClk(e, d)' = LastClk(e, d)
    BY <1>1, <1>2 DEF LastClk
  <2>2. \A e, n : Coming(e, n)' <=> Coming(e, n)
    BY <1>3 DEF Coming
  <2>3. \A t : OwnTask(t)' <=> OwnTask(t)
    BY <1>2 DEF OwnTask
  <2>4. QED
    BY <2>1, <2>2, <2>3
<1>5. StatesOnly => StatesOnly'
  BY <1>1, <1>2, <1>3 DEF StatesOnly
<1>6. ConstsTaken => ConstsTaken'
  BY <1>1, <1>2, <1>3 DEF ConstsTaken
<1>7. NoGapsInPipelines /\ OwnTasks /\ LoopsLast => NoGapsInPipelines' /\ OwnTasks' /\ LoopsLast'
  BY <1>1, <1>3, <1>4 DEF NoGapsInPipelines, OwnTasks, LoopsLast
<1>8. ReadsBuilt => ReadsBuilt'
  BY <1>1, <1>2, <1>3 DEF ReadsBuilt
<1>9. AccessesReady => AccessesReady'
  BY <1>1, <1>2, <1>3, <1>4 DEF AccessesReady
<1>10. GetsReady => GetsReady'
  BY <1>1, <1>3 DEF GetsReady, MadeUpTo
<1>11. NewUntilRegistered => NewUntilRegistered'
  <2>1. \A S : ClosedUnderDeps(S)' <=> ClosedUnderDeps(S)
    BY <1>2 DEF ClosedUnderDeps
  <2>2. \A t, S, n : Inside(t, S, n)' <=> Inside(t, S, n)
    BY DEF Inside
  <2>3. QED
    BY <1>1, <1>2, <1>3, <2>1, <2>2 DEF NewUntilRegistered
<1>12. ChainsThere => ChainsThere'
  BY <1>1, <1>2, <1>3, <1>4 DEF ChainsThere
<1>13. HandReady => HandReady'
  BY <1>1, <1>2, <1>3, <1>4 DEF HandReady
<1>14. QED
  BY <1>5, <1>6, <1>7, <1>8, <1>9, <1>10, <1>11, <1>12, <1>13 DEF Ready

-----------------------------------------------------------------------------
\* No step fails while all of this holds.

\* What is known of a good netlist while its nodes are built
Calm == Base /\ Good /\ Ready /\ StatesOnly /\ ConstsTaken /\ WhileBuilding

\* Epsilon behind the beginning of a chain is still its first clk.
LEMMA EpsStart ==
  ASSUME Base, Good, NEW e, NEW d \in Node, Reaches(e, d)
  PROVE  start_clk(TirTime(e, d) + Eps) = Start(e, d)
<1>1. ~ AcrossGap /\ ~ CloseToNextClk
  BY DEF Good
<1>2. CASE Owner(d) = e
  <2>1. Start(Owner(d), d) = OutClk(d) /\ start_clk(TirTime(Owner(d), d) + Eps) = OutClk(d)
    BY <1>1, OwnStart
  <2>2. QED
    BY <1>2, <2>1
<1>3. CASE <<e, d>> \in Crossings
  <2> DEFINE x == <<e, d>>
  <2>1. x \in Crossings /\ x[1] = e /\ x[2] = d
    BY <1>3
  <2> HIDE DEF x
  <2>2. /\ Start(x[1], x[2]) = HandedAt(x[2], x[1])
        /\ start_clk(FirstUseTime(x[2], x[1]) + Eps) = HandedAt(x[2], x[1])
        /\ TirTime(x[1], x[2]) = FirstUseTime(x[2], x[1])
    BY <1>1, <2>1, Handed
  <2>3. QED
    BY <2>1, <2>2
<1>4. QED
  BY <1>2, <1>3 DEF Reaches

\* The task that is taken
LEMMA FirstTask ==
  ASSUME Calm, NEW step, NextIs(step)
  PROVE  LET h == Head(todo)
         IN  /\ h \in Tasks /\ h.step = step /\ TaskTyped(h) /\ OwnTask(h)
             /\ IsSeq(todo) /\ todo # <<>> /\ 1 \in DOMAIN todo /\ todo[1] = h
             /\ \A i \in DOMAIN todo : ~ (i < 1)
             /\ step \in {"operand", "after", "used", "get", "makeValid", "connect"} =>
                  h.node \in Node
             /\ step \in {"operand", "connect"} => h.user \in Node
             /\ ~ AllocFailed
<1>1. AllocOK /\ TasksTyped /\ OwnTasks
  BY DEF Calm, Base, AllocInv, WhileBuilding, Ready
<1>2. /\ TodoOK /\ todo # <<>> /\ Head(todo).step = step
      /\ step \in {"operand", "after", "used", "get", "makeValid", "connect"} =>
           Head(todo).node \in Node
      /\ step \in {"operand", "connect"} => Head(todo).user \in Node
  BY <1>1, TaskFacts
<1>3. Head(todo) \in Tasks /\ IsSeq(todo) /\ ~ AllocFailed
  BY <1>2, HeadIs
<1>4. 1 \in DOMAIN todo /\ todo[1] = Head(todo) /\ DOMAIN todo \subseteq Nat \ {0}
  BY <1>2, <1>3, RestAt
<1>5. \A i \in DOMAIN todo : ~ (i < 1)
  BY <1>4
<1>6. TaskTyped(Head(todo)) /\ OwnTask(Head(todo))
  BY <1>1, <1>3 DEF TasksTyped, OwnTasks
<1>7. QED
  BY <1>2, <1>3, <1>4, <1>5, <1>6

\* A value is there when it is taken, and is not taken before its clk.
LEMMA GetWorks ==
  ASSUME Calm, Get
  PROVE  ~ AllocFailed'
<1> DEFINE h == Head(todo)
           x == <<h.elm, h.node>>
           index == IndexFor(netNodeToRtl[x], h.time)
<1>1. NextIs("get")
  BY DEF Get
<1>2. /\ h \in Tasks /\ h.step = "get" /\ TaskTyped(h) /\ ~ AllocFailed
      /\ 1 \in DOMAIN todo /\ todo[1] = h /\ \A i \in DOMAIN todo : ~ (i < 1)
  BY <1>1, FirstTask
<1>3. /\ Base /\ Good /\ OwnTasks /\ TasksTyped /\ GetsReady /\ HandReady
      /\ SyncOK /\ ResourcesOK /\ BuildInput /\ Building
  BY BaseFacts DEF Calm, Ready, WhileBuilding, Base, AllocInv
<1>4. /\ start_clk(h.time + Eps) \in Nat /\ Start(h.elm, h.node) \in Nat
      /\ Start(h.elm, h.node) <= start_clk(h.time + Eps)
      /\ h.user[1] # "element" => h.user[1] = "node"
      /\ h.user[1] = "element" => h.node \in Node
                                  /\ <<h.user[2], h.node>> \in Crossings
  BY <1>2, <1>3, GetTime
<1>5. x \in DOMAIN netNodeToRtl
  <2>1. CASE h.user[1] = "element"
    BY <1>2, <1>3, <2>1 DEF HandReady, HasRtl
  <2>2. CASE h.user[1] = "node"
    <3>1. MadeUpTo(1)
      BY <1>2, <1>3, <2>2 DEF GetsReady
    <3>2. HasRtl(h.elm, h.node)
      BY <1>2, <3>1 DEF MadeUpTo
    <3>3. QED
      BY <3>2 DEF HasRtl
  <2>3. QED
    BY <1>4, <2>1, <2>2
<1>6. h.time \in Int
  <2>1. CASE h.user[1] = "element"
    <3>1. h.time = HandedAt(h.node, h.user[2]) * Clk
      BY <1>2, <1>3, <2>1 DEF SyncOK
    <3>2. HandedAt(h.node, h.user[2]) \in Int
      <4> DEFINE y == <<h.user[2], h.node>>
      <4>1. y \in Crossings /\ y[1] = h.user[2] /\ y[2] = h.node
        BY <1>4, <2>1
      <4> HIDE DEF y
      <4>2. HandedAt(y[2], y[1]) \in Int
        BY <1>3, <4>1, BaseFacts, FirstUseTimeTyped
      <4>3. QED
        BY <4>1, <4>2
    <3> HIDE DEF h
    <3>3. QED
      BY <1>3, <3>1, <3>2, BaseFacts
  <2>2. CASE h.user[1] # "element"
    <3>1. PICK m \in Node : h = UseCall(h.elm, h.node, m)
      BY <1>2, <2>2 DEF TaskTyped
    <3>2. h.time = scheduledIn[m]
      BY <3>1, TaskFields
    <3>3. scheduledIn[m] \in Nat
      BY <1>3, NodeClk
    <3>4. QED
      BY <3>2, <3>3
  <2>3. QED
    BY <2>1, <2>2
<1>7. ~ (index < 0)
  <2>1. index = start_clk(h.time + Eps) - start_clk(TirTime(x[1], x[2]))
    BY <1>3, <1>5, <1>6, IndexInChain
  <2>2. start_clk(TirTime(x[1], x[2])) = Start(h.elm, h.node)
    BY DEF Start
  <2> HIDE DEF index
  <2>3. QED
    BY <1>4, <2>1, <2>2
<1>8. allocPhase' = allocPhase
  BY <1>5, <1>7 DEF Get, Continue
<1>9. QED
  BY <1>2, <1>8 DEF AllocFailed

\* A chain has the stages in which _afterOutputUsed registers it.
LEMMA UsedWorks ==
  ASSUME Calm, AfterOutputUsed
  PROVE  ~ AllocFailed'
<1> DEFINE h == Head(todo)
           e == h.elm
           d == h.node
           tir == netNodeToRtl[<<e, d>>]
           stages == {StageFromEnd(tir, e, k) : k \in NotRegisteredYet(e, d)}
<1>1. NextIs("used")
  BY DEF AfterOutputUsed
<1>2. h \in Tasks /\ h.step = "used" /\ OwnTask(h) /\ d \in Node /\ ~ AllocFailed
  BY <1>1, FirstTask
<1>3. /\ Base /\ Good /\ ChainsThere /\ ChainsLong /\ ConstsTaken /\ ResourcesOK /\ Building
      /\ ~ AcrossGap /\ ~ CloseToNextClk
  BY DEF Calm, Ready, WhileBuilding, Base, AllocInv, Good
<1>4. ASSUME HasRtl(e, d)
      PROVE  stages \subseteq DOMAIN stageSignals
  <2>1. ~ IsConst(d)
    <3>1. <<e, d>> \in DOMAIN netNodeToRtl
      BY <1>4 DEF HasRtl
    <3>2. ~ IsConst(<<e, d>>[2])
      BY <1>3, <3>1 DEF ConstsTaken
    <3>3. QED
      BY <3>2
  <2>2. Reaches(e, d)
    BY <1>2, <2>1 DEF OwnTask
  <2>3. PICK x \in DOMAIN netNodeToRtl : x = <<e, d>> /\ x[1] = e /\ x[2] = d
    BY <1>4 DEF HasRtl
  <2>4. /\ tir.timeOffset = TirTime(e, d) /\ tir.len \in Nat \ {0}
    <3>1. netNodeToRtl[x] = [timeOffset |-> TirTime(x[1], x[2]), len |-> netNodeToRtl[x].len]
      BY <1>3 DEF ResourcesOK
    <3>2. netNodeToRtl[x].len \in Nat \ {0} /\ netNodeToRtl[x].timeOffset = TirTime(e, d)
      BY <1>3, <2>3, <3>1 DEF ChainsLong
    <3>3. QED
      BY <2>3, <3>2
  <2>5. Start(e, d) \in Nat
    BY <1>2, <1>3, <2>2, ReachedStart
  <2>6. start_clk(TirTime(e, d) + Eps) = Start(e, d)
    BY <1>2, <1>3, <2>2, EpsStart
  <2>7. \A c \in Start(e, d)..LastClk(e, d) : <<e, c>> \in DOMAIN stageSignals
    BY <1>3, <2>2, <2>3 DEF ChainsThere, StageAt
  <2>8. LastClk(e, d) = Start(e, d) + tir.len - 1
    BY DEF LastClk
  <2>9. ASSUME NEW k \in NotRegisteredYet(e, d)
        PROVE  StageFromEnd(tir, e, k) \in DOMAIN stageSignals
    <3>1. k \in 0..(tir.len - 1)
      BY DEF NotRegisteredYet
    <3>2. StageFromEnd(tir, e, k) = <<e, Start(e, d) + tir.len - 1 - k>>
      BY <2>4, <2>6 DEF StageFromEnd
    <3> HIDE DEF tir, e, d
    <3>3. Start(e, d) + tir.len - 1 - k \in Start(e, d)..LastClk(e, d)
      BY <2>4, <2>5, <2>8, <3>1
    <3>4. QED
      BY <2>7, <3>2, <3>3
  <2>10. QED
    BY <2>9
<1>5. Continue(<<>>)
  <2>1. Register(d, IF HasRtl(e, d) THEN stages ELSE {}, <<>>)
    BY DEF AfterOutputUsed
  <2>2. (IF HasRtl(e, d) THEN stages ELSE {}) \subseteq DOMAIN stageSignals
    BY <1>4
  <2> HIDE DEF stages
  <2>3. QED
    BY <2>1, <2>2 DEF Register
<1>6. QED
  BY <1>2, <1>5 DEF AllocFailed, Continue

-----------------------------------------------------------------------------
\* A stage of the element.

\* A state or stage that was found is there, and in a pipeline all before it.
LEMMA StatesThere ==
  ASSUME Calm, NEW e \in DOMAIN archElements, NEW c \in Nat, IsState(e, c)
  PROVE  /\ <<e, c>> \in DOMAIN stageSignals
         /\ ~ archElements[e].fsm => \A k \in 0..c : <<e, k>> \in DOMAIN stageSignals
<1>1. StatesOnly /\ NoGapsInPipelines
  BY DEF Calm, Ready
<1>2. <<e, c>> \in DOMAIN stageSignals
  BY <1>1 DEF StatesOnly, IsState, StageAt
<1> DEFINE x == <<e, c>>
<1>3. x \in DOMAIN stageSignals /\ x[1] = e /\ x[2] = c
  BY <1>2
<1> HIDE DEF x
<1>4. ~ archElements[e].fsm => \A k \in 0..c : StageAt(e, k)
  BY <1>1, <1>3 DEF NoGapsInPipelines
<1>5. QED
  BY <1>2, <1>4 DEF StageAt

\* A value that is registered as new is, and has its stage.
LEMMA AfterWorks ==
  ASSUME Calm, AfterNodeInstantiated
  PROVE  ~ AllocFailed'
<1> DEFINE h == Head(todo)
           e == h.elm
           n == h.node
           tir == netNodeToRtl[<<e, n>>]
           deps == OnEach(DataDeps(n), "used", e)
<1>1. NextIs("after")
  BY DEF AfterNodeInstantiated
<1>2. /\ h \in Tasks /\ h.step = "after" /\ OwnTask(h) /\ n \in Node /\ ~ AllocFailed
      /\ 1 \in DOMAIN todo /\ todo[1] = h
  BY <1>1, FirstTask
<1>3. /\ Base /\ Good /\ ChainsThere /\ ConstsTaken /\ ResourcesOK /\ Building
      /\ NewUntilRegistered
  BY DEF Calm, Ready, Base, AllocInv
<1>4. CASE ~ HasRtl(e, n)
  <2>1. Continue(deps)
    BY <1>4 DEF AfterNodeInstantiated
  <2>2. QED
    BY <1>2, <2>1 DEF Continue, AllocFailed
<1>5. CASE HasRtl(e, n)
  <2>1. tir.len = 1
    BY <1>2, <1>3, <1>5 DEF NewUntilRegistered
  <2>2. PICK x \in DOMAIN netNodeToRtl : x = <<e, n>> /\ x[1] = e /\ x[2] = n
    BY <1>5 DEF HasRtl
  <2>3. Owner(n) = e
    <3>1. ~ IsConst(n)
      BY <1>3, <2>2 DEF ConstsTaken
    <3>2. QED
      BY <1>2, <3>1 DEF OwnTask
  <2>4. Reaches(e, n)
    BY <2>3 DEF Reaches
  <2>5. tir.timeOffset = TirTime(e, n)
    <3>1. netNodeToRtl[x] = [timeOffset |-> TirTime(x[1], x[2]), len |-> netNodeToRtl[x].len]
      BY <1>3 DEF ResourcesOK
    <3>2. netNodeToRtl[x].timeOffset = TirTime(e, n)
      BY <2>2, <3>1
    <3>3. QED
      BY <2>2, <3>2
  <2>6. <<e, Start(e, n)>> \in DOMAIN stageSignals
    <3>1. \A c \in Start(e, n)..LastClk(e, n) : StageAt(e, c)
      BY <1>3, <2>2, <2>4 DEF ChainsThere
    <3>2. Start(e, n) \in Nat
      BY <1>2, <1>3, <2>4, ReachedStart
    <3>3. LastClk(e, n) = Start(e, n) + tir.len - 1
      BY DEF LastClk
    <3> HIDE DEF tir
    <3>4. Start(e, n) \in Start(e, n)..LastClk(e, n)
      BY <2>1, <3>2, <3>3
    <3>5. QED
      BY <3>1, <3>4 DEF StageAt
  <2>7. <<e, start_clk(tir.timeOffset)>> \in DOMAIN stageSignals
    BY <2>5, <2>6 DEF Start
  <2>8. Register(n, {<<e, start_clk(tir.timeOffset)>>}, deps)
    BY <1>5, <2>1 DEF AfterNodeInstantiated
  <2>9. Continue(deps)
    <3> HIDE DEF deps, tir, e, n
    <3>1. QED
      BY <2>7, <2>8 DEF Register
  <2>10. QED
    BY <1>2, <2>9 DEF Continue, AllocFailed
<1>6. QED
  BY <1>4, <1>5

\* A node that has constants to instantiate is an operator or a write.
LEMMA ConstFor ==
  ASSUME AllocInput, NEW n \in Node, NEW d \in net.dataDeps[n], net.kind[n] # "gate", ~ IsRead(n)
  PROVE  net.kind[n] = "op" \/ IsWrite(n)
<1>1. net.kind[n] \in Kind /\ (net.kind[n] = "const" => net.dataDeps[n] = {})
  BY NetFacts
<1>2. net.kind[n] # "const"
  BY <1>1
<1>3. QED
  BY <1>1, <1>2 DEF Kind, IsRead, IsWrite

\* The stage in which an operand is made is there: an element owns what it makes.
LEMMA OperandWorks ==
  ASSUME Calm, InstantiateOutInTime
  PROVE  ~ AllocFailed'
<1> DEFINE h == Head(todo)
           e == h.elm
           d == h.node
           n == h.user
<1>1. NextIs("operand")
  BY DEF InstantiateOutInTime
<1>2. /\ h \in Tasks /\ h.step = "operand" /\ OwnTask(h) /\ TaskTyped(h)
      /\ d \in Node /\ n \in Node /\ ~ AllocFailed
  BY <1>1, FirstTask
<1>3. /\ Base /\ Good /\ ResourcesOK /\ Building /\ AllocInput
  BY BaseFacts DEF Calm, Base, AllocInv
<1>4. Owner(n) = e /\ ~ IsRead(n) /\ d \in net.dataDeps[n] /\ net.kind[n] # "gate"
  BY <1>2 DEF OwnTask, TaskTyped
<1>5. /\ OutClk(n) \in Nat /\ OutClk(d) \in Nat /\ OutClk(d) <= OutClk(n)
      /\ e \in DOMAIN archElements /\ IsState(e, OutClk(n))
      /\ IsState(Owner(d), OutClk(d))
  <2>1. /\ OutClk(n) \in Nat /\ Owner(n) \in DOMAIN archElements
        /\ IsState(Owner(n), OutClk(n)) /\ d \in Deps(n)
        /\ \A k \in Deps(n) : OutClk(k) <= OutClk(n)
    BY <1>2, <1>3, <1>4, NodeClk
  <2>2. OutClk(d) \in Nat /\ IsState(Owner(d), OutClk(d))
    BY <1>2, <1>3, NodeClk
  <2>3. QED
    BY <1>4, <2>1, <2>2
<1>6. ASSUME ~ HasRtl(e, d)
      PROVE  <<e, OutClk(d)>> \in DOMAIN stageSignals
  <2>1. CASE IsConst(d)
    <3>1. net.kind[n] = "op" \/ IsWrite(n)
      BY <1>2, <1>3, <1>4, ConstFor
    <3>2. archElements[e].fsm => IsState(e, OutClk(d))
      BY <1>2, <1>3, <1>4, <2>1, <3>1 DEF Good, EarlierConst
    <3> HIDE DEF e, d, n
    <3>3. CASE archElements[e].fsm
      BY <1>5, <3>2, <3>3, StatesThere
    <3>4. CASE ~ archElements[e].fsm
      <4>1. \A k \in 0..OutClk(n) : <<e, k>> \in DOMAIN stageSignals
        BY <1>5, <3>4, StatesThere
      <4>2. OutClk(d) \in 0..OutClk(n)
        BY <1>5
      <4>3. QED
        BY <4>1, <4>2
    <3>5. QED
      BY <3>3, <3>4
  <2>2. CASE ~ IsConst(d)
    <3>1. Owner(d) = e
      <4>1. SUFFICES ASSUME Owner(d) # e PROVE FALSE
        OBVIOUS
      <4>2. <<Owner(n), d>> \in Crossings
        BY <1>2, <1>3, <1>4, <2>2, <4>1, UserCrosses
      <4>3. QED
        BY <1>3, <1>4, <1>6, <4>2 DEF ResourcesOK, HasRtl
    <3> HIDE DEF e, d, n
    <3>2. QED
      BY <1>5, <3>1, StatesThere
  <2>3. QED
    BY <2>1, <2>2
<1>7. UNCHANGED allocPhase
  BY <1>6 DEF InstantiateOutInTime, Continue
<1>8. QED
  BY <1>2, <1>7 DEF AllocFailed

-----------------------------------------------------------------------------
\* The connections.

\* No value needs a buffer.
LEMMA ConnectWorks ==
  ASSUME Calm, Connect
  PROVE  ~ AllocFailed'
<1> DEFINE h == Head(todo)
           c == <<h.node, h.user>>
<1>1. NextIs("connect")
  BY DEF Connect
<1>2. h \in Tasks /\ h.step = "connect" /\ ~ AllocFailed
  BY <1>1, FirstTask
<1>3. Base /\ ~ AcrossGap /\ ~ CloseToNextClk /\ HandedOK /\ Building
  BY DEF Calm, Base, AllocInv, Good
<1>4. c \in ToSet(connections) /\ c[1] = h.node /\ c[2] = h.user
  BY <1>2, <1>3 DEF HandedOK
<1> DEFINE x == <<Owner(h.user), h.node>>
<1>5. x \in Crossings /\ x[1] = Owner(h.user) /\ x[2] = h.node
  <2> HIDE DEF c
  <2>1. <<Owner(c[2]), c[1]>> \in Crossings
    BY <1>4, CrossingOfConnection
  <2>2. QED
    BY <1>4, <2>1
<1>6. ~ NeedsBuffer(h.node, Owner(h.user))
  <2> HIDE DEF x
  <2>1. ~ NeedsBuffer(x[2], x[1])
    BY <1>3, <1>5, Handed
  <2>2. QED
    BY <1>5, <2>1
<1>7. UNCHANGED allocPhase
  BY <1>6 DEF Connect, Continue
<1>8. QED
  BY <1>2, <1>7 DEF AllocFailed

\* The chain of a value of the element itself
LEMMA OwnChain ==
  ASSUME Calm, NEW o \in Node, HasRtl(Owner(o), o)
  PROVE  LET tir == netNodeToRtl[<<Owner(o), o>>]
         IN  /\ tir.timeOffset \in Int /\ tir.len \in Nat \ {0}
             /\ start_clk(tir.timeOffset) = OutClk(o) /\ OutClk(o) \in Nat
             /\ EndOfChain(tir) \in Int
             /\ start_clk(EndOfChain(tir)) = LastClk(Owner(o), o)
             /\ LastClk(Owner(o), o) = OutClk(o) + tir.len - 1
<1> DEFINE e == Owner(o)
           tir == netNodeToRtl[<<e, o>>]
<1>1. Base /\ ~ CloseToNextClk /\ ChainsLong /\ ResourcesOK /\ Building /\ Eps = 1
  BY BaseFacts DEF Calm, Base, AllocInv, WhileBuilding, Good
<1>2. PICK x \in DOMAIN netNodeToRtl : x = <<e, o>> /\ x[1] = e /\ x[2] = o
  BY DEF HasRtl
<1>3. tir.timeOffset = TirTime(e, o) /\ tir.len \in Nat \ {0}
  <2>1. netNodeToRtl[x] = [timeOffset |-> TirTime(x[1], x[2]), len |-> netNodeToRtl[x].len]
    BY <1>1 DEF ResourcesOK
  <2>2. netNodeToRtl[x].len \in Nat \ {0} /\ netNodeToRtl[x].timeOffset = TirTime(e, o)
    BY <1>1, <1>2, <2>1 DEF ChainsLong
  <2>3. QED
    BY <1>2, <2>2
<1>4. /\ TirTime(e, o) \in Int /\ Start(e, o) = OutClk(o)
      /\ start_clk(TirTime(e, o) + Eps) = OutClk(o) /\ OutClk(o) \in Nat
  BY <1>1, OwnStart, NodeClk
<1>5. start_clk(tir.timeOffset) = OutClk(o)
  BY <1>3, <1>4 DEF Start
<1>6. LastClk(e, o) = OutClk(o) + tir.len - 1
  BY <1>4 DEF LastClk
<1>7. EndOfChain(tir) \in Int /\ start_clk(EndOfChain(tir)) = OutClk(o) + tir.len - 1
  <2>1. EndOfChain(tir) = TirTime(e, o) + (tir.len - 1) * Clk + Eps
    BY <1>3 DEF EndOfChain
  <2> HIDE DEF tir, e
  <2>2. TirTime(e, o) + Eps \in Int /\ tir.len - 1 \in Int
    BY <1>1, <1>3, <1>4
  <2>3. /\ (tir.len - 1) * Clk \in Int
        /\ TirTime(e, o) + Eps + (tir.len - 1) * Clk \in Int
        /\ start_clk(TirTime(e, o) + Eps + (tir.len - 1) * Clk)
             = start_clk(TirTime(e, o) + Eps) + (tir.len - 1)
    BY <2>2, LaterClk
  <2>4. EndOfChain(tir) = TirTime(e, o) + Eps + (tir.len - 1) * Clk
    BY <1>1, <1>4, <2>1, <2>3
  <2>5. start_clk(EndOfChain(tir)) = OutClk(o) + (tir.len - 1)
    BY <1>4, <2>3, <2>4
  <2>6. QED
    BY <1>3, <1>4, <2>3, <2>4, <2>5
<1>8. QED
  BY <1>3, <1>4, <1>5, <1>6, <1>7

\* A chain that does not last long enough is not registered behind its end.
LEMMA ExtensionWorks ==
  ASSUME Calm, NEW o \in Node, HasRtl(Owner(o), o), NEW endTime \in Int,
         LastClk(Owner(o), o) < start_clk(endTime), ExtendValidity(Owner(o), o, endTime)
  PROVE  Continue(<<>>)
<1> DEFINE e == Owner(o)
           tir == netNodeToRtl[<<e, o>>]
           times == ExtensionTimes(tir, endTime)
           stages == {<<e, start_clk(t)>> : t \in times}
           old(s) == IF s \in DOMAIN stageSignals THEN stageSignals[s] ELSE {}
<1>1. /\ EndOfChain(tir) \in Int /\ start_clk(EndOfChain(tir)) = LastClk(e, o)
      /\ LastClk(e, o) \in Int
  <2>1. /\ EndOfChain(tir) \in Int /\ start_clk(EndOfChain(tir)) = LastClk(e, o)
    BY OwnChain
  <2>2. QED
    BY <2>1, ClkBounds
<1>2. ~ (EndOfChain(tir) >= endTime)
  <2>1. SUFFICES ASSUME EndOfChain(tir) >= endTime PROVE FALSE
    OBVIOUS
  <2> HIDE DEF tir, e
  <2>2. endTime <= EndOfChain(tir)
    BY <1>1, <2>1
  <2>3. start_clk(endTime) <= start_clk(EndOfChain(tir)) /\ start_clk(endTime) \in Int
    BY <1>1, <2>2, EarlierInClk, ClkBounds
  <2>4. LastClk(e, o) < start_clk(endTime)
    BY DEF e
  <2>5. QED
    BY <1>1, <2>3, <2>4
<1>3. ASSUME NEW s \in stages
      PROVE  o \notin old(s)
  <2>1. PICK t \in times : s = <<e, start_clk(t)>>
    OBVIOUS
  <2>2. PICK k \in 1..((endTime - EndOfChain(tir)) \div Clk + 1) : t = EndOfChain(tir) + k * Clk
    BY <2>1 DEF ExtensionTimes
  <2>3. k \in Int /\ 1 <= k
    OBVIOUS
  <2>4. start_clk(t) = LastClk(e, o) + k
    <3> HIDE DEF tir, e
    <3>1. start_clk(EndOfChain(tir) + k * Clk) = start_clk(EndOfChain(tir)) + k
      BY <1>1, <2>3, LaterClk
    <3>2. QED
      BY <1>1, <2>2, <3>1
  <2>5. s[1] = e /\ s[2] = start_clk(t)
    BY <2>1
  <2>6. SUFFICES ASSUME s \in DOMAIN stageSignals, o \in stageSignals[s] PROVE FALSE
    OBVIOUS
  <2>7. s[2] <= LastClk(s[1], o)
    BY <2>5, <2>6 DEF Calm, Ready, ChainsThere
  <2> HIDE DEF e, tir, stages
  <2>8. QED
    BY <1>1, <2>3, <2>4, <2>5, <2>7
<1>4. ~ \E s \in stages : o \in old(s)
  BY <1>3
<1>5. QED
  <2>1. \/ EndOfChain(tir) >= endTime \/ \E s \in stages : o \in old(s)
        \/ Continue(<<>>)
    BY DEF ExtendValidity
  <2>2. QED
    BY <1>2, <1>4, <2>1

\* A value that is handed over lasts, or can be made to.
LEMMA MakeValidWorks ==
  ASSUME Calm, MakeValid
  PROVE  ~ AllocFailed'
<1> DEFINE h == Head(todo)
<1>1. NextIs("makeValid")
  BY DEF MakeValid
<1>2. h \in Tasks /\ h.step = "makeValid" /\ TaskTyped(h) /\ ~ AllocFailed
  BY <1>1, FirstTask
<1>3. Base /\ ~ AcrossGap /\ ~ CloseToNextClk /\ HandReady
  BY DEF Calm, Good, Ready
<1>4. HasRtl(h.elm, h.node) /\ \E x \in Crossings : h = LastsFor(x[2], x[1])
  BY <1>2, <1>3 DEF HandReady
<1>5. PICK x \in Crossings : h = LastsFor(x[2], x[1])
  BY <1>4
<1>6. PICK o, dst, src, endTime :
        /\ o = x[2] /\ dst = x[1] /\ src = Owner(o) /\ endTime = FirstUseTime(o, dst)
  OBVIOUS
<1>7. h.elm = src /\ h.node = o /\ h.endTime = endTime /\ endTime \in Int
  BY <1>2, <1>5, <1>6 DEF LastsFor, TaskTyped
<1>8. PICK tir : tir = netNodeToRtl[<<src, o>>]
  OBVIOUS
<1>9. /\ o \in Node /\ start_clk(endTime) \in Nat /\ OutClk(o) <= start_clk(endTime)
      /\ archElements[src].fsm => \A c \in OutClk(o)..start_clk(endTime) : IsState(src, c)
  <2>1. /\ x[2] \in Node /\ HandedAt(x[2], x[1]) \in Nat /\ OutClk(x[2]) <= HandedAt(x[2], x[1])
        /\ archElements[Owner(x[2])].fsm =>
             \A c \in OutClk(x[2])..HandedAt(x[2], x[1]) : IsState(Owner(x[2]), c)
    BY <1>3, Handed
  <2>2. HandedAt(o, dst) = start_clk(endTime)
    BY <1>6 DEF HandedAt
  <2>3. QED
    BY <1>6, <2>1, <2>2
<1>10. /\ tir.timeOffset \in Int /\ tir.len \in Nat \ {0}
       /\ start_clk(tir.timeOffset) = OutClk(o) /\ OutClk(o) \in Nat
       /\ LastClk(src, o) = OutClk(o) + tir.len - 1
  BY <1>4, <1>6, <1>7, <1>8, <1>9, OwnChain
<1>11. ~ (start_clk(endTime) - start_clk(tir.timeOffset) < 0)
  BY <1>9, <1>10
<1>12. archElements[src].fsm => IsState(src, start_clk(endTime))
  BY <1>9, <1>10
<1>13. ASSUME ~ (start_clk(endTime) - start_clk(tir.timeOffset) < tir.len),
              ExtendValidity(src, o, endTime)
       PROVE  Continue(<<>>)
  <2>1. LastClk(src, o) < start_clk(endTime)
    BY <1>9, <1>10, <1>13
  <2>2. QED
    BY <1>4, <1>6, <1>7, <1>9, <1>13, <2>1, ExtensionWorks
<1>14. LET offset == start_clk(endTime) - start_clk(tir.timeOffset)
       IN  IF ~ HasRtl(src, o) \/ offset < 0
           THEN Fail("AssertionError") /\ UNCHANGED <<netNodeToRtl, stageSignals>>
           ELSE IF offset < tir.len
           THEN Continue(<<>>) /\ UNCHANGED <<netNodeToRtl, stageSignals>>
           ELSE IF ~ archElements[src].fsm THEN ExtendValidity(src, o, endTime)
           ELSE /\ IF IsState(src, start_clk(endTime)) THEN Continue(<<>>)
                   ELSE Fail("AssertionError")
                /\ UNCHANGED <<netNodeToRtl, stageSignals>>
  BY <1>7, <1>8 DEF MakeValid
<1>15. Continue(<<>>)
  BY <1>4, <1>7, <1>11, <1>12, <1>13, <1>14
<1>16. QED
  BY <1>2, <1>15 DEF AllocFailed, Continue

\* Both elements are there when they exchange a value.
LEMMA SyncWorks ==
  ASSUME Calm, ConnectSync
  PROVE  ~ AllocFailed'
<1> DEFINE h == Head(todo)
<1>1. NextIs("sync")
  BY DEF ConnectSync
<1>2. /\ h \in Tasks /\ h.step = "sync" /\ ~ AllocFailed
      /\ IsSeq(todo) /\ todo[1] = h
  BY <1>1, FirstTask
<1>3. Base /\ ~ AcrossGap /\ ~ CloseToNextClk /\ HandReady /\ ExtensionsFirst
  BY DEF Calm, Good, Ready, WhileBuilding
<1>4. PICK x \in Crossings :
        /\ h.src = Owner(x[2]) /\ h.dst = x[1] /\ h.clk = HandedAt(x[2], x[1])
        /\ StageAt(h.src, h.clk) \/ LastsFor(x[2], x[1]) \in Tasks
  BY <1>2, <1>3 DEF HandReady
<1>5. LastsFor(x[2], x[1]) \notin Tasks
  <2>1. SUFFICES ASSUME LastsFor(x[2], x[1]) \in Tasks PROVE FALSE
    OBVIOUS
  <2>2. LastsFor(x[2], x[1]).step = "makeValid"
    BY DEF LastsFor
  <2>3. PICK i \in DOMAIN todo : todo[i] = LastsFor(x[2], x[1])
    BY <1>2, <2>1, AtPosition DEF Tasks
  <2>4. i = 1
    BY <1>3, <2>2, <2>3 DEF ExtensionsFirst
  <2>5. QED
    BY <1>2, <2>2, <2>3, <2>4
<1>6. <<h.src, h.clk>> \in DOMAIN stageSignals
  BY <1>4, <1>5 DEF StageAt
<1>7. PICK dst, k : dst = x[1] /\ k = HandedAt(x[2], x[1])
  OBVIOUS
<1>8. /\ dst \in DOMAIN archElements /\ k \in Nat
      /\ archElements[dst].fsm => IsState(dst, k)
      /\ \E m \in Node : Owner(m) = dst /\ k <= OutClk(m)
  BY <1>3, <1>7, Handed
<1>9. <<dst, k>> \in DOMAIN stageSignals
  <2>1. CASE archElements[dst].fsm
    BY <1>8, <2>1, StatesThere
  <2>2. CASE ~ archElements[dst].fsm
    <3>1. PICK m \in Node : Owner(m) = dst /\ k <= OutClk(m)
      BY <1>8
    <3>2. IsState(dst, OutClk(m)) /\ OutClk(m) \in Nat
      BY <1>3, <3>1, NodeClk
    <3>3. \A c \in 0..OutClk(m) : <<dst, c>> \in DOMAIN stageSignals
      BY <1>8, <2>2, <3>2, StatesThere
    <3>4. k \in 0..OutClk(m)
      BY <1>8, <3>1, <3>2
    <3>5. QED
      BY <3>3, <3>4
  <2>3. QED
    BY <2>1, <2>2
<1>10. {e \in {h.src, h.dst} : <<e, h.clk>> \notin DOMAIN stageSignals} = {}
  BY <1>4, <1>6, <1>7, <1>9
<1>11. UNCHANGED allocPhase
  BY <1>10 DEF ConnectSync, Continue
<1>12. QED
  BY <1>2, <1>11 DEF AllocFailed

-----------------------------------------------------------------------------
\* The failures.

\* The steps that fail, if any does
LEMMA FailingStep ==
  ASSUME SplitInput, SplitInv, NodesCovered, [HlsNext]_hlsVars, AllocFailed', ~ AllocFailed
  PROVE  /\ allocPhase = "build" /\ UNCHANGED StaticVars
         /\ \/ Get \/ AfterOutputUsed \/ AfterNodeInstantiated \/ InstantiateOutInTime
            \/ Connect \/ MakeValid \/ ConnectSync
<1>1. allocPhase = "build" /\ UNCHANGED vars
  BY FailsLate
<1>2. UNCHANGED <<net, scheduledIn, scheduledOut>> /\ ~ UNCHANGED allocPhase /\ TodoOK
  BY <1>1 DEF vars, AllocFailed, SplitInput, AllocOK
<1>3. NextAllocator
  BY <1>2 DEF HlsNext, HlsTerminated, hlsVars, allocVars, Scheduling
<1>4. ~ NextElements
  <2>1. ~ AddNodeToPipeline
    BY <1>1, <1>2, HeadIs DEF AddNodeToPipeline, StepsIn
  <2>2. QED
    BY <1>1, <1>2, <2>1
       DEF NextElements, Discover, DiscoverFsm, DiscoverState, FloodNetInSameCycle, FsmDiscovered,
           FsmsDiscovered, PipelineDiscovered, LoopOverStages, LoopOverNodes, Continue
<1>5. CASE NextDatapath /\ UNCHANGED <<elementVars, connections>>
  <2>1. UNCHANGED StaticVars
    BY <1>2, <1>5 DEF StaticVars, elementVars
  <2>2. Get \/ AfterOutputUsed \/ AfterNodeInstantiated \/ InstantiateOutInTime
    BY <1>2, <1>5
       DEF NextDatapath, AllocateRtlInstance, AllocateRead, AllocateWrite, AllocateOperator,
           CreateOutput, Drive, AllocateDataPath, CopyChannelSync, Continue
  <2>3. QED
    BY <1>1, <2>1, <2>2
<1>6. CASE NextSharing
  <2>1. ~ CheckInputDriver
    BY <1>1, <1>2, HeadIs DEF CheckInputDriver, StepsIn
  <2>2. ~ AnalyzeSharing /\ ~ CheckInputs /\ ~ Declare /\ ~ AllocateSync
    BY <1>1, <1>2 DEF AnalyzeSharing, CheckInputs, Declare, AllocateSync, Continue, AllocFailed
  <2>3. Connect \/ MakeValid \/ ConnectSync
    BY <1>6, <2>1, <2>2 DEF NextSharing
  <2>4. UNCHANGED StaticVars
    BY <1>2, <2>3 DEF StaticVars, elementVars, Connect, MakeValid, ConnectSync
  <2>5. QED
    BY <1>1, <2>3, <2>4
<1>7. QED
  BY <1>3, <1>4, <1>5, <1>6 DEF NextAllocator

\* None of them fails on a good netlist.
LEMMA NothingFails ==
  ASSUME SplitInput, AllocInv, SplitInv, Building => WhileBuilding, FailureInv,
         [HlsNext]_hlsVars, AllocFailed', ~ AllocFailed
  PROVE  ~ Good
<1>1. NodesCovered
  BY DEF AllocInv
<1>2. /\ allocPhase = "build"
      /\ \/ Get \/ AfterOutputUsed \/ AfterNodeInstantiated \/ InstantiateOutInTime
         \/ Connect \/ MakeValid \/ ConnectSync
  BY <1>1, FailingStep
<1>3. SUFFICES ASSUME Good PROVE FALSE
  OBVIOUS
<1>4. Building /\ Base
  BY <1>2 DEF Building, Base
<1>5. Calm
  BY <1>3, <1>4 DEF Calm, FailureInv
<1>6. ~ AllocFailed'
  BY <1>2, <1>5, GetWorks, UsedWorks, AfterWorks, OperandWorks, ConnectWorks, MakeValidWorks,
     SyncWorks
<1>7. QED
  BY <1>6

\* After an exception nothing happens.
LEMMA FailedStays ==
  ASSUME AllocOK, [HlsNext]_hlsVars, AllocFailed
  PROVE  UNCHANGED StaticVars
<1>1. /\ allocPhase \in {"AssertionError", "IndexError", "NotImplementedError"} /\ phase = "done"
      /\ TodoOK
  BY DEF AllocFailed, AllocOK
<1>2. \A step : ~ NextIs(step)
  BY <1>1 DEF NextIs
<1>3. ~ Scheduling
  BY <1>1, ScheduleNotDone DEF Scheduling
<1>4. ~ NextElements
  BY <1>1, <1>2
     DEF NextElements, Discover, DiscoverFsm, DiscoverState, FloodNetInSameCycle, FsmDiscovered,
         FsmsDiscovered, AddNodeToPipeline, PipelineDiscovered, LoopOverStages, LoopOverNodes
<1>5. ~ NextDatapath
  BY <1>2, DatapathPhase
<1>6. ~ NextSharing
  BY <1>1, <1>2
     DEF NextSharing, AnalyzeSharing, CheckInputs, CheckInputDriver, Declare, Connect, MakeValid,
         ConnectSync, AllocateSync
<1>7. UNCHANGED hlsVars
  BY <1>3, <1>4, <1>5, <1>6 DEF HlsNext, NextAllocator, HlsTerminated
<1>8. QED
  BY <1>7 DEF hlsVars, vars, allocVars, elementVars, StaticVars

-----------------------------------------------------------------------------
\* The inductive invariant, and what follows from it.

\* All that makes the next steps succeed is kept by a step that takes a task.
LEMMA ReadyTurn ==
  ASSUME NEW s, Turn(s), SplitInput, SplitInv, WhileBuilding, Acyclic, FailureInv
  PROVE  StatesOnly' /\ ConstsTaken' /\ (Good' => Ready')
<1>1. SafeTurn(s) /\ StatesOnly /\ ConstsTaken
  BY DEF SafeTurn, FailureInv, Turn
<1>2. StatesOnly' /\ ConstsTaken'
  BY <1>1, StatesTurn, ConstsTurn
<1>3. ASSUME Good'
      PROVE  Ready'
  <2>1. UNCHANGED StaticVars
    BY TurnKeeps
  <2>2. Good
    BY <1>3, <2>1, StaticGood
  <2>3. GoodTurn(s) /\ Ready
    BY <1>1, <2>2 DEF GoodTurn, FailureInv, Turn
  <2>4. NoGapsInPipelines' /\ OwnTasks' /\ LoopsLast'
    BY <1>1, <2>3, NoGapsTurn, OwnTurn, LoopsTurn DEF Ready
  <2>5. ReadsBuilt' /\ AccessesReady' /\ GetsReady'
    BY <1>1, <2>3, ReadsTurn, AccessesTurn, GetsTurn DEF Ready
  <2>6. NewUntilRegistered'
    BY <1>1, <2>3, NewTurn DEF Ready
  <2>7. ChainsThere' /\ HandReady'
    BY <1>1, <2>3, ChainsThereTurn, HandReadyTurn DEF Ready
  <2>8. QED
    BY <2>4, <2>5, <2>6, <2>7 DEF Ready
<1>4. QED
  BY <1>2, <1>3

\* Every step preserves the invariant.
LEMMA FailureInvNext ==
  ASSUME SplitInput, AllocInv, SplitInv, SplitInput', AllocInv', SplitInv', RegisterInv,
         phase = "done" => Acyclic, FailureInv, [HlsNext]_hlsVars
  PROVE  FailureInv'
<1>1. AllocInput /\ AllocOK /\ NodesCovered /\ (Building => WhileBuilding)
  BY DEF SplitInput, AllocInv, RegisterInv
<1>2. AllocFailed' => ~ Good'
  <2>1. CASE AllocFailed
    <3>1. ~ Good
      BY <2>1 DEF FailureInv
    <3>2. QED
      BY <1>1, <2>1, <3>1, FailedStays, StaticGood
  <2>2. CASE ~ AllocFailed /\ AllocFailed'
    <3>1. ~ Good
      BY <1>1, <2>2, NothingFails
    <3>2. UNCHANGED StaticVars
      BY <1>1, <2>2, FailingStep
    <3>3. QED
      BY <3>1, <3>2, StaticGood
  <2>3. QED
    BY <2>1, <2>2
<1>3. ASSUME Building'
      PROVE  StatesOnly' /\ ConstsTaken' /\ (Good' => Ready')
  <2>1. CASE Declare /\ UNCHANGED StaticVars
    <3>1. Fresh'
      BY <2>1, DeclareFresh
    <3>2. Base'
      BY <1>3 DEF Base
    <3>3. QED
      BY <3>1, <3>2, FreshNext, FreshConstsNext
  <2>2. CASE Building /\ UNCHANGED StaticVars /\ UNCHANGED <<todo, rtlVars>>
    <3>1. Good' => Good
      BY <2>2, StaticGood
    <3>2. QED
      BY <2>2, <3>1, ReadyStays DEF FailureInv
  <2>3. CASE \E s : Turn(s)
    <3>1. PICK s : Turn(s)
      BY <2>3
    <3>2. Building
      BY <3>1 DEF Turn
    <3>3. phase = "done"
      BY <1>1, <3>2 DEF AllocOK, Building
    <3>4. QED
      BY <1>1, <3>1, <3>2, <3>3, ReadyTurn
  <2>4. QED
    BY <1>1, <1>3, <2>1, <2>2, <2>3, BuildSteps
<1>4. QED
  BY <1>2, <1>3 DEF FailureInv

\* At the end each constant was taken in a state of its FSM.
LEMMA ConstsAtEnd ==
  ASSUME Base, StatesOnly, ConstsTaken, allocPhase = "done"
  PROVE  ~ EarlierConst
<1> SUFFICES ASSUME NEW n \in Node, NEW d \in net.dataDeps[n],
                    IsConst(d), net.kind[n] = "op" \/ IsWrite(n),
                    archElements[Owner(n)].fsm, ~ IsState(Owner(n), OutClk(d))
             PROVE  FALSE
  BY DEF EarlierConst
<1> DEFINE e == Owner(n)
           x == <<e, OutClk(d)>>
<1>1. Tasks = {}
  BY NothingLeft DEF Base
<1>2. e \in DOMAIN archElements /\ IsOwner(e, n)
  BY NodeClk
<1>3. Built(e, n)
  <2>1. n \in NodesOf(archElements[e])
    BY <1>2 DEF IsOwner
  <2>2. PICK s \in DOMAIN archElements[e].nodes : n \in ToSet(archElements[e].nodes[s])
    BY <2>1, NodeOfElement
  <2>3. \/ OfElement(e) \/ OfStage(e, s) \/ OfNode("node", e, n) \/ Built(e, n)
    BY <1>2, <2>2 DEF Base, AllocInv, NodesBuilt
  <2>4. QED
    BY <1>1, <2>3 DEF OfElement, OfStage, OfNode
<1>4. HasRtl(e, n) \/ <<e, n>> \in drives
  BY <1>1, <1>3 DEF Built, OfNode
<1>5. StageAt(e, OutClk(d))
  BY <1>1, <1>4 DEF ConstsTaken
<1>6. x \in DOMAIN stageSignals /\ x[1] = e /\ x[2] = OutClk(d)
  BY <1>5 DEF StageAt
<1> HIDE DEF x
<1>7. IsState(e, OutClk(d))
  BY <1>6 DEF StatesOnly
<1>8. QED
  BY <1>7

\* The invariant says what the property does.
LEMMA RejectedFor ==
  SplitInput /\ AllocInv /\ SplitInv /\ FailureInv => AllocationRejected
<1> SUFFICES ASSUME SplitInput, AllocInv, SplitInv, FailureInv PROVE AllocationRejected
  OBVIOUS
<1>1. AllocFailed => AcrossGap \/ EarlierConst \/ OrderedAfterForeignAccess \/ CloseToNextClk
  BY DEF FailureInv, Good
<1>2. allocPhase = "done" => ~ EarlierConst
  BY ConstsAtEnd DEF Base, Building, FailureInv
<1>3. QED
  BY <1>1, <1>2 DEF AllocationRejected

\* Whatever the netlist, its schedule and the order in which the recursion builds
\* the nodes: no assertion, index or missing buffer of allocate() stops it, unless
\* a value or a constant of an FSM falls into a clk in which the FSM has no state, a read
\* is ordered after an access of another element, or a value is ready just before the
\* end of its clk.
THEOREM FailuresHaveCause == HlsSpec => []AllocationRejected
<1>1. HlsInit => FailureInv
  BY DEF HlsInit, InitAllocator, FailureInv, AllocFailed, Building
<1>2. HlsInit => RegisterInv
  BY DEF HlsInit, InitAllocator, RegisterInv, OneElement, Analyzed, Building
<1>3. AllocInput /\ AllocInv /\ AllocInv' /\ CycleIffReported /\ RegisterInv /\ [HlsNext]_hlsVars
        => RegisterInv'
  BY RegisterInvNext DEF CycleIffReported
<1>4. (SplitInput /\ AllocInv /\ SplitInv) /\ (SplitInput /\ AllocInv /\ SplitInv)'
      /\ RegisterInv /\ CycleIffReported /\ FailureInv /\ [HlsNext]_hlsVars
        => FailureInv'
  BY FailureInvNext DEF CycleIffReported
<1>5. HlsSpec => HlsInit /\ [][HlsNext]_hlsVars
  BY DEF HlsSpec
<1>6. HlsSpec => [](AllocInput /\ AllocInv)
  BY AllocInvariant
<1>7. HlsSpec => []CycleIffReported
  BY ScheduleAlone, CyclesAreReported, PTL
<1>8. HlsSpec => []RegisterInv
  BY <1>2, <1>3, <1>5, <1>6, <1>7, PTL
<1>9. HlsSpec => [](SplitInput /\ AllocInv /\ SplitInv)
  BY SplitInvariant
<1>10. HlsSpec => []FailureInv
  BY <1>1, <1>4, <1>5, <1>7, <1>8, <1>9, PTL
<1>11. QED
  BY <1>9, <1>10, RejectedFor, PTL

=============================================================================
