------------------------- MODULE HlsAllocatorProofs -------------------------
(***************************************************************************)
(* Proofs about allocate() (HlsAllocator with ArchElements and             *)
(* RtlDatapath) for every netlist and every schedule of it: no value that  *)
(* crosses elements is missed or handed over without a handshake, every    *)
(* operand is the value of its clk, and every write has one driver.        *)
(*                                                                         *)
(* allocate() is a recursion over lists.  The properties are about its     *)
(* end, so the invariants say of everything that has to be done that it is *)
(* done or that a task for it is left; with the last task they become the  *)
(* properties.  A list of tasks is used as a set for that, and what the    *)
(* order decides (which time a chain begins with) is shown not to depend   *)
(* on it.                                                                  *)
(***************************************************************************)
EXTENDS HlsAllocator, HlsSchedulerProofs

-----------------------------------------------------------------------------
\* Sequences

\* A sequence over its own members
IsSeq(s) == s \in Seq(ToSet(s))

\* A sequence over some set is one over the set of its members.
LEMMA SeqIsSeq ==
  ASSUME NEW S, NEW s \in Seq(S)
  PROVE  IsSeq(s) /\ ToSet(s) \subseteq S
<1>1. s \in [1..Len(s) -> S] /\ Len(s) \in Nat
  OBVIOUS
<1>2. s \in [1..Len(s) -> ToSet(s)]
  BY <1>1 DEF ToSet
<1>3. QED
  BY <1>1, <1>2 DEF IsSeq, ToSet

\* Membership in a sequence by position.
LEMMA InSeq ==
  ASSUME NEW S, NEW s \in Seq(S), NEW x
  PROVE  x \in ToSet(s) <=> \E i \in 1..Len(s) : s[i] = x
<1>1. DOMAIN s = 1..Len(s)
  OBVIOUS
<1>2. QED
  BY <1>1 DEF ToSet

\* Appending a value adds it to the members.
LEMMA AddedToSeq ==
  ASSUME NEW S, NEW s \in Seq(S), NEW x
  PROVE  Append(s, x) \in Seq(S \cup {x}) /\ ToSet(Append(s, x)) = ToSet(s) \cup {x}
<1> DEFINE T == S \cup {x}
           r == Append(s, x)
<1>1. s \in Seq(T)
  OBVIOUS
<1>2. r \in Seq(T) /\ Len(r) = Len(s) + 1 /\ Len(s) \in Nat
      /\ \A i \in 1..Len(r) : r[i] = IF i = Len(r) THEN x ELSE s[i]
  BY <1>1
<1> HIDE DEF r, T
<1>3. ASSUME NEW y
      PROVE  y \in ToSet(r) <=> y \in ToSet(s) \cup {x}
  <2>1. y \in ToSet(r) <=> \E i \in 1..Len(r) : r[i] = y
    BY <1>2, InSeq
  <2>2. y \in ToSet(s) <=> \E i \in 1..Len(s) : s[i] = y
    BY InSeq
  <2>3. QED
    BY <1>2, <2>1, <2>2
<1>4. QED
  BY <1>2, <1>3 DEF r, T

\* Two sequences one after the other have the members of both.
LEMMA Joined ==
  ASSUME NEW t, NEW r, IsSeq(t), IsSeq(r)
  PROVE  IsSeq(t \o r) /\ ToSet(t \o r) = ToSet(t) \cup ToSet(r)
<1> DEFINE S == ToSet(r) \cup ToSet(t)
           u == t \o r
<1>1. r \in Seq(S) /\ t \in Seq(S)
  BY DEF IsSeq
<1>2. u \in Seq(S) /\ Len(u) = Len(t) + Len(r) /\ Len(t) \in Nat /\ Len(r) \in Nat
      /\ \A i \in 1..Len(u) : u[i] = IF i <= Len(t) THEN t[i] ELSE r[i - Len(t)]
  BY <1>1
<1> HIDE DEF S, u
<1>3. ASSUME NEW y
      PROVE  y \in ToSet(u) <=> y \in ToSet(t) \/ y \in ToSet(r)
  <2>1. y \in ToSet(u) <=> \E i \in 1..Len(u) : u[i] = y
    BY <1>2, InSeq
  <2>2. y \in ToSet(t) <=> \E i \in 1..Len(t) : t[i] = y
    BY <1>1, InSeq
  <2>3. y \in ToSet(r) <=> \E i \in 1..Len(r) : r[i] = y
    BY <1>1, InSeq
  <2>4. ASSUME NEW i \in 1..Len(r), r[i] = y
        PROVE  \E j \in 1..Len(u) : u[j] = y
    <3>1. i + Len(t) \in 1..Len(u) /\ ~ (i + Len(t) <= Len(t)) /\ (i + Len(t)) - Len(t) = i
      BY <1>2
    <3>2. QED
      BY <1>2, <2>4, <3>1
  <2>5. ASSUME NEW i \in 1..Len(t), t[i] = y
        PROVE  \E j \in 1..Len(u) : u[j] = y
    <3>1. i \in 1..Len(u) /\ i <= Len(t)
      BY <1>2
    <3>2. QED
      BY <1>2, <2>5, <3>1
  <2>6. ASSUME NEW i \in 1..Len(u), u[i] = y
        PROVE  y \in ToSet(t) \/ y \in ToSet(r)
    <3>1. CASE i <= Len(t)
      BY <1>2, <2>2, <2>6, <3>1
    <3>2. CASE ~ (i <= Len(t))
      <4>1. i - Len(t) \in 1..Len(r)
        BY <1>2, <3>2
      <4>2. QED
        BY <1>2, <2>3, <2>6, <3>2, <4>1
    <3>3. QED
      BY <3>1, <3>2
  <2>7. QED
    BY <2>1, <2>2, <2>3, <2>4, <2>5, <2>6
<1>4. QED
  BY <1>2, <1>3, SeqIsSeq DEF u

\* A sequence which is not empty consists of its head and its tail.
LEMMA FirstAndRest ==
  ASSUME NEW s, IsSeq(s), s # <<>>
  PROVE  IsSeq(Tail(s)) /\ ToSet(s) = {Head(s)} \cup ToSet(Tail(s))
<1> DEFINE S == ToSet(s)
           r == Tail(s)
<1>1. s \in Seq(S)
  BY DEF IsSeq
<1>2. r \in Seq(S) /\ Len(r) = Len(s) - 1 /\ Len(s) \in Nat \ {0}
      /\ (\A i \in 1..Len(r) : r[i] = s[i + 1]) /\ Head(s) = s[1]
  BY <1>1
<1> HIDE DEF S, r
<1>3. ASSUME NEW y
      PROVE  y \in ToSet(s) <=> y = Head(s) \/ y \in ToSet(r)
  <2>1. y \in ToSet(s) <=> \E i \in 1..Len(s) : s[i] = y
    BY <1>1, InSeq
  <2>2. y \in ToSet(r) <=> \E i \in 1..Len(r) : r[i] = y
    BY <1>2, InSeq
  <2>3. ASSUME NEW i \in 1..Len(s), s[i] = y, i # 1
        PROVE  \E j \in 1..Len(r) : r[j] = y
    <3>1. i - 1 \in 1..Len(r) /\ (i - 1) + 1 = i
      BY <1>2, <2>3
    <3>2. QED
      BY <1>2, <2>3, <3>1
  <2>4. QED
    BY <1>2, <2>1, <2>2, <2>3
<1>4. QED
  BY <1>2, <1>3, SeqIsSeq DEF r

\* The members of a sequence of one task
LEMMA OneTask ==
  ASSUME NEW x
  PROVE  IsSeq(<<x>>) /\ ToSet(<<x>>) = {x}
<1> DEFINE s == <<x>>
<1>1. s \in Seq({x}) /\ Len(s) = 1 /\ s[1] = x
  OBVIOUS
<1> HIDE DEF s
<1>2. \A y : y \in ToSet(s) <=> y = x
  BY <1>1, InSeq
<1>3. QED
  BY <1>1, <1>2, SeqIsSeq DEF s

\* The members of a sequence of two tasks
LEMMA TwoTasks ==
  ASSUME NEW x, NEW y
  PROVE  IsSeq(<<x, y>>) /\ ToSet(<<x, y>>) = {x, y}
<1> DEFINE s == <<x, y>>
<1>1. s \in Seq({x, y}) /\ Len(s) = 2 /\ s[1] = x /\ s[2] = y
  OBVIOUS
<1> HIDE DEF s
<1>2. \A z : z \in ToSet(s) <=> z = x \/ z = y
  BY <1>1, InSeq
<1>3. QED
  BY <1>1, <1>2, SeqIsSeq DEF s

\* The members of a sequence of four tasks, as HandOver makes it
LEMMA FourTasks ==
  ASSUME NEW a, NEW b, NEW c, NEW d
  PROVE  IsSeq(<<a, b, c, d>>) /\ ToSet(<<a, b, c, d>>) = {a, b, c, d}
<1> DEFINE s == <<a, b, c, d>>
<1>1. s \in Seq({a, b, c, d}) /\ Len(s) = 4 /\ s[1] = a /\ s[2] = b /\ s[3] = c /\ s[4] = d
  OBVIOUS
<1> HIDE DEF s
<1>2. \A z : z \in ToSet(s) <=> z \in {a, b, c, d}
  BY <1>1, InSeq
<1>3. QED
  BY <1>1, <1>2, SeqIsSeq DEF s

\* An empty sequence has no members.
LEMMA NoTask == IsSeq(<<>>) /\ ToSet(<<>>) = {}
<1> DEFINE s == <<>>
<1>1. s \in Seq({}) /\ Len(s) = 0
  OBVIOUS
<1> HIDE DEF s
<1>2. ASSUME NEW y
      PROVE  y \notin ToSet(s)
  <2>1. y \in ToSet(s) <=> \E i \in 1..Len(s) : s[i] = y
    BY <1>1, InSeq
  <2>2. QED
    BY <1>1, <2>1
<1>3. QED
  BY <1>1, <1>2, SeqIsSeq DEF s

-----------------------------------------------------------------------------
(***************************************************************************)
(* The tasks and the types.  What is left to do is used as a set: that a   *)
(* task is pending, or else what it does was done, needs no order.         *)
(***************************************************************************)
Tasks == ToSet(todo)

\* The tasks of each phase
StepsIn(p) ==
  CASE p = "fsms"      -> {"interface", "accesses", "flood"}
    [] p = "pipelines" -> {"netlist"}
    [] p = "analyze"   -> {"element", "stage", "inputs", "input"}
    [] p = "build"     -> {"element", "stage", "node", "alloc", "after", "used", "operand",
                           "get", "create", "drive", "io", "connect", "makeValid", "sync"}
    [] OTHER           -> {}

\* What the fields of a task refer to
TaskOK(t, A) ==
  /\ t.step = "accesses" => t.nodes \subseteq Node
  /\ t.step \notin {"interface", "accesses", "element", "stage", "sync"} => t.node \in Node
  /\ t.step = "flood" => t.clk \in Int
  /\ t.step \in {"element", "stage"} => t.elm \in DOMAIN A
  /\ t.step = "stage" => t.stage \in DOMAIN A[t.elm].nodes
  /\ t.step \in {"input", "connect", "operand"} => t.user \in Node

\* An FSM or a pipeline; the k-th list of nodes is that of the k-th clk.
ElementType == [fsm : BOOLEAN, clks : Seq(Int), nodes : Seq(Seq(Node))]

\* The tasks are those of the phase.
TodoOK ==
  /\ IsSeq(todo)
  /\ ~ AllocFailed => \A t \in Tasks : t.step \in StepsIn(allocPhase)
  /\ \A t \in Tasks : TaskOK(t, archElements)

\* The types of the allocator
AllocOK ==
  /\ allocPhase # "idle" => phase = "done"
  /\ TodoOK
  /\ archElements \in Seq(ElementType)
  /\ element \in ElementType
  /\ connections \in Seq(Node \X Node)

-----------------------------------------------------------------------------
\* Every node comes to an element.

\* The elements are final.
Split == allocPhase \in {"elements", "analyze", "build", "done"}

\* Every node is in an element, or the loop over the netlist will come to it.
NodesCovered ==
  /\ allocPhase = "pipelines" =>
       \A n \in Node :
         \/ \E e \in DOMAIN archElements : IsOwner(e, n)
         \/ n \in NodesOf(element)
         \/ \E t \in Tasks : t.step = "netlist" /\ t.node = n
  /\ Split => \A n \in Node : \E e \in DOMAIN archElements : IsOwner(e, n)

-----------------------------------------------------------------------------
\* The connections are the values which cross elements.

\* The connections are being collected, or final.
Analyzed == allocPhase \in {"analyze", "build", "done"}

\* What the loops still have to do
OfElement(e) == \E t \in Tasks : t.step = "element" /\ t.elm = e
OfStage(e, s) == \E t \in Tasks : t.step = "stage" /\ t.elm = e /\ t.stage = s
OfNode(step, e, n) == \E t \in Tasks : t.step = step /\ t.elm = e /\ t.node = n
OfInput(step, d, n) == \E t \in Tasks : t.step = step /\ t.node = d /\ t.user = n

\* The value of d comes to the element of m from another one.
Crosses(d, m) == d \in net.dataDeps[m] /\ ~ IsConst(d) /\ Owner(d) # Owner(m)

\* Only values which cross are connections, and only inputs are looked at.
ConnectionsSound ==
  /\ allocPhase \in {"idle", "fsms", "pipelines", "elements"} => connections = <<>>
  /\ Analyzed => \A c \in ToSet(connections) : Crosses(c[1], c[2])
  /\ allocPhase = "analyze" =>
       \A t \in Tasks : t.step = "input" => t.node \in net.dataDeps[t.user]

\* Every value which crosses is a connection, or one of the loops of the analysis
\* still has to come to it.
ConnectionsComplete ==
  /\ allocPhase = "analyze" =>
       \A e \in DOMAIN archElements : \A s \in DOMAIN archElements[e].nodes :
         \A m \in ToSet(archElements[e].nodes[s]) :
           \/ OfElement(e) \/ OfStage(e, s) \/ OfNode("inputs", e, m)
           \/ \A d \in net.dataDeps[m] :
                OfInput("input", d, m) \/ (Crosses(d, m) => <<d, m>> \in ToSet(connections))
  /\ allocPhase \in {"build", "done"} =>
       \A m \in Node : \A d \in net.dataDeps[m] :
         Crosses(d, m) => <<d, m>> \in ToSet(connections)

-----------------------------------------------------------------------------
\* The time a chain of registers starts with never changes.

\* The nodes are being built, or everything is.
Building == allocPhase \in {"build", "done"}

\* Nothing is recorded before "build"; needed for what Declare starts with.
NothingBuilt ==
  ~ Building /\ ~ AllocFailed => uses = {} /\ drives = {} /\ syncAdded = {}

\* The time a chain of registers begins with, by the kind of its value
TirTime(e, d) ==
  IF <<e, d>> \in Crossings THEN FirstUseTime(d, e)
  ELSE IF IsRead(d) THEN scheduledOut[d] ELSE scheduledOut[d] + Eps

\* Chains begin with this time, crossing values have one from the start, writes
\* have none, and a use is one of a chain which is there.
ResourcesOK ==
  Building =>
    /\ Crossings \subseteq DOMAIN netNodeToRtl
    /\ netNodeToRtl = [x \in DOMAIN netNodeToRtl |-> netNodeToRtl[x]]
    /\ \A x \in DOMAIN netNodeToRtl :
         /\ x = <<x[1], x[2]>> /\ x[2] \in Node /\ ~ IsWrite(x[2])
         /\ netNodeToRtl[x]
              = [timeOffset |-> TirTime(x[1], x[2]), len |-> netNodeToRtl[x].len]
    /\ \A u \in uses : <<u.elm, u.value>> \in DOMAIN netNodeToRtl
    /\ \A t \in Tasks : t.step = "create" => net.kind[t.node] = "op"
         /\ <<t.elm, t.node>> \notin Crossings

-----------------------------------------------------------------------------
\* The values which cross elements are handed over.

\* The call of get is left to do.
GetPending(e, d, time, user) ==
  \E t \in Tasks : t.step = "get" /\ t.elm = e /\ t.node = d /\ t.time = time /\ t.user = user

\* The clk in which a value is handed over
HandedAt(o, dst) == start_clk(FirstUseTime(o, dst))

\* The handshake of the value is there or left to do.
Synced(o, dst) ==
  /\ ~ NeedsBuffer(o, dst)
  /\ \/ \E t \in Tasks :
          t.step = "sync" /\ t.clk = HandedAt(o, dst) /\ t.src = Owner(o) /\ t.dst = dst
     \/ <<HandedAt(o, dst), {Owner(o), dst}>> \in syncAdded

\* What is handed over is so in the clk that was declared, with its handshake;
\* a handshake connects stages that exist.
SyncOK ==
  Building =>
    /\ \A s \in syncAdded : \A e \in s[2] : <<e, s[1]>> \in DOMAIN stageSignals
    /\ \A t \in Tasks : t.step = "get" /\ t.user[1] = "element" =>
         /\ t.elm = Owner(t.node)
         /\ t.time = HandedAt(t.node, t.user[2]) * Clk
         /\ <<t.user[2], t.node>> \in Crossings
         /\ Synced(t.node, t.user[2])
    /\ \A u \in uses : u.user[1] = "element" =>
         /\ u.index = HandedAt(u.value, u.user[2]) - start_clk(TirTime(u.elm, u.value))
         /\ Synced(u.value, u.user[2])

\* Every connection is left to do, being handed over, or handed over.
HandedOK ==
  Building =>
    /\ \A t \in Tasks : t.step = "connect" => <<t.node, t.user>> \in ToSet(connections)
    /\ \A c \in ToSet(connections) :
         \/ OfInput("connect", c[1], c[2])
         \/ GetPending(Owner(c[1]), c[1], HandedAt(c[1], Owner(c[2])) * Clk,
                       <<"element", Owner(c[2])>>)
         \/ IsConnected(c[1], Owner(c[2]))

-----------------------------------------------------------------------------
\* The nodes are built and get their operands.

\* The register of d which m needs, in a chain of any length
NodeIndex(e, d, m) == IndexFor([timeOffset |-> TirTime(e, d), len |-> 1], scheduledIn[m])

\* Users ask for the time of the node, and get the register of this time.
UsesOK ==
  Building =>
    /\ \A t \in Tasks : t.step = "io" => net.kind[t.node] = "io"
    /\ \A t \in Tasks : t.step = "get" /\ t.user[1] = "node"
         => t.time = scheduledIn[t.user[2]]
    /\ \A u \in uses : u.user[1] = "node" => u.index = NodeIndex(u.elm, u.value, u.user[2])

\* The node m has its operand d, or it is about to get it.
Served(e, d, m) ==
  \/ IsConst(d)
  \/ GetPending(e, d, scheduledIn[m], <<"node", m>>)
  \/ UsesOf(e, d, <<"node", m>>) # {}

\* An operator which is there, or about to be created, has its operands.
OperatorsServed ==
  Building =>
    \A e \in DOMAIN archElements, m \in Node :
      /\ net.kind[m] = "op" /\ <<e, m>> \notin Crossings
      /\ HasRtl(e, m) \/ OfNode("create", e, m)
      => \A d \in net.dataDeps[m] :
           \/ Served(e, d, m)
           \/ \E t \in Tasks : t.step = "operand" /\ t.elm = e /\ t.node = d /\ t.user = m

\* The node is there with its operands, or the tasks for that are left to do.
Built(e, n) ==
  /\ net.kind[n] = "op" => OfNode("alloc", e, n) \/ OfNode("create", e, n) \/ HasRtl(e, n)
  /\ net.kind[n] = "io" => OfNode("io", e, n) \/ \A d \in net.dataDeps[n] : Served(e, d, n)
  /\ IsWrite(n) => OfNode("alloc", e, n) \/ OfNode("drive", e, n) \/ <<e, n>> \in drives

\* Every node of every element is built, or the loops will come to it.
NodesBuilt ==
  Building =>
    \A e \in DOMAIN archElements : \A s \in DOMAIN archElements[e].nodes :
      \A n \in ToSet(archElements[e].nodes[s]) :
        OfElement(e) \/ OfStage(e, s) \/ OfNode("node", e, n) \/ Built(e, n)

-----------------------------------------------------------------------------
\* An element allocates what its nodes need.

\* An element allocates nothing that its nodes do not need.
AllocatedOK ==
  Building =>
    /\ \A t \in Tasks : t.step \in {"node", "alloc", "operand", "drive"}
         => Allocates(t.elm, t.node)
    /\ \A x \in drives : Allocates(x[1], x[2])

-----------------------------------------------------------------------------
\* What the steps of allocate() leave alone.

\* What all steps of "build" leave alone
StaticVars == <<net, scheduledIn, scheduledOut, archElements, connections>>

\* What is read off the scheduled netlist stays the same with it.
LEMMA StaticNet ==
  ASSUME UNCHANGED <<net, scheduledIn, scheduledOut>>
  PROVE  \A n : /\ IsRead(n)' = IsRead(n) /\ IsWrite(n)' = IsWrite(n)
                /\ IsConst(n)' = IsConst(n)
                /\ OutClk(n)' = OutClk(n) /\ InClk(n)' = InClk(n)
                /\ DataDeps(n)' = DataDeps(n) /\ Deps(n)' = Deps(n)
  BY DEF IsRead, IsWrite, IsConst, OutClk, InClk, DataDeps, Deps, start_clk

\* A node keeps its element while the elements stay as they are.
LEMMA StaticOwner ==
  ASSUME UNCHANGED archElements
  PROVE  /\ \A e, n : IsOwner(e, n)' = IsOwner(e, n)
         /\ \A n : Owner(n)' = Owner(n)
  BY DEF Owner, IsOwner, NodesOf

\* The values which cross elements stay the same.
LEMMA StaticCrossings ==
  ASSUME UNCHANGED StaticVars
  PROVE  Crossings' = Crossings
  BY StaticOwner DEF Crossings, StaticVars

\* The first use of a value in another element is fixed once the connections
\* are: the recorded times are those of the schedule.
LEMMA StaticFirstUse ==
  ASSUME UNCHANGED StaticVars
  PROVE  \A o, dst : FirstUse(o, dst)' = FirstUse(o, dst)
<1> TAKE o, dst
<1> DEFINE K == {k \in ToSet(connections) : k[1] = o /\ Owner(k[2]) = dst}
           T == {scheduledIn[c[2]] : c \in K}
<1>1. K' = K
  BY StaticOwner DEF StaticVars
<1> HIDE DEF K
<1>2. T' = T
  BY <1>1 DEF StaticVars
<1>3. FirstUse(o, dst) = CHOOSE t \in T : IsMin(t, T)
  BY DEF FirstUse, K
<1>4. FirstUse(o, dst)' = CHOOSE t \in T' : IsMin(t, T')
  BY DEF FirstUse, K
<1>5. QED
  BY <1>2, <1>3, <1>4

\* Whether an FSM has a state when its value is needed does not change, nor
\* does the state that comes closest.
LEMMA StaticMissing ==
  ASSUME UNCHANGED StaticVars
  PROVE  /\ \A o, t : MissingState(o, t)' = MissingState(o, t)
         /\ \A o, t : ClosestClkWithState(o, t)' = ClosestClkWithState(o, t)
<1>1. ASSUME NEW o, NEW t
      PROVE  MissingState(o, t)' = MissingState(o, t)
  <2>1. \A e, k : IsState(e, k)' = IsState(e, k)
    BY DEF IsState, StaticVars
  <2>2. Owner(o)' = Owner(o) /\ OutClk(o)' = OutClk(o) /\ archElements' = archElements
    BY StaticOwner, StaticNet DEF StaticVars
  <2>3. QED
    BY <2>1, <2>2 DEF MissingState, start_clk
<1>2. ASSUME NEW o, NEW t
      PROVE  ClosestClkWithState(o, t)' = ClosestClkWithState(o, t)
  <2> DEFINE S == {OutClk(o)} \cup {c \in ToSet(archElements[Owner(o)].clks) :
                                      OutClk(o) <= c /\ c <= start_clk(t)}
  <2>1. Owner(o)' = Owner(o) /\ OutClk(o)' = OutClk(o) /\ archElements' = archElements
    BY StaticOwner, StaticNet DEF StaticVars
  <2>2. S' = S
    BY <2>1 DEF start_clk
  <2>3. ClosestClkWithState(o, t) = Largest(S) /\ ClosestClkWithState(o, t)' = Largest(S')
    BY DEF ClosestClkWithState
  <2> HIDE DEF S
  <2>4. QED
    BY <2>2, <2>3
<1>3. QED
  BY <1>1, <1>2

\* The time and the clk in which a value is handed over do not change.
LEMMA StaticUse ==
  ASSUME UNCHANGED StaticVars
  PROVE  /\ \A o, dst : FirstUseTime(o, dst)' = FirstUseTime(o, dst)
         /\ \A o, dst : NeedsBuffer(o, dst)' = NeedsBuffer(o, dst)
         /\ \A o, dst : HandedAt(o, dst)' = HandedAt(o, dst)
  BY StaticOwner, StaticFirstUse, StaticMissing DEF FirstUseTime, NeedsBuffer, StaticVars,
     HandedAt, start_clk

\* The time with which a chain of registers begins does not change.
LEMMA StaticTirTime ==
  ASSUME UNCHANGED StaticVars
  PROVE  \A e, d : TirTime(e, d)' = TirTime(e, d)
  BY StaticUse, StaticNet, StaticCrossings DEF TirTime, StaticVars

-----------------------------------------------------------------------------
\* A list of tasks, one for each member of another list.

\* A function on the positions of a sequence is a sequence.
LEMMA MappedSeq ==
  ASSUME NEW q, IsSeq(q), NEW r, r = [i \in DOMAIN q |-> r[i]]
  PROVE  /\ IsSeq(r) /\ DOMAIN r = DOMAIN q
         /\ \A x : x \in ToSet(r) <=> \E i \in DOMAIN q : x = r[i]
<1>1. DOMAIN q = 1..Len(q) /\ Len(q) \in Nat
  BY DEF IsSeq
<1>2. r \in [1..Len(q) -> ToSet(r)]
  BY <1>1 DEF ToSet
<1>3. r \in Seq(ToSet(r))
  BY <1>1, <1>2
<1>4. QED
  BY <1>1, <1>3 DEF IsSeq, ToSet

\* The constant Listed gives the members of a set in some order.
LEMMA ListedFacts ==
  ASSUME NEW S \in SUBSET Node
  PROVE  Listed[S] \in Seq(Node) /\ ToSet(Listed[S]) = S /\ IsSeq(Listed[S])
  BY ArchElementsAssumption, SeqIsSeq

\* OnEach has one task for each node of a list.
LEMMA OnEachFacts ==
  ASSUME NEW q, IsSeq(q), NEW step, NEW e
  PROVE  /\ IsSeq(OnEach(q, step, e))
         /\ \A x : x \in ToSet(OnEach(q, step, e)) <=>
                     \E n \in ToSet(q) : x = [step |-> step, elm |-> e, node |-> n]
<1> DEFINE r == OnEach(q, step, e)
<1>1. r = [i \in DOMAIN q |-> r[i]]
      /\ \A i \in DOMAIN q : r[i] = [step |-> step, elm |-> e, node |-> q[i]]
  BY DEF OnEach
<1> HIDE DEF r
<1>2. IsSeq(r) /\ \A x : x \in ToSet(r) <=> \E i \in DOMAIN q : x = r[i]
  BY <1>1, MappedSeq
<1>3. ASSUME NEW x
      PROVE  x \in ToSet(r) <=> \E n \in ToSet(q) : x = [step |-> step, elm |-> e, node |-> n]
  BY <1>1, <1>2 DEF ToSet
<1>4. QED
  BY <1>2, <1>3 DEF r

-----------------------------------------------------------------------------
\* What a step does to the tasks.

\* The task that is taken is the first one, and is of this phase.
LEMMA HeadIs ==
  ASSUME TodoOK, NEW step, NextIs(step)
  PROVE  /\ IsSeq(todo) /\ todo # <<>>
         /\ Head(todo) \in Tasks /\ Head(todo).step = step
         /\ TaskOK(Head(todo), archElements)
         /\ step \in StepsIn(allocPhase) /\ ~ AllocFailed
<1>1. IsSeq(todo) /\ todo # <<>> /\ Head(todo).step = step /\ ~ AllocFailed
  BY DEF TodoOK, NextIs, AllocFailed
<1>2. Head(todo) \in Tasks
  BY <1>1, FirstAndRest DEF Tasks
<1>3. QED
  BY <1>1, <1>2 DEF TodoOK

\* Continue replaces the first task by the given ones.
LEMMA Continued ==
  ASSUME IsSeq(todo), todo # <<>>, NEW tasks, IsSeq(tasks), Continue(tasks)
  PROVE  /\ IsSeq(todo)' /\ allocPhase' = allocPhase
         /\ Tasks' = ToSet(tasks) \cup ToSet(Tail(todo))
         /\ Tasks = {Head(todo)} \cup ToSet(Tail(todo))
<1>1. todo' = tasks \o Tail(todo) /\ allocPhase' = allocPhase
  BY DEF Continue
<1>2. QED
  BY <1>1, FirstAndRest, Joined DEF Tasks

-----------------------------------------------------------------------------
(***************************************************************************)
(* What schedule() hands over.  allocate() does not change it, so that     *)
(* all that is known of the scheduler alone holds for both of them.        *)
(***************************************************************************)
AccessesInstant == \A n \in Node : net.kind[n] = "io" => scheduledIn[n] = scheduledOut[n]

\* What holds of the netlist and of the schedule during allocate()
AllocInput ==
  /\ net \in Netlists
  /\ TypeOK
  /\ AccessesInstant
  /\ phase = "done" => \A n \in Node : scheduledIn[n] \in Nat /\ scheduledOut[n] \in Nat

\* An access takes no time in either of the two schedules.
LEMMA InstantNext == IInv /\ AccessesInstant /\ [Next]_vars => AccessesInstant'
<1> SUFFICES ASSUME IInv, AccessesInstant, [Next]_vars
             PROVE  AccessesInstant'
  OBVIOUS
<1>1. \A n \in Node : net.kind[n] = "io" => net.delay[n] = 0
  BY NetlistFields DEF IInv
<1>2. ASSUME net' = net, NEW n \in Node,
             NEW u \in Int, scheduledIn'[n] = u - net.delay[n], scheduledOut'[n] = u,
             \A m \in Node \ {n} : /\ scheduledIn'[m] = scheduledIn[m]
                                   /\ scheduledOut'[m] = scheduledOut[m]
      PROVE  AccessesInstant'
  BY <1>1, <1>2 DEF AccessesInstant
<1>3. ASSUME NEW n \in Node, ScheduleAsap(n)
      PROVE  AccessesInstant'
  BY <1>2, <1>3, AsapFacts DEF ScheduleAsap
<1>4. ASSUME NEW n \in Node, ScheduleAlapCompaction(n)
      PROVE  AccessesInstant'
  BY <1>2, <1>4, AlapFacts DEF ScheduleAlapCompaction
<1>5. ASSUME NEW c \in Node, ScheduleConst(c)
      PROVE  AccessesInstant'
  <2>1. PICK t \in {scheduledIn[v] : v \in Users(c)} : SetTime(c, t)
    BY <1>5 DEF ScheduleConst
  <2>2. t \in Int
    BY <2>1, NetlistFields DEF IInv, TypeOK
  <2>3. QED
    BY <1>2, <1>5, <2>1, <2>2, SetTimeFacts DEF ScheduleConst
<1>6. ASSUME UNCHANGED <<net, scheduledIn, scheduledOut>>
      PROVE  AccessesInstant'
  BY <1>6 DEF AccessesInstant
<1>7. CASE CheckAsapSchedule
  BY <1>6, <1>7 DEF CheckAsapSchedule, StartAlap, AccessesInstant
<1>8. CASE MoveToFirstClk
  BY <1>6, <1>8 DEF MoveToFirstClk, AccessesInstant
<1>9. ASSUME NEW n \in Node, AsapTimeConstraintError(n) \/ AlapTimeConstraintError(n)
      PROVE  AccessesInstant'
  BY <1>6, <1>9 DEF AsapTimeConstraintError, AlapTimeConstraintError, Raise
<1>10. CASE CycleInGraph \/ AlapScheduled \/ CheckSchedule \/ UNCHANGED vars
  BY <1>6, <1>10 DEF CycleInGraph, Raise, AlapScheduled, CheckSchedule, vars
<1>11. QED
  BY <1>3, <1>4, <1>5, <1>7, <1>8, <1>9, <1>10 DEF Next, NextAsap, NextAlap, Terminated

\* With the allocator left aside, what remains is a behaviour of the scheduler;
\* so the theorems about the scheduler hold of both together.
LEMMA ScheduleAlone == HlsSpec => Spec
<1>1. HlsInit => Init
  BY DEF HlsInit
<1>2. [HlsNext]_hlsVars => [Next]_vars
  BY DEF HlsNext, Next, Scheduling, HlsTerminated, hlsVars
<1>3. QED
  BY <1>1, <1>2, PTL DEF HlsSpec, Spec

\* What the scheduler guarantees is there when allocate() runs.
LEMMA ScheduleHandedOver == HlsSpec => []AllocInput
<1>1. Init => AccessesInstant
  BY DEF Init, AccessesInstant
<1>2. IInv /\ AccessesInstant /\ ScheduleStartsInFirstClk => AllocInput
  BY DEF IInv, AllocInput, ScheduleStartsInFirstClk, Times, TypeOK
<1>3. QED
  BY <1>1, <1>2, InstantNext, InitInv, NextInv, FirstClkIsUsed, ScheduleAlone, PTL DEF Spec

\* The netlist allocate() starts from.
LEMMA NetFacts ==
  ASSUME AllocInput
  PROVE  /\ \A n \in Node : /\ Deps(n) \in SUBSET Node /\ Users(n) \in SUBSET Node
                            /\ net.dataDeps[n] \in SUBSET Node
                            /\ net.dataDeps[n] \subseteq Deps(n)
                            /\ net.kind[n] \in Kind
                            /\ net.kind[n] = "const" => net.dataDeps[n] = {}
                            /\ scheduledIn[n] \in Int /\ scheduledOut[n] \in Int
                            /\ OutClk(n) \in Int /\ InClk(n) \in Int
         /\ \A n \in Node : \A d \in net.dataDeps[n] :
              net.kind[d] # "gate" /\ ~ IsWrite(d)
<1>1. net \in Netlists /\ WellFormed(net) /\ net \in NetlistType
  BY SchedulerAssumption DEF AllocInput, WellFormed
<1>2. ASSUME NEW n \in Node
      PROVE  /\ Deps(n) \in SUBSET Node /\ Users(n) \in SUBSET Node
             /\ net.dataDeps[n] \in SUBSET Node
             /\ net.dataDeps[n] \subseteq Deps(n)
             /\ net.kind[n] \in Kind
             /\ net.kind[n] = "const" => net.dataDeps[n] = {}
  BY <1>1, NetlistFields DEF WellFormed, NetlistType, Deps, DepsOf, OfKind
<1>3. ASSUME NEW n \in Node
      PROVE  scheduledIn[n] \in Int /\ scheduledOut[n] \in Int
  BY DEF AllocInput, TypeOK
<1>4. \A n \in Node : OutClk(n) \in Int /\ InClk(n) \in Int
  BY <1>3, ClkBounds DEF OutClk, InClk
<1>5. ASSUME NEW n \in Node, NEW d \in net.dataDeps[n]
      PROVE  net.kind[d] # "gate" /\ ~ IsWrite(d)
  <2>1. d \in Node /\ n \in UsersOf(net, d)
    BY <1>2, <1>5 DEF UsersOf, Deps
  <2>2. QED
    BY <1>1, <1>5, <2>1, WriteAssumption DEF WellFormed, IsWrite
<1>6. QED
  BY <1>2, <1>3, <1>4, <1>5

-----------------------------------------------------------------------------
\* The elements while they are collected

\* An element nobody has added to has the type of elements.
LEMMA NoElementType == NoElement \in ElementType
    /\ [NoElement EXCEPT !.fsm = FALSE] \in ElementType
<1>1. <<>> \in Seq(Int) /\ <<>> \in Seq(Seq(Node))
  OBVIOUS
<1>2. QED
  BY <1>1 DEF NoElement, ElementType

\* An FSM with one more state is an element.
LEMMA AddStateType ==
  ASSUME NEW fsm \in ElementType, NEW k \in Int
  PROVE  AddState(fsm, k) \in ElementType
<1>1. fsm.clks \in Seq(Int) /\ fsm.nodes \in Seq(Seq(Node))
  BY DEF ElementType
<1>2. Append(fsm.clks, k) \in Seq(Int)
  BY <1>1
<1>3. <<>> \in Seq(Node)
  OBVIOUS
<1>4. Append(fsm.nodes, <<>>) \in Seq(Seq(Node))
  BY <1>1, <1>3
<1>5. QED
  BY <1>2, <1>4 DEF AddState, ElementType

\* An FSM with one more node in its last state is an element.
LEMMA AddToLastType ==
  ASSUME NEW fsm \in ElementType, NEW n \in Node
  PROVE  AddToLast(fsm, n) \in ElementType
<1> DEFINE q == fsm.nodes
           l == Len(q)
<1>1. q \in Seq(Seq(Node)) /\ l \in Nat /\ DOMAIN q = 1..l
  BY DEF ElementType
<1>2. [q EXCEPT ![l] = Append(q[l], n)] \in Seq(Seq(Node))
  <2>1. CASE l \in 1..l
    <3>1. q[l] \in Seq(Node)
      BY <1>1, <2>1
    <3>2. Append(q[l], n) \in Seq(Node)
      BY <3>1
    <3>3. QED
      BY <1>1, <2>1, <3>2
  <2>2. CASE l \notin 1..l
    <3>1. [q EXCEPT ![l] = Append(q[l], n)] = q
      BY <1>1, <2>2
    <3>2. QED
      BY <1>1, <3>1
  <2>3. QED
    BY <2>1, <2>2
<1>3. AddToLast(fsm, n) = [fsm EXCEPT !.nodes = [q EXCEPT ![l] = Append(q[l], n)]]
  BY <1>1 DEF AddToLast, ElementType
<1> HIDE DEF q, l
<1>4. QED
  BY <1>2, <1>3 DEF ElementType

\* A pipeline gets a node in the stage of its clk and loses none.
LEMMA AddToStageType ==
  ASSUME NEW pipeline \in ElementType, NEW k \in Nat, NEW n \in Node
  PROVE  /\ AddToStage(pipeline, k, n) \in ElementType
         /\ NodesOf(pipeline) \cup {n} \subseteq NodesOf(AddToStage(pipeline, k, n))
<1> DEFINE q == pipeline.nodes
           l == IF k < Len(q) THEN Len(q) ELSE k + 1
           old(s) == IF s \in DOMAIN q THEN q[s] ELSE <<>>
           r == [s \in 1..l |-> IF s = k + 1 THEN Append(old(s), n) ELSE old(s)]
           c == [s \in 1..l |-> s - 1]
<1>1. q \in Seq(Seq(Node)) /\ Len(q) \in Nat /\ DOMAIN q = 1..Len(q)
  BY DEF ElementType
<1>2. l \in Nat /\ k + 1 \in 1..l /\ DOMAIN q \subseteq 1..l
  BY <1>1
<1>3. \A s : old(s) \in Seq(Node)
  <2>1. <<>> \in Seq(Node)
    OBVIOUS
  <2>2. QED
    BY <1>1, <2>1
<1>4. AddToStage(pipeline, k, n) = [fsm |-> FALSE, clks |-> c, nodes |-> r]
  BY DEF AddToStage
<1> HIDE DEF l, old
<1>5. \A s \in 1..l : r[s] \in Seq(Node) /\ ToSet(old(s)) \subseteq ToSet(r[s])
  <2>1. \A s : Append(old(s), n) \in Seq(Node) /\ ToSet(Append(old(s), n)) = ToSet(old(s))
        \cup {n}
    BY <1>3, AddedToSeq
  <2>2. QED
    BY <1>3, <2>1
<1>6. r[k + 1] = Append(old(k + 1), n) /\ n \in ToSet(r[k + 1])
  <2>1. n \in ToSet(Append(old(k + 1), n))
    BY <1>3, AddedToSeq
  <2>2. QED
    BY <1>2, <2>1
<1>7. c \in Seq(Int) /\ r \in Seq(Seq(Node)) /\ DOMAIN r = 1..l
  BY <1>2, <1>5
<1> HIDE DEF r, c
<1>8. NodesOf(AddToStage(pipeline, k, n)) = UNION {ToSet(r[s]) : s \in 1..l}
  BY <1>4, <1>7 DEF NodesOf
<1>9. \A s \in DOMAIN q : ToSet(q[s]) \subseteq ToSet(r[s]) /\ s \in 1..l
  BY <1>2, <1>5 DEF old
<1>10. NodesOf(pipeline) \cup {n} \subseteq UNION {ToSet(r[s]) : s \in 1..l}
  BY <1>2, <1>6, <1>9 DEF NodesOf
<1>11. AddToStage(pipeline, k, n) \in ElementType
  BY <1>4, <1>7 DEF ElementType
<1>12. QED
  BY <1>8, <1>10, <1>11

\* The earliest of some accesses is one of them.
LEMMA FirstOfNode ==
  ASSUME AllocInput, phase = "done", NEW accesses \in SUBSET Node, accesses # {}
  PROVE  FirstOf(accesses) \in accesses
<1> DEFINE S == {a \in accesses : \A b \in accesses : scheduledOut[a] <= scheduledOut[b]}
           T == {scheduledOut[a] : a \in accesses}
<1>1. T \in SUBSET Nat /\ T # {}
  BY DEF AllocInput
<1> HIDE DEF T
<1>2. PICK t \in T : \A u \in T : t <= u
  BY <1>1, LeastNat
<1>3. PICK a \in accesses : t = scheduledOut[a]
  BY <1>2 DEF T
<1>4. \A b \in accesses : scheduledOut[b] \in T
  BY DEF T
<1>5. a \in S
  BY <1>2, <1>3, <1>4
<1>6. S \in SUBSET Node /\ FirstOf(accesses) = Head(Listed[S])
  BY DEF FirstOf
<1> HIDE DEF S
<1>7. Listed[S] # <<>> /\ IsSeq(Listed[S]) /\ ToSet(Listed[S]) = S
  BY <1>5, <1>6, ListedFacts, NoTask
<1>8. Head(Listed[S]) \in S
  BY <1>7, FirstAndRest
<1>9. QED
  BY <1>6, <1>8 DEF S

\* The clk of a time that is not negative is not negative, so it is the index
\* of a stage.
LEMMA ClkOfNat ==
  ASSUME NEW t \in Nat
  PROVE  start_clk(t) \in Nat
  BY SchedulerAssumption, SMTT(30) DEF start_clk

-----------------------------------------------------------------------------
\* The types hold.

\* The stages of an element are lists of its nodes.
LEMMA ElementFacts ==
  ASSUME archElements \in Seq(ElementType), NEW e \in DOMAIN archElements
  PROVE  /\ archElements[e].clks \in Seq(Int)
         /\ archElements[e].nodes \in Seq(Seq(Node))
         /\ \A s \in DOMAIN archElements[e].nodes :
              /\ archElements[e].nodes[s] \in Seq(Node) /\ IsSeq(archElements[e].nodes[s])
              /\ ToSet(archElements[e].nodes[s]) \subseteq Node
              /\ ToSet(archElements[e].nodes[s]) \subseteq NodesOf(archElements[e])
<1> DEFINE r == archElements[e]
           q == r.nodes
<1>1. r \in ElementType
  OBVIOUS
<1> HIDE DEF r
<1>2. r.clks \in Seq(Int) /\ q \in Seq(Seq(Node))
  BY <1>1 DEF ElementType
<1>3. \A s \in DOMAIN q : ToSet(q[s]) \subseteq NodesOf(r)
  BY DEF NodesOf
<1> HIDE DEF q
<1>4. \A s \in DOMAIN q : q[s] \in Seq(Node)
  BY <1>2
<1>5. \A s \in DOMAIN q : IsSeq(q[s]) /\ ToSet(q[s]) \subseteq Node
  BY <1>4, SeqIsSeq
<1>6. QED
  BY <1>2, <1>3, <1>4, <1>5 DEF r, q

\* Tasks that fit the phase may take the place of the first one.
LEMMA TodoContinued ==
  ASSUME TodoOK, todo # <<>>, NEW tasks, IsSeq(tasks), Continue(tasks),
         archElements' = archElements,
         \A t \in ToSet(tasks) : t.step \in StepsIn(allocPhase) /\ TaskOK(t, archElements)
  PROVE  TodoOK'
<1>1. IsSeq(todo)
  BY DEF TodoOK
<1>2. /\ IsSeq(todo)' /\ allocPhase' = allocPhase
      /\ \A t \in Tasks' : t \in ToSet(tasks) \/ t \in Tasks
  BY <1>1, Continued
<1>3. QED
  BY <1>2 DEF TodoOK, AllocFailed

\* An exception leaves the tasks as they are.
LEMMA TodoFailed ==
  ASSUME TodoOK, NEW error \in {"AssertionError", "IndexError", "NotImplementedError"},
         Fail(error), archElements' = archElements
  PROVE  TodoOK'
  BY DEF TodoOK, Fail, AllocFailed, Tasks, IsSeq

\* TodoContinued, for a task that is done.
LEMMA NoneContinued ==
  ASSUME TodoOK, todo # <<>>, Continue(<<>>), archElements' = archElements
  PROVE  TodoOK'
  BY TodoContinued, NoTask

\* TodoContinued, for one new task.
LEMMA OneContinued ==
  ASSUME TodoOK, todo # <<>>, NEW x, Continue(<<x>>), archElements' = archElements,
         x.step \in StepsIn(allocPhase), TaskOK(x, archElements)
  PROVE  TodoOK'
  BY TodoContinued, OneTask

\* The tasks of OnEach fit the phase.
LEMMA OnEachContinued ==
  ASSUME TodoOK, todo # <<>>, NEW q, IsSeq(q), NEW step, NEW e,
         ToSet(q) \subseteq Node, step \in StepsIn(allocPhase),
         step \in {"inputs", "node", "alloc", "after", "used", "create", "drive", "io"}
  PROVE  IsSeq(OnEach(q, step, e))
         /\ \A t \in ToSet(OnEach(q, step, e)) : t.step \in StepsIn(allocPhase)
              /\ TaskOK(t, archElements)
<1>1. ASSUME NEW n \in Node, NEW t, t = [step |-> step, elm |-> e, node |-> n]
      PROVE  t.step \in StepsIn(allocPhase) /\ TaskOK(t, archElements)
  <2>1. t.step = step /\ t.node = n
    BY <1>1
  <2>2. QED
    BY <1>1, <2>1 DEF TaskOK
<1>2. QED
  BY <1>1, OnEachFacts

\* The split of the netlist into elements keeps the types.
LEMMA ElementsTyped ==
  ASSUME AllocInput, AllocOK, NextElements, UNCHANGED <<vars, connections>>
  PROVE  AllocOK'
<1>1. ASSUME allocPhase # "idle", TodoOK', archElements' \in Seq(ElementType),
             element' \in ElementType
      PROVE  AllocOK'
  BY <1>1 DEF AllocOK, vars
<1> USE DEF AllocOK
<1>2. CASE Discover
  <2>1. todo' = [i \in DOMAIN IntfByName |-> [step |-> "interface", intf |-> IntfByName[i]]]
    BY <1>2 DEF Discover
  <2>2. todo' = [i \in DOMAIN IntfByName |-> todo'[i]]
        /\ \A i \in DOMAIN IntfByName : todo'[i].step = "interface"
    BY <2>1
  <2>3. IsSeq(IntfByName)
    BY ArchElementsAssumption, SeqIsSeq
  <2>4. IsSeq(todo') /\ \A t \in ToSet(todo') : t.step = "interface"
    BY <2>2, <2>3, MappedSeq
  <2>5. allocPhase' = "fsms" /\ phase' = "done" /\ UNCHANGED elementVars
    BY <1>2 DEF Discover, vars
  <2>6. TodoOK'
    BY <2>4, <2>5 DEF TodoOK, Tasks, StepsIn, TaskOK, AllocFailed
  <2>7. QED
    BY <2>5, <2>6 DEF elementVars
<1>3. CASE DiscoverFsm
  <2>1. todo # <<>> /\ allocPhase = "fsms"
    BY <1>3, HeadIs DEF DiscoverFsm, NextIs, StepsIn
  <2>2. ASSUME NEW S \in SUBSET Node
        PROVE  [step |-> "accesses", nodes |-> S].step \in StepsIn(allocPhase)
               /\ TaskOK([step |-> "accesses", nodes |-> S], archElements)
    BY <2>1 DEF StepsIn, TaskOK
  <2>3. \A i : io_by_interface(i) \in SUBSET Node
    BY DEF io_by_interface, OfKind
  <2>4. TodoOK'
    BY <1>3, <2>1, <2>2, <2>3, NoneContinued, OneContinued DEF DiscoverFsm
  <2>5. QED
    BY <1>1, <1>3, <2>1, <2>4, NoElementType DEF DiscoverFsm
<1>4. CASE DiscoverState
  <2> DEFINE S == Head(todo).nodes
             a == FirstOf(S)
             f == [step |-> "flood", node |-> a, clk |-> OutClk(a)]
             r == [step |-> "accesses", nodes |-> S \ {a}]
  <2>1. todo # <<>> /\ allocPhase = "fsms" /\ S \subseteq Node /\ S # {} /\ phase = "done"
    BY <1>4, HeadIs DEF DiscoverState, NextIs, StepsIn, TaskOK
  <2>2. a \in Node /\ OutClk(a) \in Int
    BY <2>1, FirstOfNode, NetFacts
  <2> HIDE DEF S
  <2>3. f.step \in StepsIn(allocPhase) /\ TaskOK(f, archElements)
    BY <2>1, <2>2 DEF StepsIn, TaskOK
  <2>4. r.step \in StepsIn(allocPhase) /\ TaskOK(r, archElements)
    BY <2>1 DEF StepsIn, TaskOK
  <2>5. element' = AddState(element, OutClk(a)) /\ Continue(<<f, r>>)
        /\ archElements' = archElements
    BY <1>4 DEF DiscoverState, S
  <2>6. element' \in ElementType
    BY <2>2, <2>5, AddStateType
  <2> HIDE DEF f, r
  <2>7. IsSeq(<<f, r>>) /\ ToSet(<<f, r>>) = {f, r}
    BY TwoTasks
  <2>8. TodoOK'
    BY <2>1, <2>3, <2>4, <2>5, <2>7, TodoContinued
  <2>9. QED
    BY <1>1, <2>1, <2>5, <2>6, <2>8
<1>5. CASE FloodNetInSameCycle
  <2> DEFINE n == Head(todo).node
             k == Head(todo).clk
             tied == TiedWith(n, k)
             tasks == [i \in DOMAIN tied |-> [step |-> "flood", node |-> tied[i], clk |-> k]]
  <2>1. todo # <<>> /\ allocPhase = "fsms" /\ n \in Node /\ k \in Int
    BY <1>5, HeadIs DEF FloodNetInSameCycle, NextIs, StepsIn, TaskOK
  <2>2. IsSeq(tied) /\ ToSet(tied) \subseteq Node
    <3>1. /\ {d \in Deps(n) : OutClk(d) = k /\ ExcludeOtherIoWithOwnFsm(d)} \in SUBSET Node
          /\ {u \in Users(n) : InClk(u) = k /\ ExcludeOtherIoWithOwnFsm(u)} \in SUBSET Node
      BY <2>1, NetFacts
    <3>2. QED
      BY <3>1, ListedFacts, Joined DEF TiedWith
  <2> HIDE DEF n, k, tied
  <2>3. tasks = [i \in DOMAIN tied |-> tasks[i]]
        /\ \A i \in DOMAIN tied : tasks[i] = [step |-> "flood", node |-> tied[i], clk |-> k]
    OBVIOUS
  <2> HIDE DEF tasks
  <2>4. IsSeq(tasks) /\ \A t \in ToSet(tasks) : \E m \in Node :
        t = [step |-> "flood", node |-> m, clk |-> k]
    BY <2>2, <2>3, MappedSeq DEF ToSet
  <2>5. \A t \in ToSet(tasks) : t.step = "flood" /\ t.node \in Node /\ t.clk \in Int
    BY <2>1, <2>4
  <2>6. \A t \in ToSet(tasks) : t.step \in StepsIn(allocPhase) /\ TaskOK(t, archElements)
    BY <2>1, <2>5 DEF StepsIn, TaskOK
  <2>7. CASE Continue(<<>>) /\ UNCHANGED element
    BY <1>1, <1>5, <2>1, <2>7, NoneContinued DEF FloodNetInSameCycle
  <2>8. CASE Continue(tasks) /\ element' = AddToLast(element, n)
    BY <1>1, <1>5, <2>1, <2>4, <2>6, <2>8, TodoContinued, AddToLastType
       DEF FloodNetInSameCycle
  <2>9. QED
    BY <1>5, <2>7, <2>8 DEF FloodNetInSameCycle, n, k, tied, tasks
<1>6. CASE FsmDiscovered
  <2>1. todo # <<>> /\ allocPhase = "fsms" /\ IsSeq(todo)
    BY <1>6, HeadIs DEF FsmDiscovered, NextIs, StepsIn
  <2>2. archElements' \in Seq(ElementType) /\ element' \in ElementType
    BY <1>6 DEF FsmDiscovered
  <2>3. IsSeq(todo)' /\ allocPhase' = allocPhase /\ \A t \in Tasks' : t \in Tasks
    BY <1>6, <2>1, Continued, NoTask DEF FsmDiscovered
  <2>4. \A t \in Tasks' : t.step \in StepsIn("fsms")
    BY <2>1, <2>3 DEF TodoOK, AllocFailed
  <2>5. \A t \in Tasks' : TaskOK(t, archElements')
    BY <2>1, <2>3, <2>4 DEF TodoOK, TaskOK, StepsIn
  <2>6. TodoOK'
    BY <2>1, <2>3, <2>4, <2>5 DEF TodoOK
  <2>7. QED
    BY <1>1, <2>1, <2>2, <2>6
<1>7. CASE FsmsDiscovered
  <2> DEFINE q == iterAllNodes
  <2>1. IsSeq(q) /\ ToSet(q) \subseteq Node
    BY ListedFacts, Joined DEF iterAllNodes
  <2> HIDE DEF q
  <2>2. todo' = [i \in DOMAIN q |-> [step |-> "netlist", node |-> q[i]]]
        /\ allocPhase = "fsms" /\ allocPhase' = "pipelines"
        /\ element' = [NoElement EXCEPT !.fsm = FALSE] /\ archElements' = archElements
    BY <1>7 DEF FsmsDiscovered, q
  <2>3. todo' = [i \in DOMAIN q |-> todo'[i]]
        /\ \A i \in DOMAIN q : todo'[i] = [step |-> "netlist", node |-> q[i]]
    BY <2>2
  <2>4. IsSeq(todo') /\ \A t \in ToSet(todo') : t.step = "netlist" /\ t.node \in Node
    BY <2>1, <2>3, MappedSeq DEF ToSet
  <2>5. TodoOK'
    BY <2>2, <2>4 DEF TodoOK, Tasks, StepsIn, TaskOK, AllocFailed
  <2>6. QED
    BY <1>1, <2>2, <2>5, NoElementType
<1>8. CASE AddNodeToPipeline
  <2> DEFINE n == Head(todo).node
  <2>1. todo # <<>> /\ allocPhase = "pipelines" /\ n \in Node /\ phase = "done"
    BY <1>8, HeadIs DEF AddNodeToPipeline, NextIs, StepsIn, TaskOK
  <2>2. InClk(n) \in Nat
    BY <2>1, ClkOfNat DEF AllocInput, InClk
  <2>3. archElements' = archElements /\ TodoOK'
    BY <1>8, <2>1, NoneContinued, TodoFailed DEF AddNodeToPipeline
  <2>4. element' = element \/ element' = AddToStage(element, InClk(n), n)
    BY <1>8 DEF AddNodeToPipeline
  <2>5. element' \in ElementType
    BY <2>1, <2>2, <2>4, AddToStageType
  <2>6. QED
    BY <1>1, <2>1, <2>3, <2>5
<1>9. CASE PipelineDiscovered
  <2>1. /\ allocPhase = "pipelines" /\ todo = <<>> /\ todo' = <<>> /\ allocPhase' = "elements"
        /\ archElements' \in Seq(ElementType) /\ element' = element
    BY <1>9 DEF PipelineDiscovered
  <2>2. TodoOK'
    BY <2>1, NoTask DEF TodoOK, Tasks
  <2>3. QED
    BY <1>1, <2>1, <2>2
<1>10. CASE LoopOverStages
  <2> DEFINE e == Head(todo).elm
             q == archElements[e].nodes
             tasks == [s \in DOMAIN q |-> [step |-> "stage", elm |-> e, stage |-> s]]
  <2>1. /\ todo # <<>> /\ allocPhase \in {"analyze", "build"} /\ e \in DOMAIN archElements
        /\ Continue(tasks) /\ UNCHANGED elementVars
    BY <1>10, HeadIs DEF LoopOverStages, NextIs, StepsIn, TaskOK
  <2>2. IsSeq(q) /\ q = archElements[e].nodes
    BY <2>1, ElementFacts, SeqIsSeq
  <2> HIDE DEF e, q
  <2>3. tasks = [s \in DOMAIN q |-> tasks[s]]
        /\ \A s \in DOMAIN q : tasks[s] = [step |-> "stage", elm |-> e, stage |-> s]
    OBVIOUS
  <2> HIDE DEF tasks
  <2>9. IsSeq(q)
    BY <2>2
  <2>10. IsSeq(tasks) /\ \A t : t \in ToSet(tasks) <=> \E s \in DOMAIN q : t = tasks[s]
    BY <2>3, <2>9, MappedSeq
  <2>4. \A t \in ToSet(tasks) : \E s \in DOMAIN q :
        t = [step |-> "stage", elm |-> e, stage |-> s]
    BY <2>3, <2>10
  <2>8. \A t \in ToSet(tasks) : t.step = "stage" /\ t.elm = e
        /\ t.stage \in DOMAIN archElements[e].nodes
    BY <2>2, <2>4
  <2>5. \A t \in ToSet(tasks) : t.step \in StepsIn(allocPhase) /\ TaskOK(t, archElements)
    BY <2>1, <2>8 DEF StepsIn, TaskOK, e
  <2>6. TodoOK'
    BY <2>1, <2>5, <2>10, TodoContinued DEF elementVars
  <2>7. QED
    BY <1>1, <2>1, <2>6 DEF elementVars
<1>11. CASE LoopOverNodes
  <2> DEFINE e == Head(todo).elm
             q == archElements[e].nodes[Head(todo).stage]
             step == IF allocPhase = "analyze" THEN "inputs" ELSE "node"
  <2>1. /\ todo # <<>> /\ allocPhase \in {"analyze", "build"} /\ e \in DOMAIN archElements
        /\ Head(todo).stage \in DOMAIN archElements[e].nodes
        /\ Continue(OnEach(q, step, e)) /\ UNCHANGED elementVars
    BY <1>11, HeadIs DEF LoopOverNodes, NextIs, StepsIn, TaskOK, OnEach
  <2>3. IsSeq(q) /\ ToSet(q) \subseteq Node
    BY <2>1, ElementFacts
  <2>4. step \in StepsIn(allocPhase)
    BY <2>1 DEF StepsIn
  <2> HIDE DEF e, q
  <2>5. IsSeq(OnEach(q, step, e))
        /\ \A t \in ToSet(OnEach(q, step, e)) : t.step \in StepsIn(allocPhase)
             /\ TaskOK(t, archElements)
    BY <2>1, <2>3, <2>4, OnEachContinued
  <2>6. TodoOK'
    BY <2>1, <2>5, TodoContinued DEF elementVars
  <2>7. QED
    BY <1>1, <2>1, <2>6 DEF elementVars
<1>12. QED
  BY <1>2, <1>3, <1>4, <1>5, <1>6, <1>7, <1>8, <1>9, <1>10, <1>11 DEF NextElements

-----------------------------------------------------------------------------
\* The lists of tasks the steps produce.

\* The tasks of CheckInputs
InputTasks(m) ==
  [i \in DOMAIN DataDeps(m) |-> [step |-> "input", node |-> DataDeps(m)[i], user |-> m]]

\* CheckInputs has a task for each input of the node.
LEMMA InputTasksFacts ==
  ASSUME NEW m, net.dataDeps[m] \in SUBSET Node
  PROVE  /\ IsSeq(InputTasks(m))
         /\ \A t : t \in ToSet(InputTasks(m)) <=>
                     \E d \in net.dataDeps[m] : t = [step |-> "input", node |-> d, user |-> m]
<1> DEFINE q == DataDeps(m)
           r == InputTasks(m)
<1>1. IsSeq(q) /\ ToSet(q) = net.dataDeps[m]
  BY ListedFacts DEF DataDeps
<1>2. r = [i \in DOMAIN q |-> r[i]]
      /\ \A i \in DOMAIN q : r[i] = [step |-> "input", node |-> q[i], user |-> m]
  BY DEF InputTasks
<1> HIDE DEF q, r
<1>3. IsSeq(r) /\ \A t : t \in ToSet(r) <=> \E i \in DOMAIN q : t = r[i]
  BY <1>1, <1>2, MappedSeq
<1>4. ASSUME NEW t
      PROVE  t \in ToSet(r) <=> \E d \in ToSet(q) :
               t = [step |-> "input", node |-> d, user |-> m]
  BY <1>2, <1>3 DEF ToSet
<1>5. QED
  BY <1>1, <1>3, <1>4 DEF r

\* Operands has a task for each operand of the node.
LEMMA OperandsFacts ==
  ASSUME NEW e, NEW n, net.dataDeps[n] \in SUBSET Node
  PROVE  /\ IsSeq(Operands(e, n))
         /\ \A t : t \in ToSet(Operands(e, n)) <=>
                     \E d \in net.dataDeps[n] :
                         t = [step |-> "operand", elm |-> e, node |-> d, user |-> n]
<1> DEFINE q == DataDeps(n)
           r == Operands(e, n)
<1>1. IsSeq(q) /\ ToSet(q) = net.dataDeps[n]
  BY ListedFacts DEF DataDeps
<1>2. r = [i \in DOMAIN q |-> r[i]]
      /\ \A i \in DOMAIN q : r[i] = [step |-> "operand", elm |-> e, node |-> q[i], user |-> n]
  BY DEF Operands
<1> HIDE DEF q, r
<1>3. IsSeq(r) /\ \A t : t \in ToSet(r) <=> \E i \in DOMAIN q : t = r[i]
  BY <1>1, <1>2, MappedSeq
<1>4. ASSUME NEW t
      PROVE  t \in ToSet(r) <=> \E d \in ToSet(q) :
               t = [step |-> "operand", elm |-> e, node |-> d, user |-> n]
  BY <1>2, <1>3 DEF ToSet
<1>5. QED
  BY <1>1, <1>3, <1>4 DEF r

\* A list of calls of get has one for each of the values.
LEMMA GetsFacts ==
  ASSUME NEW q, IsSeq(q), NEW e, NEW time, NEW user
  PROVE  LET r == [i \in DOMAIN q |-> GetCall(e, q[i], time, user)]
         IN  /\ IsSeq(r)
             /\ \A t : t \in ToSet(r) <=> \E d \in ToSet(q) : t = GetCall(e, d, time, user)
<1> DEFINE r == [i \in DOMAIN q |-> GetCall(e, q[i], time, user)]
<1>1. r = [i \in DOMAIN q |-> r[i]] /\ \A i \in DOMAIN q : r[i] = GetCall(e, q[i], time, user)
  OBVIOUS
<1> HIDE DEF r
<1>2. IsSeq(r) /\ \A t : t \in ToSet(r) <=> \E i \in DOMAIN q : t = r[i]
  BY <1>1, MappedSeq
<1>3. ASSUME NEW t
      PROVE  t \in ToSet(r) <=> \E d \in ToSet(q) : t = GetCall(e, d, time, user)
  BY <1>1, <1>2 DEF ToSet
<1>4. QED
  BY <1>2, <1>3 DEF r

\* A call of get is a task of "build".
LEMMA GetTask ==
  ASSUME NEW e, NEW d \in Node, NEW time, NEW user, allocPhase = "build"
  PROVE  LET t == GetCall(e, d, time, user)
         IN  t.step \in StepsIn(allocPhase) /\ TaskOK(t, archElements)
  BY DEF GetCall, StepsIn, TaskOK

\* OfElements has a task for each element.
LEMMA OfElementsFacts ==
  ASSUME archElements \in Seq(ElementType)
  PROVE  /\ IsSeq(OfElements)
         /\ \A t : t \in ToSet(OfElements) <=> \E e \in DOMAIN archElements :
              t = [step |-> "element", elm |-> e]
         /\ \A t \in ToSet(OfElements) : t.step = "element" /\ TaskOK(t, archElements)
<1> DEFINE q == archElements
           r == OfElements
<1>1. IsSeq(q)
  BY SeqIsSeq
<1>2. r = [i \in DOMAIN q |-> r[i]]
      /\ \A i \in DOMAIN q : r[i] = [step |-> "element", elm |-> i]
  BY DEF OfElements
<1> HIDE DEF r
<1>3. IsSeq(r) /\ \A t : t \in ToSet(r) <=> \E i \in DOMAIN q : t = r[i]
  BY <1>1, <1>2, MappedSeq
<1>4. \A t : t \in ToSet(r) <=> \E i \in DOMAIN q : t = [step |-> "element", elm |-> i]
  BY <1>2, <1>3
<1>5. \A t \in ToSet(r) : t.step = "element" /\ t.elm \in DOMAIN q
  BY <1>4
<1>6. \A t \in ToSet(r) : TaskOK(t, archElements)
  BY <1>5 DEF TaskOK
<1>7. QED
  BY <1>3, <1>4, <1>5, <1>6 DEF r

\* ConnectionCalls has a task for each connection.
LEMMA ConnectionCallsFacts ==
  ASSUME connections \in Seq(Node \X Node)
  PROVE  /\ IsSeq(ConnectionCalls)
         /\ \A t : t \in ToSet(ConnectionCalls) <=>
                     \E c \in ToSet(connections) :
                         t = [step |-> "connect", node |-> c[1], user |-> c[2]]
         /\ \A t \in ToSet(ConnectionCalls) : t.step = "connect" /\ TaskOK(t, archElements)
<1> DEFINE q == connections
           r == ConnectionCalls
<1>1. IsSeq(q) /\ ToSet(q) \subseteq Node \X Node
  BY SeqIsSeq
<1>2. r = [i \in DOMAIN q |-> r[i]]
      /\ \A i \in DOMAIN q : r[i] = [step |-> "connect", node |-> q[i][1], user |-> q[i][2]]
  BY DEF ConnectionCalls
<1> HIDE DEF r
<1>3. IsSeq(r) /\ \A t : t \in ToSet(r) <=> \E i \in DOMAIN q : t = r[i]
  BY <1>1, <1>2, MappedSeq
<1>4. ASSUME NEW t
      PROVE  t \in ToSet(r) <=> \E c \in ToSet(q) :
               t = [step |-> "connect", node |-> c[1], user |-> c[2]]
  BY <1>2, <1>3 DEF ToSet
<1>5. \A c \in ToSet(q) : c[1] \in Node /\ c[2] \in Node
  BY <1>1
<1>6. \A t \in ToSet(r) : t.step = "connect" /\ t.node \in Node /\ t.user \in Node
  BY <1>4, <1>5
<1>7. \A t \in ToSet(r) : TaskOK(t, archElements)
  BY <1>6 DEF TaskOK
<1>8. QED
  BY <1>3, <1>4, <1>6, <1>7 DEF r

\* HandOver consists of these four calls.
LEMMA HandOverFacts ==
  ASSUME NEW o, NEW dst
  PROVE  /\ IsSeq(HandOver(o, dst))
         /\ ToSet(HandOver(o, dst)) =
              { [step |-> "makeValid", elm |-> Owner(o), node |-> o,
                 endTime |-> UseTime(o, dst)],
                GetCall(Owner(o), o, start_clk(UseTime(o, dst)) * Clk, <<"element", dst>>),
                [step |-> "used", elm |-> Owner(o), node |-> o],
                [step |-> "sync", clk |-> start_clk(UseTime(o, dst)), src |-> Owner(o),
                 dst |-> dst] }
  BY FourTasks DEF HandOver

\* The calls of HandOver are tasks of "build".
LEMMA HandOverTyped ==
  ASSUME NEW o \in Node, NEW dst
  PROVE  IsSeq(HandOver(o, dst)) /\ \A t \in ToSet(HandOver(o, dst)) :
           t.step \in StepsIn("build") /\ TaskOK(t, archElements)
<1>1. \A t \in ToSet(HandOver(o, dst)) :
         t.step \in {"makeValid", "get", "used", "sync"}
             /\ (t.step # "sync" => t.node \in Node)
  BY HandOverFacts DEF GetCall
<1>2. QED
  BY <1>1, HandOverFacts DEF StepsIn, TaskOK

\* allocate() starts when the scheduler has nothing left to do.
LEMMA ScheduleNotDone == NextAsap \/ NextAlap => phase # "done"
  BY DEF NextAsap, NextAlap, AsapTimeConstraintError, ScheduleAsap, AsapReady, CycleInGraph,
     CheckAsapSchedule, AlapTimeConstraintError, ScheduleAlapCompaction, AlapReady,
     ScheduleConst, AlapScheduled, MoveToFirstClk, CheckSchedule

\* Building the nodes of an element keeps the types.
LEMMA DatapathTyped ==
  ASSUME AllocInput, AllocOK, NextDatapath, UNCHANGED <<vars, elementVars, connections>>
  PROVE  AllocOK'
<1>1. ASSUME allocPhase # "idle", TodoOK'
      PROVE  AllocOK'
  BY <1>1 DEF AllocOK, vars, elementVars
<1>2. archElements' = archElements /\ TodoOK
  BY DEF AllocOK, elementVars
<1>3. ASSUME NEW step, NextIs(step),
             step \notin {"element", "stage", "interface", "accesses", "flood", "netlist",
                          "inputs", "input"}
      PROVE  /\ todo # <<>> /\ allocPhase = "build"
             /\ step # "sync" => Head(todo).node \in Node
             /\ step = "operand" => Head(todo).user \in Node
  BY <1>2, <1>3, HeadIs DEF NextIs, StepsIn, TaskOK
<1>4. ASSUME NEW q, IsSeq(q), ToSet(q) \subseteq Node, NEW e, allocPhase = "build",
             todo # <<>>,
             NEW step \in {"alloc", "after", "used", "create", "drive", "io"}
      PROVE  /\ IsSeq(OnEach(q, step, e))
             /\ \A t \in ToSet(OnEach(q, step, e)) : t.step \in StepsIn(allocPhase)
                  /\ TaskOK(t, archElements)
  <2>1. step \in StepsIn(allocPhase)
    BY <1>4 DEF StepsIn
  <2>2. QED
    BY <1>2, <1>4, <2>1, OnEachContinued
<1>5. \A n \in Node : IsSeq(DataDeps(n)) /\ ToSet(DataDeps(n)) \subseteq Node
      /\ DataDeps(n) \in Seq(Node)
  BY NetFacts, ListedFacts DEF DataDeps
<1>6. ASSUME NEW n \in Node
      PROVE  IsSeq(<<n>>) /\ ToSet(<<n>>) \subseteq Node
  <2>1. IsSeq(<<n>>) /\ ToSet(<<n>>) = {n}
    BY OneTask
  <2>2. QED
    BY <2>1
<1>7. CASE Get
  BY <1>1, <1>2, <1>3, <1>7, NoneContinued, TodoFailed DEF Get
<1>8. ASSUME NEW d, NEW S, NEW tasks, Register(d, S, tasks), todo # <<>>, IsSeq(tasks),
             \A t \in ToSet(tasks) : t.step \in StepsIn(allocPhase) /\ TaskOK(t, archElements)
      PROVE  TodoOK'
  BY <1>2, <1>8, TodoContinued, TodoFailed DEF Register
<1>9. CASE AfterOutputUsed
  <2>1. todo # <<>> /\ allocPhase = "build" /\ \E d, S : Register(d, S, <<>>)
    BY <1>3, <1>9 DEF AfterOutputUsed
  <2>2. QED
    BY <1>1, <1>8, <2>1, NoTask
<1>10. CASE AfterNodeInstantiated
  <2> DEFINE e == Head(todo).elm
             n == Head(todo).node
             deps == OnEach(DataDeps(n), "used", e)
  <2>1. todo # <<>> /\ allocPhase = "build" /\ n \in Node
    BY <1>3, <1>10 DEF AfterNodeInstantiated
  <2>2. IsSeq(deps) /\ \A t \in ToSet(deps) : t.step \in StepsIn(allocPhase)
        /\ TaskOK(t, archElements)
    BY <1>4, <1>5, <2>1
  <2>3. Continue(deps) \/ Fail("AssertionError") \/ \E S : Register(n, S, deps)
    BY <1>10 DEF AfterNodeInstantiated
  <2> HIDE DEF deps
  <2>4. QED
    BY <1>1, <1>2, <1>8, <2>1, <2>2, <2>3, TodoContinued, TodoFailed
<1>11. CASE InstantiateOutInTime
  <2> DEFINE e == Head(todo).elm
             d == Head(todo).node
             n == Head(todo).user
             get == IF IsConst(d) THEN <<>>
                 ELSE <<GetCall(e, d, scheduledIn[n], <<"node", n>>)>>
             x == OnEach(<<d>>, "alloc", e)
             y == OnEach(<<d>>, "after", e)
  <2>1. todo # <<>> /\ allocPhase = "build" /\ d \in Node /\ n \in Node
    BY <1>3, <1>11 DEF InstantiateOutInTime
  <2>2. IsSeq(get) /\ \A t \in ToSet(get) : t.step \in StepsIn(allocPhase)
        /\ TaskOK(t, archElements)
    BY <2>1, GetTask, OneTask, NoTask
  <2>3. /\ IsSeq(x) /\ \A t \in ToSet(x) : t.step \in StepsIn(allocPhase)
             /\ TaskOK(t, archElements)
        /\ IsSeq(y) /\ \A t \in ToSet(y) : t.step \in StepsIn(allocPhase)
             /\ TaskOK(t, archElements)
    BY <1>4, <1>6, <2>1
  <2>4. Continue(get) \/ Fail("AssertionError") \/ Continue(x \o y \o get)
    BY <1>11 DEF InstantiateOutInTime
  <2> HIDE DEF get, x, y
  <2>5. IsSeq(x \o y \o get) /\ \A t \in ToSet(x \o y \o get) :
        t.step \in StepsIn(allocPhase) /\ TaskOK(t, archElements)
    BY <2>2, <2>3, Joined
  <2>6. QED
    BY <1>1, <1>2, <2>1, <2>2, <2>4, <2>5, TodoContinued, TodoFailed
<1>12. CASE AllocateRtlInstance
  <2> DEFINE e == Head(todo).elm
             n == Head(todo).node
             x == Operands(e, n)
  <2>1. todo # <<>> /\ allocPhase = "build" /\ n \in Node
    BY <1>3, <1>12 DEF AllocateRtlInstance
  <2>2. IsSeq(x) /\ \A t \in ToSet(x) : t.step \in StepsIn(allocPhase)
        /\ TaskOK(t, archElements)
    <3>1. IsSeq(x) /\ \A t \in ToSet(x) : t.step = "operand" /\ t.node \in Node
          /\ t.user \in Node
      BY <2>1, NetFacts, OperandsFacts
    <3>2. QED
      BY <2>1, <3>1 DEF StepsIn, TaskOK
  <2>3. ASSUME NEW step \in {"create", "drive"}, Continue(x \o OnEach(<<n>>, step, e))
        PROVE  TodoOK'
    <3>1. IsSeq(OnEach(<<n>>, step, e)) /\ \A t \in ToSet(OnEach(<<n>>, step, e)) :
          t.step \in StepsIn(allocPhase) /\ TaskOK(t, archElements)
      BY <1>4, <1>6, <2>1
    <3> HIDE DEF x
    <3>2. IsSeq(x \o OnEach(<<n>>, step, e)) /\ \A t \in ToSet(x \o OnEach(<<n>>, step, e)) :
          t.step \in StepsIn(allocPhase) /\ TaskOK(t, archElements)
      BY <2>2, <3>1, Joined
    <3>3. QED
      BY <1>2, <2>1, <2>3, <3>2, TodoContinued
  <2>4. ASSUME Continue(OnEach(Listed[Deps(n)], "alloc", e))
        PROVE  TodoOK'
    <3>1. IsSeq(Listed[Deps(n)]) /\ ToSet(Listed[Deps(n)]) \subseteq Node
      BY <2>1, NetFacts, ListedFacts
    <3>2. QED
      BY <1>2, <1>4, <2>1, <2>4, <3>1, TodoContinued
  <2>5. TodoOK'
    BY <1>2, <1>12, <2>1, <2>3, <2>4, NoneContinued DEF AllocateRtlInstance, AllocateRead,
       AllocateWrite, AllocateOperator
  <2>6. QED
    BY <1>1, <2>1, <2>5
<1>13. CASE CreateOutput \/ Drive
  BY <1>1, <1>2, <1>3, <1>13, NoneContinued DEF CreateOutput, Drive
<1>14. CASE AllocateDataPath
  <2> DEFINE e == Head(todo).elm
             n == Head(todo).node
             x == OnEach(<<n>>, "alloc", e)
             y == IF wasInstantiated(e, n) THEN OnEach(<<n>>, "after", e) ELSE <<>>
             z == IF net.kind[n] = "io" THEN OnEach(<<n>>, "io", e) ELSE <<>>
  <2>1. todo # <<>> /\ allocPhase = "build" /\ n \in Node /\ Continue(x \o y \o z)
    BY <1>3, <1>14 DEF AllocateDataPath
  <2>2. /\ IsSeq(x) /\ \A t \in ToSet(x) : t.step \in StepsIn(allocPhase)
             /\ TaskOK(t, archElements)
        /\ IsSeq(y) /\ \A t \in ToSet(y) : t.step \in StepsIn(allocPhase)
             /\ TaskOK(t, archElements)
        /\ IsSeq(z) /\ \A t \in ToSet(z) : t.step \in StepsIn(allocPhase)
             /\ TaskOK(t, archElements)
    BY <1>4, <1>6, <2>1, NoTask
  <2> HIDE DEF x, y, z
  <2>3. IsSeq(x \o y \o z) /\ \A t \in ToSet(x \o y \o z) : t.step \in StepsIn(allocPhase)
        /\ TaskOK(t, archElements)
    <3>1. IsSeq(x \o y) /\ ToSet(x \o y) = ToSet(x) \cup ToSet(y)
      BY <2>2, Joined
    <3>2. IsSeq(x \o y \o z) /\ ToSet(x \o y \o z) = ToSet(x \o y) \cup ToSet(z)
      BY <2>2, <3>1, Joined
    <3>3. QED
      BY <2>2, <3>1, <3>2
  <2>4. QED
    BY <1>1, <1>2, <2>1, <2>3, TodoContinued
<1>15. CASE CopyChannelSync
  <2> DEFINE e == Head(todo).elm
             n == Head(todo).node
             conds == Listed[{d \in net.dataDeps[n] : ~ IsConst(d)}]
             tasks == [i \in DOMAIN conds |-> GetCall(e, conds[i], scheduledOut[n],
                                                      <<"node", n>>)]
  <2>1. todo # <<>> /\ allocPhase = "build" /\ n \in Node /\ Continue(tasks)
    BY <1>3, <1>15 DEF CopyChannelSync
  <2>2. IsSeq(conds) /\ ToSet(conds) \subseteq Node
    <3>1. {d \in net.dataDeps[n] : ~ IsConst(d)} \in SUBSET Node
      BY <2>1, NetFacts
    <3>2. QED
      BY <3>1, ListedFacts
  <2> HIDE DEF conds
  <2>3. IsSeq(tasks) /\ \A t : t \in ToSet(tasks)
        <=> \E d \in ToSet(conds) : t = GetCall(e, d, scheduledOut[n], <<"node", n>>)
    BY <2>2, GetsFacts
  <2>4. \A t \in ToSet(tasks) : t.step \in StepsIn(allocPhase) /\ TaskOK(t, archElements)
    BY <2>1, <2>2, <2>3, GetTask
  <2>5. QED
    BY <1>1, <1>2, <2>1, <2>3, <2>4, TodoContinued
<1>16. QED
  BY <1>7, <1>9, <1>10, <1>11, <1>12, <1>13, <1>14, <1>15 DEF NextDatapath

\* Finding and connecting the values that cross elements keeps the types.
LEMMA SharingTyped ==
  ASSUME AllocInput, AllocOK, NextSharing, UNCHANGED vars
  PROVE  AllocOK'
<1>1. ASSUME allocPhase # "idle", TodoOK', connections' \in Seq(Node \X Node),
             UNCHANGED elementVars
      PROVE  AllocOK'
  BY <1>1 DEF AllocOK, vars, elementVars
<1>2. TodoOK /\ connections \in Seq(Node \X Node)
  BY DEF AllocOK
<1>3. CASE AnalyzeSharing
  <2>1. allocPhase = "elements" /\ UNCHANGED <<elementVars, connections>>
    BY <1>3 DEF AnalyzeSharing
  <2>2. CASE Fail("AssertionError")
    BY <1>1, <1>2, <2>1, <2>2, TodoFailed DEF elementVars
  <2>3. CASE allocPhase' = "analyze" /\ todo' = OfElements
    BY <1>1, <1>2, <2>1, <2>3, OfElementsFacts DEF elementVars, TodoOK, Tasks, StepsIn,
       AllocFailed, AllocOK
  <2>4. QED
    BY <1>3, <2>2, <2>3 DEF AnalyzeSharing
<1>4. CASE CheckInputs
  <2> DEFINE m == Head(todo).node
             tasks == InputTasks(m)
  <2>1. todo # <<>> /\ allocPhase = "analyze" /\ m \in Node /\ Continue(tasks)
        /\ UNCHANGED <<elementVars, connections>>
    BY <1>2, <1>4, HeadIs DEF CheckInputs, NextIs, StepsIn, TaskOK, InputTasks
  <2>2. IsSeq(tasks) /\ \A t \in ToSet(tasks) : t.step = "input" /\ t.node \in Node
        /\ t.user \in Node
    BY <2>1, InputTasksFacts, NetFacts
  <2>3. \A t \in ToSet(tasks) : t.step \in StepsIn(allocPhase) /\ TaskOK(t, archElements)
    BY <2>1, <2>2 DEF StepsIn, TaskOK
  <2>4. QED
    BY <1>1, <1>2, <2>1, <2>2, <2>3, TodoContinued DEF elementVars
<1>5. CASE CheckInputDriver
  <2> DEFINE o == Head(todo).node
             m == Head(todo).user
  <2>1. todo # <<>> /\ allocPhase = "analyze" /\ o \in Node /\ m \in Node
        /\ UNCHANGED elementVars
    BY <1>2, <1>5, HeadIs DEF CheckInputDriver, NextIs, StepsIn, TaskOK
  <2>2. Append(connections, <<o, m>>) \in Seq(Node \X Node)
    BY <1>2, <2>1
  <2>3. connections' \in Seq(Node \X Node)
    BY <1>2, <1>5, <2>2 DEF CheckInputDriver
  <2>4. Continue(<<>>) \/ Fail("AssertionError")
    BY <1>5 DEF CheckInputDriver
  <2>5. QED
    BY <1>1, <1>2, <2>1, <2>3, <2>4, NoneContinued, TodoFailed DEF elementVars
<1>6. CASE Declare
  <2>1. /\ allocPhase = "analyze" /\ allocPhase' = "build"
             /\ todo' = OfElements \o ConnectionCalls
        /\ UNCHANGED <<elementVars, connections>>
    BY <1>6 DEF Declare
  <2>2. IsSeq(todo') /\ ToSet(todo') = ToSet(OfElements) \cup ToSet(ConnectionCalls)
    BY <1>2, <2>1, OfElementsFacts, ConnectionCallsFacts, Joined DEF AllocOK
  <2>3. \A t \in ToSet(OfElements) \cup ToSet(ConnectionCalls) : t.step \in StepsIn("build")
        /\ TaskOK(t, archElements)
    BY <1>2, OfElementsFacts, ConnectionCallsFacts DEF StepsIn, AllocOK
  <2>4. TodoOK'
    BY <2>1, <2>2, <2>3 DEF TodoOK, Tasks, elementVars
  <2>5. QED
    BY <1>1, <1>2, <2>1, <2>4
<1>7. CASE Connect
  <2> DEFINE o == Head(todo).node
             dst == Owner(Head(todo).user)
  <2>1. todo # <<>> /\ allocPhase = "build" /\ o \in Node
        /\ UNCHANGED <<elementVars, connections>>
    BY <1>2, <1>7, HeadIs DEF Connect, NextIs, StepsIn, TaskOK
  <2>2. CASE Continue(HandOver(o, dst))
    <3>1. IsSeq(HandOver(o, dst)) /\ \A t \in ToSet(HandOver(o, dst)) :
          t.step \in StepsIn("build") /\ TaskOK(t, archElements)
      BY <2>1, HandOverTyped
    <3>2. QED
      BY <1>1, <1>2, <2>1, <2>2, <3>1, TodoContinued DEF elementVars
  <2>3. QED
    BY <1>1, <1>2, <1>7, <2>1, <2>2, NoneContinued, TodoFailed DEF Connect, elementVars
<1>8. CASE MakeValid
  <2>1. todo # <<>> /\ allocPhase = "build" /\ UNCHANGED <<elementVars, connections>>
    BY <1>2, <1>8, HeadIs DEF MakeValid, NextIs, StepsIn
  <2>2. Continue(<<>>) \/ Fail("AssertionError")
    BY <1>8 DEF MakeValid, ExtendValidity
  <2>3. QED
    BY <1>1, <1>2, <2>1, <2>2, NoneContinued, TodoFailed DEF elementVars
<1>9. CASE ConnectSync
  <2>1. todo # <<>> /\ allocPhase = "build" /\ UNCHANGED <<elementVars, connections>>
    BY <1>2, <1>9, HeadIs DEF ConnectSync, NextIs, StepsIn
  <2>2. Continue(<<>>) \/ Fail("AssertionError") \/ Fail("IndexError")
    BY <1>9 DEF ConnectSync
  <2>3. QED
    BY <1>1, <1>2, <2>1, <2>2, NoneContinued, TodoFailed DEF elementVars
<1>10. CASE AllocateSync
  <2>1. /\ allocPhase = "build" /\ allocPhase' = "done" /\ todo = <<>> /\ todo' = <<>>
        /\ UNCHANGED <<elementVars, connections>>
    BY <1>10 DEF AllocateSync
  <2>2. TodoOK'
    BY <2>1, NoTask DEF TodoOK, Tasks
  <2>3. QED
    BY <1>1, <1>2, <2>1, <2>2
<1>11. QED
  BY <1>3, <1>4, <1>5, <1>6, <1>7, <1>8, <1>9, <1>10 DEF NextSharing

\* The types hold before allocate() starts.
LEMMA AllocInit == HlsInit => AllocOK
<1> SUFFICES ASSUME HlsInit
             PROVE  AllocOK
  OBVIOUS
<1>1. /\ allocPhase = "idle" /\ todo = <<>> /\ archElements = <<>> /\ element = NoElement
      /\ connections = <<>>
  BY DEF HlsInit, InitAllocator
<1>2. TodoOK
  BY <1>1, NoTask DEF TodoOK, Tasks
<1>3. <<>> \in Seq(ElementType) /\ <<>> \in Seq(Node \X Node)
  OBVIOUS
<1>4. QED
  BY <1>1, <1>2, <1>3, NoElementType DEF AllocOK

\* The types hold after every step of schedule() and of allocate().
LEMMA AllocNext == AllocInput /\ AllocOK /\ [HlsNext]_hlsVars => AllocOK'
<1> SUFFICES ASSUME AllocInput, AllocOK, [HlsNext]_hlsVars
             PROVE  AllocOK'
  OBVIOUS
<1>1. CASE UNCHANGED hlsVars
  BY <1>1 DEF hlsVars, allocVars, elementVars, vars, AllocOK, TodoOK, Tasks, IsSeq,
     AllocFailed
<1>2. CASE Scheduling
  <2>1. phase # "done"
    BY <1>2, ScheduleNotDone DEF Scheduling
  <2>2. allocPhase = "idle" /\ UNCHANGED allocVars
    BY <1>2, <2>1 DEF AllocOK, Scheduling
  <2>3. QED
    BY <2>2 DEF allocVars, elementVars, AllocOK, TodoOK, Tasks, IsSeq, AllocFailed
<1>3. CASE NextAllocator /\ UNCHANGED vars
  BY <1>3, ElementsTyped, DatapathTyped, SharingTyped DEF NextAllocator
<1>4. QED
  BY <1>1, <1>2, <1>3 DEF HlsNext, HlsTerminated

-----------------------------------------------------------------------------
\* The loops over the elements, their stages and the nodes in them.

\* No task is lost but the first one, and no task comes from nowhere.
LEMMA Kept ==
  ASSUME IsSeq(todo), todo # <<>>, NEW tasks, IsSeq(tasks), Continue(tasks)
  PROVE  /\ \A t \in Tasks : t = Head(todo) \/ t \in Tasks'
         /\ \A t \in Tasks' : t \in Tasks \/ t \in ToSet(tasks)
         /\ \A t \in ToSet(tasks) : t \in Tasks'
  BY Continued

\* The loop over an element visits all of its stages.
LEMMA StagesEffect ==
  ASSUME AllocOK, LoopOverStages
  PROVE  LET e == Head(todo).elm
         IN  /\ Head(todo).step = "element" /\ e \in DOMAIN archElements
             /\ \A s \in DOMAIN archElements[e].nodes :
                  [step |-> "stage", elm |-> e, stage |-> s] \in Tasks'
             /\ \A t \in Tasks : t = Head(todo) \/ t \in Tasks'
             /\ \A t \in Tasks' : t \in Tasks \/ t.step = "stage"
<1> DEFINE e == Head(todo).elm
           q == archElements[e].nodes
           tasks == [s \in DOMAIN q |-> [step |-> "stage", elm |-> e, stage |-> s]]
<1>1. /\ IsSeq(todo) /\ todo # <<>> /\ e \in DOMAIN archElements
           /\ Head(todo).step = "element"
      /\ Continue(tasks)
  BY HeadIs DEF LoopOverStages, TaskOK, AllocOK
<1>2. IsSeq(q)
  BY <1>1, ElementFacts, SeqIsSeq DEF AllocOK
<1> HIDE DEF e, q
<1>3. tasks = [s \in DOMAIN q |-> tasks[s]]
      /\ \A s \in DOMAIN q : tasks[s] = [step |-> "stage", elm |-> e, stage |-> s]
  OBVIOUS
<1> HIDE DEF tasks
<1>4. IsSeq(tasks) /\ \A t : t \in ToSet(tasks) <=> \E s \in DOMAIN q : t = tasks[s]
  BY <1>2, <1>3, MappedSeq
<1>5. /\ \A t \in ToSet(tasks) : t.step = "stage"
      /\ \A s \in DOMAIN q : [step |-> "stage", elm |-> e, stage |-> s] \in ToSet(tasks)
  BY <1>3, <1>4
<1>6. /\ \A t \in Tasks : t = Head(todo) \/ t \in Tasks'
      /\ \A t \in Tasks' : t \in Tasks \/ t \in ToSet(tasks)
      /\ \A t \in ToSet(tasks) : t \in Tasks'
  BY <1>1, <1>4, Kept
<1>7. QED
  BY <1>1, <1>5, <1>6 DEF e, q

\* The loop over a stage visits all of its nodes.
LEMMA NodesEffect ==
  ASSUME AllocOK, LoopOverNodes
  PROVE  LET e == Head(todo).elm
             s == Head(todo).stage
             step == IF allocPhase = "analyze" THEN "inputs" ELSE "node"
         IN  /\ Head(todo).step = "stage" /\ e \in DOMAIN archElements
                  /\ s \in DOMAIN archElements[e].nodes
             /\ \A n \in ToSet(archElements[e].nodes[s]) :
                  [step |-> step, elm |-> e, node |-> n] \in Tasks'
             /\ \A t \in Tasks : t = Head(todo) \/ t \in Tasks'
             /\ \A t \in Tasks' : t \in Tasks
                  \/ (t.step = step /\ t.elm = e /\ IsOwner(e, t.node))
<1> DEFINE e == Head(todo).elm
           s == Head(todo).stage
           q == archElements[e].nodes[s]
           step == IF allocPhase = "analyze" THEN "inputs" ELSE "node"
<1>1. /\ IsSeq(todo) /\ todo # <<>> /\ e \in DOMAIN archElements /\ Head(todo).step = "stage"
      /\ s \in DOMAIN archElements[e].nodes
      /\ Continue(OnEach(q, step, e))
  BY HeadIs DEF LoopOverNodes, TaskOK, AllocOK, OnEach
<1>2. IsSeq(q) /\ \A n \in ToSet(q) : IsOwner(e, n)
  BY <1>1, ElementFacts DEF AllocOK, IsOwner
<1> HIDE DEF e, q, s, step
<1>3. IsSeq(OnEach(q, step, e))
      /\ \A x : x \in ToSet(OnEach(q, step, e))
           <=> \E n \in ToSet(q) : x = [step |-> step, elm |-> e, node |-> n]
  BY <1>2, OnEachFacts
<1>4. /\ \A t \in Tasks : t = Head(todo) \/ t \in Tasks'
      /\ \A t \in Tasks' : t \in Tasks \/ t \in ToSet(OnEach(q, step, e))
      /\ \A t \in ToSet(OnEach(q, step, e)) : t \in Tasks'
  BY <1>1, <1>3, Kept
<1>5. \A n \in ToSet(q) : [step |-> step, elm |-> e, node |-> n] \in Tasks'
  BY <1>3, <1>4
<1>6. \A t \in Tasks' : t \in Tasks \/ (t.step = step /\ t.elm = e /\ IsOwner(e, t.node))
  BY <1>2, <1>3, <1>4
<1>7. QED
  BY <1>1, <1>4, <1>5, <1>6 DEF e, q, s, step

-----------------------------------------------------------------------------
\* Every node comes to an element.

\* Once the netlist is split, no step changes the elements.
LEMMA SplitStep ==
  ASSUME AllocInput, AllocOK, [HlsNext]_hlsVars, Split', ~ PipelineDiscovered
  PROVE  Split /\ UNCHANGED <<net, scheduledIn, scheduledOut, archElements, element>>
<1>1. TodoOK
  BY DEF AllocOK
<1>2. ASSUME NextElements
      PROVE  Split /\ UNCHANGED <<archElements, element>>
  <2>1. ~ Discover /\ ~ FsmsDiscovered
    BY DEF Discover, FsmsDiscovered, Split
  <2>2. ASSUME NEW step \in {"interface", "accesses", "flood", "netlist"}, NextIs(step),
               allocPhase' = allocPhase \/ AllocFailed'
        PROVE  FALSE
    BY <1>1, <2>2, HeadIs DEF StepsIn, Split, AllocFailed, NextIs
  <2>3. ~ DiscoverFsm /\ ~ DiscoverState /\ ~ FloodNetInSameCycle /\ ~ FsmDiscovered
        /\ ~ AddNodeToPipeline
    <3>1. DiscoverFsm => NextIs("interface") /\ allocPhase' = allocPhase
      BY DEF DiscoverFsm, Continue
    <3>2. DiscoverState \/ FsmDiscovered => NextIs("accesses") /\ allocPhase' = allocPhase
      BY DEF DiscoverState, FsmDiscovered, Continue
    <3>3. FloodNetInSameCycle => NextIs("flood") /\ allocPhase' = allocPhase
      BY DEF FloodNetInSameCycle, Continue
    <3>4. AddNodeToPipeline => NextIs("netlist") /\ (allocPhase' = allocPhase \/ AllocFailed')
      BY DEF AddNodeToPipeline, Continue, Fail, AllocFailed
    <3>5. QED
      BY <2>2, <3>1, <3>2, <3>3, <3>4
  <2>4. CASE LoopOverStages
    BY <2>4 DEF LoopOverStages, elementVars, Continue, Split
  <2>5. CASE LoopOverNodes
    BY <2>5 DEF LoopOverNodes, elementVars, Continue, Split
  <2>6. QED
    BY <1>2, <2>1, <2>3, <2>4, <2>5 DEF NextElements
<1>3. ASSUME NextDatapath
      PROVE  Split
  <2>1. allocPhase' = allocPhase \/ AllocFailed'
    BY <1>3 DEF NextDatapath, Get, AfterOutputUsed, AfterNodeInstantiated, Register,
       InstantiateOutInTime, AllocateRtlInstance, AllocateRead, AllocateWrite,
       AllocateOperator, CreateOutput, Drive, AllocateDataPath, CopyChannelSync, Continue,
       Fail, AllocFailed
  <2>2. QED
    BY <2>1 DEF Split, AllocFailed
<1>4. ASSUME NextSharing
      PROVE  Split /\ UNCHANGED elementVars
  <2>1. CASE AnalyzeSharing \/ Declare \/ AllocateSync
    BY <2>1 DEF AnalyzeSharing, Declare, AllocateSync, Split
  <2>2. CASE CheckInputs \/ CheckInputDriver \/ Connect \/ MakeValid \/ ConnectSync
    <3>1. (allocPhase' = allocPhase \/ AllocFailed') /\ UNCHANGED elementVars
      BY <2>2 DEF CheckInputs, CheckInputDriver, Connect, MakeValid, ExtendValidity,
         ConnectSync, Continue, Fail, AllocFailed
    <3>2. QED
      BY <3>1 DEF Split, AllocFailed
  <2>3. QED
    BY <1>4, <2>1, <2>2 DEF NextSharing
<1>5. CASE UNCHANGED hlsVars \/ Scheduling
  <2>1. UNCHANGED allocVars
    BY <1>5 DEF hlsVars, Scheduling
  <2>2. Split /\ UNCHANGED <<archElements, element>>
    BY <2>1 DEF allocVars, elementVars, Split
  <2>3. UNCHANGED <<net, scheduledIn, scheduledOut>>
    BY <1>5, <2>2, ScheduleNotDone DEF Scheduling, Split, AllocOK, hlsVars, vars
  <2>4. QED
    BY <2>2, <2>3
<1>6. CASE NextAllocator /\ UNCHANGED vars
  BY <1>2, <1>3, <1>4, <1>6 DEF NextAllocator, elementVars, vars
<1>7. QED
  BY <1>5, <1>6 DEF HlsNext, HlsTerminated

\* While the pipeline is collected, no other step touches it.
LEMMA PipelinesStep ==
  ASSUME AllocOK, [HlsNext]_hlsVars, allocPhase' = "pipelines", ~ FsmsDiscovered,
         ~ AddNodeToPipeline
  PROVE  allocPhase = "pipelines" /\ UNCHANGED <<todo, archElements, element>>
<1>1. TodoOK
  BY DEF AllocOK
<1>2. ASSUME NEW step, NextIs(step), step # "netlist", allocPhase' = allocPhase
             \/ AllocFailed'
      PROVE  FALSE
  BY <1>1, <1>2, HeadIs DEF StepsIn, AllocFailed, NextIs
<1>3. ~ NextElements
  <2>1. ~ Discover /\ ~ PipelineDiscovered
    BY DEF Discover, PipelineDiscovered
  <2>2. DiscoverFsm => NextIs("interface") /\ allocPhase' = allocPhase
    BY DEF DiscoverFsm, Continue
  <2>3. DiscoverState \/ FsmDiscovered => NextIs("accesses") /\ allocPhase' = allocPhase
    BY DEF DiscoverState, FsmDiscovered, Continue
  <2>4. FloodNetInSameCycle => NextIs("flood") /\ allocPhase' = allocPhase
    BY DEF FloodNetInSameCycle, Continue
  <2>5. LoopOverStages => NextIs("element") /\ allocPhase' = allocPhase
    BY DEF LoopOverStages, Continue
  <2>6. LoopOverNodes => NextIs("stage") /\ allocPhase' = allocPhase
    BY DEF LoopOverNodes, Continue
  <2>7. QED
    BY <1>2, <2>1, <2>2, <2>3, <2>4, <2>5, <2>6 DEF NextElements
<1>4. ~ NextDatapath
  <2>1. NextDatapath =>
          \E step \in {"get", "used", "after", "operand", "alloc", "create", "drive", "node",
                       "io"} :
            NextIs(step) /\ (allocPhase' = allocPhase \/ AllocFailed')
    BY DEF NextDatapath, Get, AfterOutputUsed, AfterNodeInstantiated, Register,
       InstantiateOutInTime, AllocateRtlInstance, AllocateRead, AllocateWrite,
       AllocateOperator, CreateOutput, Drive, AllocateDataPath, CopyChannelSync, Continue,
       Fail, AllocFailed
  <2>2. QED
    BY <1>2, <2>1
<1>5. ~ NextSharing
  <2>1. ~ AnalyzeSharing /\ ~ Declare /\ ~ AllocateSync
    BY DEF AnalyzeSharing, Declare, AllocateSync, Fail
  <2>2. CheckInputs \/ CheckInputDriver \/ Connect \/ MakeValid \/ ConnectSync =>
          \E step \in {"inputs", "input", "connect", "makeValid", "sync"} :
            NextIs(step) /\ (allocPhase' = allocPhase \/ AllocFailed')
    BY DEF CheckInputs, CheckInputDriver, Connect, MakeValid, ExtendValidity, ConnectSync,
       Continue, Fail, AllocFailed
  <2>3. QED
    BY <1>2, <2>1, <2>2 DEF NextSharing
<1>6. QED
  BY <1>3, <1>4, <1>5 DEF HlsNext, HlsTerminated, NextAllocator, Scheduling, hlsVars,
     allocVars, elementVars

\* Every node comes to an element: the loop over the netlist forgets none which
\* no FSM has taken.
LEMMA CoveredNext == AllocInput /\ AllocOK /\ NodesCovered /\ [HlsNext]_hlsVars
    => NodesCovered'
<1> SUFFICES ASSUME AllocInput, AllocOK, NodesCovered, [HlsNext]_hlsVars
             PROVE  NodesCovered'
  OBVIOUS
<1>1. CASE Split'
  <2>1. CASE PipelineDiscovered
    <3>1. /\ allocPhase = "pipelines" /\ todo = <<>> /\ allocPhase' = "elements"
          /\ archElements' = IF element.nodes = <<>> THEN archElements
               ELSE Append(archElements, element)
      BY <2>1 DEF PipelineDiscovered
    <3>2. Tasks = {}
      BY <3>1, NoTask DEF Tasks
    <3>3. ASSUME NEW n \in Node
          PROVE  \E e \in DOMAIN archElements' : n \in NodesOf(archElements'[e])
      <4>1. CASE \E e \in DOMAIN archElements : IsOwner(e, n)
        <5>1. \A e \in DOMAIN archElements : e \in DOMAIN archElements'
              /\ archElements'[e] = archElements[e]
          BY <3>1 DEF AllocOK
        <5>2. QED
          BY <4>1, <5>1 DEF IsOwner
      <4>2. CASE n \in NodesOf(element)
        <5>1. element.nodes # <<>>
          BY <4>2 DEF NodesOf
        <5>2. Len(archElements) + 1 \in DOMAIN archElements'
              /\ archElements'[Len(archElements) + 1] = element
          BY <3>1, <5>1 DEF AllocOK
        <5>3. QED
          BY <4>2, <5>2
      <4>3. QED
        BY <3>1, <3>2, <4>1, <4>2 DEF NodesCovered
    <3>4. QED
      BY <3>1, <3>3 DEF NodesCovered, IsOwner
  <2>2. CASE ~ PipelineDiscovered
    <3>1. Split /\ archElements' = archElements
      BY <1>1, <2>2, SplitStep
    <3>2. QED
      BY <1>1, <3>1, StaticOwner DEF NodesCovered, Split
  <2>3. QED
    BY <2>1, <2>2
<1>2. CASE allocPhase' = "pipelines"
  <2>1. CASE FsmsDiscovered
    <3> DEFINE q == iterAllNodes
    <3>1. ToSet(q) = Node /\ IsSeq(q)
      <4>1. /\ {n \in Node : IsRead(n)} \in SUBSET Node
            /\ {n \in Node : ~ IsRead(n) /\ ~ IsWrite(n)} \in SUBSET Node
            /\ {n \in Node : IsWrite(n)} \in SUBSET Node
        OBVIOUS
      <4>2. ToSet(q) = {n \in Node : IsRead(n)}
            \cup {n \in Node : ~ IsRead(n) /\ ~ IsWrite(n)} \cup {n \in Node : IsWrite(n)}
            /\ IsSeq(q)
        BY <4>1, ListedFacts, Joined DEF iterAllNodes
      <4>3. QED
        BY <4>2
    <3>2. todo' = [i \in DOMAIN q |-> [step |-> "netlist", node |-> q[i]]]
      BY <2>1 DEF FsmsDiscovered
    <3> HIDE DEF q
    <3>3. DOMAIN todo' = DOMAIN q
          /\ \A i \in DOMAIN q : todo'[i].step = "netlist" /\ todo'[i].node = q[i]
      BY <3>2
    <3>4. \A n \in Node : \E t \in Tasks' : t.step = "netlist" /\ t.node = n
      BY <3>1, <3>3 DEF Tasks, ToSet
    <3>5. QED
      BY <1>2, <3>4 DEF NodesCovered, Split
  <2>2. CASE AddNodeToPipeline
    <3> DEFINE n == Head(todo).node
    <3>1. /\ IsSeq(todo) /\ todo # <<>> /\ n \in Node /\ allocPhase = "pipelines"
               /\ phase = "done"
          /\ Head(todo).step = "netlist" /\ archElements' = archElements
      BY <2>2, HeadIs DEF AddNodeToPipeline, NextIs, StepsIn, TaskOK, AllocOK
    <3>2. Continue(<<>>)
      BY <1>2, <2>2 DEF AddNodeToPipeline, Fail
    <3>3. \A t \in Tasks : t = Head(todo) \/ t \in Tasks'
      BY <3>1, <3>2, Kept, NoTask
    <3>4. InClk(n) \in Nat
      BY <3>1, ClkOfNat DEF AllocInput, InClk
    <3>5. /\ NodesOf(element) \subseteq NodesOf(element')
          /\ n \in NodesOf(element') \/ \E e \in DOMAIN archElements : IsOwner(e, n)
      <4>1. CASE element' = AddToStage(element, InClk(n), n)
        BY <3>1, <3>4, <4>1, AddToStageType DEF AllocOK
      <4>2. CASE (\E e \in DOMAIN archElements : IsOwner(e, n)) /\ element' = element
        BY <4>2
      <4>3. QED
        BY <1>2, <2>2, <4>1, <4>2 DEF AddNodeToPipeline, Fail
    <3>6. ASSUME NEW m \in Node
          PROVE  \/ \E e \in DOMAIN archElements : IsOwner(e, m)
                 \/ m \in NodesOf(element')
                 \/ \E t \in Tasks' : t.step = "netlist" /\ t.node = m
      BY <3>1, <3>3, <3>5 DEF NodesCovered
    <3>7. \A e, m : IsOwner(e, m)' = IsOwner(e, m)
      BY <3>1, StaticOwner
    <3>8. NodesOf(element)' = NodesOf(element')
      BY DEF NodesOf
    <3>9. QED
      BY <1>2, <3>1, <3>6, <3>7, <3>8 DEF NodesCovered, Split
  <2>3. ASSUME ~ FsmsDiscovered, ~ AddNodeToPipeline
        PROVE  allocPhase = "pipelines" /\ UNCHANGED <<todo, archElements, element>>
    BY <1>2, <2>3, PipelinesStep
  <2>4. ASSUME allocPhase = "pipelines", UNCHANGED <<todo, archElements, element>>
        PROVE  NodesCovered'
    BY <1>2, <2>4 DEF NodesCovered, Split, Tasks, IsOwner, NodesOf
  <2>5. QED
    BY <2>1, <2>2, <2>3, <2>4
<1>3. CASE ~ Split' /\ allocPhase' # "pipelines"
  BY <1>3 DEF NodesCovered, Split
<1>4. QED
  BY <1>1, <1>2, <1>3

-----------------------------------------------------------------------------
\* The connections are the values which cross elements.

\* A step of RtlDatapath takes a task of it and stays in the phase, or fails.
LEMMA DatapathPhase ==
  NextDatapath =>
    \E step \in {"get", "used", "after", "operand", "alloc", "create", "drive", "node",
                 "io"} :
      NextIs(step) /\ (allocPhase' = allocPhase \/ AllocFailed')
  BY DEF NextDatapath, Get, AfterOutputUsed, AfterNodeInstantiated, Register,
     InstantiateOutInTime, AllocateRtlInstance, AllocateRead, AllocateWrite,
     AllocateOperator, CreateOutput, Drive, AllocateDataPath, CopyChannelSync, Continue,
     Fail, AllocFailed

\* The same for the tasks of HlsAllocator; the inputs are visited by the
\* analysis only.
LEMMA SharingPhase ==
  CheckInputs \/ CheckInputDriver \/ Connect \/ MakeValid \/ ConnectSync =>
    \E step \in {"inputs", "input", "connect", "makeValid", "sync"} :
      /\ NextIs(step) /\ (allocPhase' = allocPhase \/ AllocFailed')
      /\ step \in {"inputs", "input"} <=> CheckInputs \/ CheckInputDriver
<1>1. CheckInputs => NextIs("inputs") /\ (allocPhase' = allocPhase \/ AllocFailed')
  BY DEF CheckInputs, Continue
<1>2. CheckInputDriver => NextIs("input") /\ (allocPhase' = allocPhase \/ AllocFailed')
  BY DEF CheckInputDriver, Continue, Fail, AllocFailed
<1>3. Connect => NextIs("connect") /\ (allocPhase' = allocPhase \/ AllocFailed')
  BY DEF Connect, Continue, Fail, AllocFailed
<1>4. MakeValid => NextIs("makeValid") /\ (allocPhase' = allocPhase \/ AllocFailed')
  BY DEF MakeValid, ExtendValidity, Continue, Fail, AllocFailed
<1>5. ConnectSync => NextIs("sync") /\ (allocPhase' = allocPhase \/ AllocFailed')
  BY DEF ConnectSync, Continue, Fail, AllocFailed
<1>6. \A step : NextIs(step) => step = Head(todo).step
  BY DEF NextIs
<1>7. QED
  BY <1>1, <1>2, <1>3, <1>4, <1>5, <1>6

\* Before the analysis nothing is recorded.
LEMMA EarlyStep ==
  ASSUME AllocOK, [HlsNext]_hlsVars, ~ Analyzed', ~ AllocFailed'
  PROVE  /\ ~ Analyzed /\ ~ AllocFailed
         /\ UNCHANGED <<connections, uses, drives, syncAdded>>
<1>1. TodoOK
  BY DEF AllocOK
<1>2. ASSUME NEW step, NextIs(step),
             step \notin {"interface", "accesses", "flood", "netlist"},
             allocPhase' = allocPhase \/ AllocFailed'
      PROVE  FALSE
  BY <1>1, <1>2, HeadIs DEF StepsIn, AllocFailed, NextIs, Analyzed
<1>3. ~ NextDatapath
  BY <1>2, DatapathPhase
<1>4. ~ NextSharing
  <2>1. ~ AnalyzeSharing /\ ~ Declare /\ ~ AllocateSync
    BY DEF AnalyzeSharing, Declare, AllocateSync, Fail, Analyzed, AllocFailed
  <2>2. QED
    BY <1>2, <2>1, SharingPhase DEF NextSharing
<1>5. NextElements => ~ Analyzed /\ ~ AllocFailed
  <2>1. Discover \/ FsmsDiscovered \/ PipelineDiscovered => ~ Analyzed /\ ~ AllocFailed
    BY DEF Discover, FsmsDiscovered, PipelineDiscovered, Analyzed, AllocFailed
  <2>2. DiscoverFsm \/ DiscoverState \/ FloodNetInSameCycle \/ FsmDiscovered
        \/ LoopOverStages \/ LoopOverNodes
        => allocPhase' = allocPhase
    BY DEF DiscoverFsm, DiscoverState, FloodNetInSameCycle, FsmDiscovered, LoopOverStages,
       LoopOverNodes, Continue
  <2>3. AddNodeToPipeline => allocPhase' = allocPhase \/ AllocFailed'
    BY DEF AddNodeToPipeline, Continue, Fail, AllocFailed
  <2>4. allocPhase' = allocPhase => ~ Analyzed /\ ~ AllocFailed
    BY DEF Analyzed, AllocFailed
  <2>5. QED
    BY <2>1, <2>2, <2>3, <2>4 DEF NextElements
<1>6. UNCHANGED allocVars => ~ Analyzed /\ ~ AllocFailed
      /\ UNCHANGED <<connections, uses, drives, syncAdded>>
  BY DEF allocVars, rtlVars, Analyzed, AllocFailed
<1>7. QED
  BY <1>3, <1>4, <1>5, <1>6 DEF HlsNext, HlsTerminated, NextAllocator, Scheduling, hlsVars,
     rtlVars

\* What the analysis leaves alone, and the steps it has
LEMMA AnalyzeStep ==
  ASSUME AllocInput, AllocOK, [HlsNext]_hlsVars, allocPhase' = "analyze"
  PROVE  /\ UNCHANGED <<net, scheduledIn, scheduledOut, archElements, uses, drives,
                        syncAdded>>
         /\ \/ AnalyzeSharing /\ allocPhase = "elements"
            \/ /\ allocPhase = "analyze"
               /\ \/ (LoopOverStages \/ LoopOverNodes) /\ UNCHANGED connections
                  \/ CheckInputs \/ CheckInputDriver \/ UNCHANGED <<todo, connections>>
<1>1. TodoOK
  BY DEF AllocOK
<1>2. UNCHANGED <<net, scheduledIn, scheduledOut, archElements>>
  <2>1. ~ PipelineDiscovered
    BY DEF PipelineDiscovered
  <2>2. QED
    BY <2>1, SplitStep DEF Split
<1>3. ASSUME NEW step, NextIs(step), step \notin {"element", "stage", "inputs", "input"},
             allocPhase' = allocPhase \/ AllocFailed'
      PROVE  FALSE
  BY <1>1, <1>3, HeadIs DEF StepsIn, AllocFailed, NextIs
<1>4. ~ NextDatapath
  BY <1>3, DatapathPhase
<1>5. NextElements => (LoopOverStages \/ LoopOverNodes) /\ allocPhase = "analyze"
  <2>1. ~ Discover /\ ~ FsmsDiscovered /\ ~ PipelineDiscovered
    BY DEF Discover, FsmsDiscovered, PipelineDiscovered
  <2>2. DiscoverFsm => NextIs("interface") /\ allocPhase' = allocPhase
    BY DEF DiscoverFsm, Continue
  <2>3. DiscoverState \/ FsmDiscovered => NextIs("accesses") /\ allocPhase' = allocPhase
    BY DEF DiscoverState, FsmDiscovered, Continue
  <2>4. FloodNetInSameCycle => NextIs("flood") /\ allocPhase' = allocPhase
    BY DEF FloodNetInSameCycle, Continue
  <2>5. AddNodeToPipeline => NextIs("netlist") /\ (allocPhase' = allocPhase \/ AllocFailed')
    BY DEF AddNodeToPipeline, Continue, Fail, AllocFailed
  <2>6. LoopOverStages \/ LoopOverNodes => allocPhase' = allocPhase
    BY DEF LoopOverStages, LoopOverNodes, Continue
  <2>7. QED
    BY <1>3, <2>1, <2>2, <2>3, <2>4, <2>5, <2>6 DEF NextElements
<1>6. ASSUME NextSharing
      PROVE  /\ UNCHANGED <<uses, drives, syncAdded>>
             /\ \/ AnalyzeSharing /\ allocPhase = "elements"
                \/ allocPhase = "analyze" /\ (CheckInputs \/ CheckInputDriver)
  <2>1. ~ Declare /\ ~ AllocateSync /\ (AnalyzeSharing => allocPhase = "elements")
    BY DEF AnalyzeSharing, Declare, AllocateSync, Fail
  <2>2. ~ Connect /\ ~ MakeValid /\ ~ ConnectSync
    <3>1. Connect => NextIs("connect") /\ (allocPhase' = allocPhase \/ AllocFailed')
      BY DEF Connect, Continue, Fail, AllocFailed
    <3>2. MakeValid => NextIs("makeValid") /\ (allocPhase' = allocPhase \/ AllocFailed')
      BY DEF MakeValid, ExtendValidity, Continue, Fail, AllocFailed
    <3>3. ConnectSync => NextIs("sync") /\ (allocPhase' = allocPhase \/ AllocFailed')
      BY DEF ConnectSync, Continue, Fail, AllocFailed
    <3>4. QED
      BY <1>3, <3>1, <3>2, <3>3
  <2>3. CheckInputs \/ CheckInputDriver => allocPhase = "analyze"
    BY DEF CheckInputs, CheckInputDriver, Continue, Fail
  <2>4. UNCHANGED <<uses, drives, syncAdded>>
    BY <1>6, <2>1, <2>2 DEF NextSharing, AnalyzeSharing, CheckInputs, CheckInputDriver,
       rtlVars
  <2>5. QED
    BY <1>6, <2>1, <2>2, <2>3, <2>4 DEF NextSharing
<1>7. CASE NextElements /\ UNCHANGED <<rtlVars, connections, syncAdded>>
  BY <1>2, <1>5, <1>7 DEF rtlVars
<1>8. CASE UNCHANGED allocVars
  BY <1>2, <1>8 DEF allocVars, rtlVars
<1>9. QED
  BY <1>2, <1>4, <1>6, <1>7, <1>8 DEF HlsNext, HlsTerminated, NextAllocator, Scheduling,
     hlsVars

\* A step puts the tasks S in the place of the first one.
Replaced(S) ==
  /\ Head(todo) \in Tasks
  /\ \A t \in Tasks : t = Head(todo) \/ t \in Tasks'
  /\ \A t \in Tasks' : t \in Tasks \/ t \in S
  /\ S \subseteq Tasks'

\* Continue replaces the first task by the tasks S, taken as a set.
LEMMA ContinueReplaces ==
  ASSUME TodoOK, todo # <<>>, NEW tasks, IsSeq(tasks), Continue(tasks), NEW S,
         ToSet(tasks) = S
  PROVE  Replaced(S)
<1>1. IsSeq(todo) /\ Head(todo) \in Tasks
  BY FirstAndRest DEF TodoOK, Tasks
<1>2. QED
  BY <1>1, Kept DEF Replaced

\* CheckInputs looks at every input of its node.
LEMMA InputsEffect ==
  ASSUME AllocInput, AllocOK, CheckInputs, UNCHANGED net
  PROVE  LET m == Head(todo).node
         IN  /\ m \in Node /\ Head(todo).step = "inputs"
             /\ connections' = connections
             /\ Replaced({[step |-> "input", node |-> d, user |-> m] : d \in net.dataDeps[m]})
<1> DEFINE m == Head(todo).node
           S == {[step |-> "input", node |-> d, user |-> m] : d \in net.dataDeps[m]}
<1>1. TodoOK
  BY DEF AllocOK
<1>2. /\ todo # <<>> /\ m \in Node /\ Head(todo).step = "inputs" /\ Continue(InputTasks(m))
      /\ connections' = connections
  BY <1>1, HeadIs DEF CheckInputs, TaskOK, InputTasks
<1>3. IsSeq(InputTasks(m)) /\ ToSet(InputTasks(m)) = S
  BY <1>2, NetFacts, InputTasksFacts
<1> HIDE DEF S
<1>4. Replaced(S)
  BY <1>1, <1>2, <1>3, ContinueReplaces
<1>5. QED
  BY <1>2, <1>4 DEF S

\* CheckInputDriver adds the connection exactly if the value crosses elements.
LEMMA DriverEffect ==
  ASSUME AllocOK, CheckInputDriver, ~ AllocFailed'
  PROVE  LET o == Head(todo).node
             m == Head(todo).user
         IN  /\ o \in Node /\ m \in Node /\ Head(todo).step = "input"
             /\ Replaced({})
             /\ \/ ~ (~ IsConst(o) /\ Owner(o) # Owner(m)) /\ connections' = connections
                \/ /\ ~ IsConst(o) /\ Owner(o) # Owner(m)
                   /\ ToSet(connections') = ToSet(connections) \cup {<<o, m>>}
<1> DEFINE o == Head(todo).node
           m == Head(todo).user
<1>1. TodoOK
  BY DEF AllocOK
<1>2. /\ todo # <<>> /\ o \in Node /\ m \in Node /\ Head(todo).step = "input"
  BY <1>1, HeadIs DEF CheckInputDriver, TaskOK
<1>3. /\ Continue(<<>>)
      /\ \/ (IsConst(o) \/ Owner(o) = Owner(m)) /\ connections' = connections
         \/ /\ ~ IsConst(o) /\ Owner(o) # Owner(m)
            /\ connections' = Append(connections, <<o, m>>)
  BY DEF CheckInputDriver, Fail, AllocFailed
<1>4. Replaced({})
  BY <1>1, <1>2, <1>3, NoTask, ContinueReplaces
<1>5. ToSet(Append(connections, <<o, m>>)) = ToSet(connections) \cup {<<o, m>>}
  BY AddedToSeq DEF AllocOK
<1>6. QED
  BY <1>2, <1>3, <1>4, <1>5

\* Which values cross elements does not change after the split.
LEMMA CrossesUnchanged ==
  ASSUME UNCHANGED <<net, scheduledIn, scheduledOut, archElements>>
  PROVE  \A d, m : Crosses(d, m)' = Crosses(d, m)
  BY StaticNet, StaticOwner DEF Crosses

(***************************************************************************)
(* From "build" on, the netlist, the elements and the connections stay as  *)
(* they are; a step is one of the tasks, or only the end of allocate().    *)
(***************************************************************************)
BuildStep ==
  /\ Building
  /\ UNCHANGED StaticVars
  /\ \/ UNCHANGED <<todo, rtlVars, syncAdded>>
     \/ (LoopOverStages \/ LoopOverNodes) /\ allocPhase = "build"
          /\ UNCHANGED <<rtlVars, syncAdded>>
     \/ NextDatapath /\ allocPhase = "build" /\ UNCHANGED syncAdded
     \/ (Connect \/ MakeValid \/ ConnectSync) /\ allocPhase = "build"

\* Every step that begins or ends in "build" is Declare or a BuildStep.
LEMMA BuildingStep ==
  ASSUME AllocInput, AllocOK, [HlsNext]_hlsVars, Building'
  PROVE  /\ UNCHANGED StaticVars
         /\ ~ AllocFailed'
         /\ Declare \/ BuildStep
<1>1. TodoOK /\ ~ AllocFailed'
  BY DEF AllocOK, Building, AllocFailed
<1>2. UNCHANGED <<net, scheduledIn, scheduledOut, archElements>>
  <2>1. ~ PipelineDiscovered
    BY DEF PipelineDiscovered, Building
  <2>2. QED
    BY <2>1, SplitStep DEF Split, Building
<1>3. ASSUME NEW step, NextIs(step), allocPhase' = allocPhase \/ AllocFailed'
      PROVE  /\ allocPhase = "build"
             /\ step \notin {"interface", "accesses", "flood", "netlist", "inputs", "input"}
  BY <1>1, <1>3, HeadIs DEF StepsIn, AllocFailed, NextIs, Building
<1>4. NextDatapath => allocPhase = "build"
  BY <1>3, DatapathPhase
<1>5. NextElements => (LoopOverStages \/ LoopOverNodes) /\ allocPhase = "build"
  <2>1. ~ Discover /\ ~ FsmsDiscovered /\ ~ PipelineDiscovered
    BY DEF Discover, FsmsDiscovered, PipelineDiscovered, Building
  <2>2. DiscoverFsm => NextIs("interface") /\ allocPhase' = allocPhase
    BY DEF DiscoverFsm, Continue
  <2>3. DiscoverState \/ FsmDiscovered => NextIs("accesses") /\ allocPhase' = allocPhase
    BY DEF DiscoverState, FsmDiscovered, Continue
  <2>4. FloodNetInSameCycle => NextIs("flood") /\ allocPhase' = allocPhase
    BY DEF FloodNetInSameCycle, Continue
  <2>5. AddNodeToPipeline => NextIs("netlist") /\ (allocPhase' = allocPhase \/ AllocFailed')
    BY DEF AddNodeToPipeline, Continue, Fail, AllocFailed
  <2>6. LoopOverStages => NextIs("element") /\ allocPhase' = allocPhase
    BY DEF LoopOverStages, Continue
  <2>7. LoopOverNodes => NextIs("stage") /\ allocPhase' = allocPhase
    BY DEF LoopOverNodes, Continue
  <2>8. QED
    BY <1>3, <2>1, <2>2, <2>3, <2>4, <2>5, <2>6, <2>7 DEF NextElements
<1>6. ASSUME NextSharing
      PROVE  /\ UNCHANGED connections
             /\ \/ Declare
                \/ allocPhase \in {"build", "done"} /\ AllocateSync
                \/ allocPhase = "build" /\ (Connect \/ MakeValid \/ ConnectSync)
  <2>1. ~ AnalyzeSharing
    BY DEF AnalyzeSharing, Fail, Building
  <2>2. ~ CheckInputs /\ ~ CheckInputDriver
        /\ (Connect \/ MakeValid \/ ConnectSync => allocPhase = "build")
    BY <1>3, SharingPhase
  <2>3. Declare \/ AllocateSync \/ Connect \/ MakeValid \/ ConnectSync
        => UNCHANGED connections
    BY DEF Declare, AllocateSync, Connect, MakeValid, ConnectSync
  <2>4. QED
    BY <1>6, <2>1, <2>2, <2>3 DEF NextSharing, AllocateSync
<1>7. CASE NextElements /\ UNCHANGED <<rtlVars, connections, syncAdded>>
  BY <1>1, <1>2, <1>5, <1>7 DEF BuildStep, Building, StaticVars
<1>8. CASE NextDatapath /\ UNCHANGED <<elementVars, connections, syncAdded>>
  BY <1>1, <1>2, <1>4, <1>8 DEF BuildStep, Building, StaticVars
<1>9. CASE NextSharing
  BY <1>1, <1>2, <1>6, <1>9 DEF BuildStep, Building, StaticVars, AllocateSync
<1>10. CASE UNCHANGED allocVars
  BY <1>1, <1>2, <1>10 DEF BuildStep, Building, StaticVars, allocVars
<1>11. QED
  BY <1>7, <1>8, <1>9, <1>10 DEF HlsNext, HlsTerminated, NextAllocator, Scheduling, hlsVars

\* The analysis adds only connections between two elements.
LEMMA SoundNext ==
  AllocInput /\ AllocOK /\ ConnectionsSound /\ [HlsNext]_hlsVars => ConnectionsSound'
<1> SUFFICES ASSUME AllocInput, AllocOK, ConnectionsSound, [HlsNext]_hlsVars
             PROVE  ConnectionsSound'
  OBVIOUS
<1>1. CASE ~ Analyzed'
  <2>1. CASE AllocFailed'
    BY <1>1, <2>1 DEF AllocFailed, ConnectionsSound, Analyzed
  <2>2. CASE ~ AllocFailed'
    <3>1. ~ Analyzed /\ ~ AllocFailed /\ connections' = connections
      BY <1>1, <2>2, EarlyStep
    <3>2. allocPhase \in {"idle", "fsms", "pipelines", "elements"}
          \/ allocPhase' \notin {"idle", "fsms", "pipelines", "elements"}
      <4>1. CASE UNCHANGED allocPhase
        BY <4>1
      <4>2. CASE NextElements
        BY <4>2 DEF NextElements, Discover, DiscoverFsm, DiscoverState, FloodNetInSameCycle,
           FsmDiscovered, FsmsDiscovered, AddNodeToPipeline, PipelineDiscovered,
           LoopOverStages, LoopOverNodes, NextIs, Analyzed, Continue, Fail
      <4>3. CASE NextDatapath
        BY <3>1, <4>3, DatapathPhase, HeadIs DEF NextIs, Analyzed
      <4>4. CASE NextSharing
        <5>1. CASE AnalyzeSharing
          BY <5>1 DEF AnalyzeSharing
        <5>2. CASE Declare \/ AllocateSync
          BY <3>1, <5>2 DEF Declare, AllocateSync, Analyzed
        <5>3. QED
          BY <3>1, <4>4, <5>1, <5>2, SharingPhase DEF NextSharing, NextIs, Analyzed
      <4>5. QED
        BY <4>1, <4>2, <4>3, <4>4 DEF HlsNext, HlsTerminated, NextAllocator, Scheduling,
           hlsVars, allocVars
    <3>3. QED
      BY <1>1, <3>1, <3>2 DEF ConnectionsSound, Analyzed
  <2>3. QED
    BY <2>1, <2>2
<1>2. CASE allocPhase' = "analyze"
  <2>1. /\ UNCHANGED <<net, scheduledIn, scheduledOut, archElements>>
        /\ \A d, m : Crosses(d, m)' = Crosses(d, m)
    BY <1>2, AnalyzeStep, CrossesUnchanged
  <2>2. ASSUME \A c \in ToSet(connections') : Crosses(c[1], c[2]),
               \A t \in Tasks' : t.step = "input" => t.node \in net.dataDeps[t.user]
        PROVE  ConnectionsSound'
    BY <1>2, <2>1, <2>2 DEF ConnectionsSound
  <2>3. CASE AnalyzeSharing /\ allocPhase = "elements"
    <3>1. todo' = OfElements /\ connections' = connections
      BY <1>2, <2>3 DEF AnalyzeSharing, Fail
    <3>2. \A t \in Tasks' : t.step = "element"
      BY <3>1, OfElementsFacts DEF Tasks, AllocOK
    <3>3. ToSet(connections') = {}
      BY <2>3, <3>1, NoTask DEF ConnectionsSound
    <3>4. QED
      BY <2>2, <3>2, <3>3
  <2>4. CASE allocPhase = "analyze"
    <3>1. /\ \A c \in ToSet(connections) : Crosses(c[1], c[2])
          /\ \A t \in Tasks : t.step = "input" => t.node \in net.dataDeps[t.user]
      BY <2>4 DEF ConnectionsSound, Analyzed
    <3>2. CASE LoopOverStages /\ UNCHANGED connections
      BY <2>2, <3>1, <3>2, StagesEffect
    <3>3. CASE LoopOverNodes /\ UNCHANGED connections
      BY <2>2, <2>4, <3>1, <3>3, NodesEffect
    <3>4. CASE CheckInputs
      BY <2>1, <2>2, <3>1, <3>4, InputsEffect DEF Replaced
    <3>5. CASE CheckInputDriver
      <4>1. ~ AllocFailed'
        BY <1>2 DEF AllocFailed
      <4>2. /\ Head(todo) \in Tasks /\ Head(todo).step = "input"
                 /\ \A t \in Tasks' : t \in Tasks
            /\ \/ connections' = connections
               \/ /\ ~ IsConst(Head(todo).node)
                       /\ Owner(Head(todo).node) # Owner(Head(todo).user)
                  /\ ToSet(connections') = ToSet(connections)
                       \cup {<<Head(todo).node, Head(todo).user>>}
        BY <3>5, <4>1, DriverEffect DEF Replaced
      <4>3. QED
        BY <2>2, <3>1, <4>2 DEF Crosses
    <3>6. CASE UNCHANGED <<todo, connections>>
      BY <2>2, <3>1, <3>6 DEF Tasks
    <3>7. QED
      BY <1>2, <2>3, <2>4, <3>2, <3>3, <3>4, <3>5, <3>6, AnalyzeStep
  <2>5. QED
    BY <1>2, <2>3, <2>4, AnalyzeStep
<1>3. CASE Building'
  <2>1. UNCHANGED StaticVars /\ Analyzed
    BY <1>3, BuildingStep DEF BuildStep, Building, Declare, Analyzed
  <2>2. \A d, m : Crosses(d, m)' = Crosses(d, m)
    BY <2>1, CrossesUnchanged DEF StaticVars
  <2>3. QED
    BY <1>3, <2>1, <2>2 DEF ConnectionsSound, Building, StaticVars
<1>4. QED
  BY <1>1, <1>2, <1>3 DEF Analyzed, Building

\* The element of a node exists, and the node is in one of its stages.
LEMMA OwnerFacts ==
  ASSUME archElements \in Seq(ElementType), NodesCovered, Split, NEW n \in Node
  PROVE  /\ Owner(n) \in DOMAIN archElements
         /\ \E s \in DOMAIN archElements[Owner(n)].nodes :
              n \in ToSet(archElements[Owner(n)].nodes[s])
<1>1. Owner(n) \in DOMAIN archElements /\ IsOwner(Owner(n), n)
  BY DEF NodesCovered, Owner
<1>2. QED
  BY <1>1 DEF IsOwner, NodesOf

\* ConnectionsComplete, for the inputs of one node
CompleteFor(m) ==
  \A d \in net.dataDeps[m] :
    OfInput("input", d, m) \/ (Crosses(d, m) => <<d, m>> \in ToSet(connections))

\* The analysis misses no value which crosses elements: it goes through all
\* elements, stages, nodes and inputs.
LEMMA CompleteNext ==
  AllocInput /\ AllocOK /\ NodesCovered /\ ConnectionsComplete /\ [HlsNext]_hlsVars
    => ConnectionsComplete'
<1> SUFFICES ASSUME AllocInput, AllocOK, NodesCovered, ConnectionsComplete, [HlsNext]_hlsVars
             PROVE  ConnectionsComplete'
  OBVIOUS
<1>1. CASE allocPhase' = "analyze"
  <2>1. /\ UNCHANGED <<net, scheduledIn, scheduledOut, archElements>>
        /\ \A d, m : Crosses(d, m)' = Crosses(d, m)
    BY <1>1, AnalyzeStep, CrossesUnchanged
  <2>2. ASSUME \A e \in DOMAIN archElements : \A s \in DOMAIN archElements[e].nodes :
                 \A m \in ToSet(archElements[e].nodes[s]) :
                   OfElement(e)' \/ OfStage(e, s)' \/ OfNode("inputs", e, m)'
                       \/ CompleteFor(m)'
        PROVE  ConnectionsComplete'
    BY <1>1, <2>1, <2>2 DEF ConnectionsComplete, CompleteFor
  <2>3. CASE AnalyzeSharing /\ allocPhase = "elements"
    <3>1. todo' = OfElements
      BY <1>1, <2>3 DEF AnalyzeSharing, Fail
    <3>2. \A e \in DOMAIN archElements : [step |-> "element", elm |-> e] \in Tasks'
      BY <3>1, OfElementsFacts DEF Tasks, AllocOK
    <3>3. \A e \in DOMAIN archElements : OfElement(e)'
      BY <3>2 DEF OfElement
    <3>4. QED
      BY <2>2, <3>3
  <2>4. CASE allocPhase = "analyze"
    <3> SUFFICES ASSUME NEW e \in DOMAIN archElements, NEW s \in DOMAIN archElements[e].nodes,
                        NEW m \in ToSet(archElements[e].nodes[s])
                 PROVE  OfElement(e)' \/ OfStage(e, s)' \/ OfNode("inputs", e, m)'
                          \/ CompleteFor(m)'
      BY <2>2
    <3>1. OfElement(e) \/ OfStage(e, s) \/ OfNode("inputs", e, m) \/ CompleteFor(m)
      BY <2>4 DEF ConnectionsComplete, CompleteFor
    <3>2. ASSUME ToSet(connections) \subseteq ToSet(connections'), UNCHANGED net,
                 \A d \in net.dataDeps[m] : OfInput("input", d, m) =>
                    OfInput("input", d, m)'
                        \/ (Crosses(d, m) => <<d, m>> \in ToSet(connections'))
          PROVE  CompleteFor(m) => CompleteFor(m)'
      BY <2>1, <3>2 DEF CompleteFor
    <3>3. ASSUME ToSet(connections) \subseteq ToSet(connections'), UNCHANGED net,
                 \A t \in Tasks : t.step = "input" => t \in Tasks'
          PROVE  CompleteFor(m) => CompleteFor(m)'
      <4>1. \A d : OfInput("input", d, m) => OfInput("input", d, m)'
        BY <3>3 DEF OfInput
      <4>2. QED
        BY <3>2, <3>3, <4>1
    <3>4. CASE LoopOverStages /\ UNCHANGED connections
      <4> DEFINE h == Head(todo)
      <4>1. /\ h.step = "element" /\ \A t \in Tasks : t = h \/ t \in Tasks'
            /\ h.elm = e => [step |-> "stage", elm |-> e, stage |-> s] \in Tasks'
        BY <3>4, StagesEffect
      <4> HIDE DEF h
      <4>2. OfElement(e) => OfElement(e)' \/ h.elm = e
        BY <4>1 DEF OfElement
      <4>3. h.elm = e => OfStage(e, s)'
        BY <4>1 DEF OfStage
      <4>4. /\ OfStage(e, s) => OfStage(e, s)'
            /\ OfNode("inputs", e, m) => OfNode("inputs", e, m)'
        BY <4>1 DEF OfStage, OfNode
      <4>5. CompleteFor(m) => CompleteFor(m)'
        BY <2>1, <3>3, <3>4, <4>1
      <4>6. QED
        BY <3>1, <4>2, <4>3, <4>4, <4>5
    <3>5. CASE LoopOverNodes /\ UNCHANGED connections
      <4> DEFINE h == Head(todo)
      <4>1. /\ h.step = "stage" /\ \A t \in Tasks : t = h \/ t \in Tasks'
            /\ h.elm = e /\ h.stage = s
                 => [step |-> "inputs", elm |-> e, node |-> m] \in Tasks'
        BY <2>4, <3>5, NodesEffect
      <4> HIDE DEF h
      <4>2. OfStage(e, s) => OfStage(e, s)' \/ (h.elm = e /\ h.stage = s)
        BY <4>1 DEF OfStage
      <4>3. h.elm = e /\ h.stage = s => OfNode("inputs", e, m)'
        BY <4>1 DEF OfNode
      <4>4. /\ OfElement(e) => OfElement(e)'
            /\ OfNode("inputs", e, m) => OfNode("inputs", e, m)'
        BY <4>1 DEF OfElement, OfNode
      <4>5. CompleteFor(m) => CompleteFor(m)'
        BY <2>1, <3>3, <3>5, <4>1
      <4>6. QED
        BY <3>1, <4>2, <4>3, <4>4, <4>5
    <3>6. CASE CheckInputs
      <4> DEFINE h == Head(todo)
                 S == {[step |-> "input", node |-> d, user |-> h.node] :
                     d \in net.dataDeps[h.node]}
      <4>1. h.step = "inputs" /\ connections' = connections /\ Replaced(S)
        BY <2>1, <3>6, InputsEffect
      <4>2. h.node = m => CompleteFor(m)'
        <5>1. h.node = m => \A d \in net.dataDeps[m] :
              [step |-> "input", node |-> d, user |-> m] \in Tasks'
          BY <4>1 DEF Replaced
        <5>2. h.node = m => \A d \in net.dataDeps[m] : OfInput("input", d, m)'
          BY <5>1 DEF OfInput
        <5>3. QED
          BY <2>1, <5>2 DEF CompleteFor
      <4>3. \A t \in Tasks : t = h \/ t \in Tasks'
        BY <4>1 DEF Replaced
      <4> HIDE DEF h, S
      <4>4. OfNode("inputs", e, m) => OfNode("inputs", e, m)' \/ h.node = m
        BY <4>3 DEF OfNode
      <4>5. /\ OfElement(e) => OfElement(e)'
            /\ OfStage(e, s) => OfStage(e, s)'
        BY <4>1, <4>3 DEF OfElement, OfStage
      <4>6. CompleteFor(m) => CompleteFor(m)'
        BY <2>1, <3>3, <4>1, <4>3
      <4>7. QED
        BY <3>1, <4>2, <4>4, <4>5, <4>6
    <3>7. CASE CheckInputDriver
      <4> DEFINE h == Head(todo)
      <4>1. ~ AllocFailed'
        BY <1>1 DEF AllocFailed
      <4>2. /\ h.step = "input" /\ \A t \in Tasks : t = h \/ t \in Tasks'
            /\ \/ ~ (~ IsConst(h.node) /\ Owner(h.node) # Owner(h.user))
                    /\ connections' = connections
               \/ ToSet(connections') = ToSet(connections) \cup {<<h.node, h.user>>}
        BY <3>7, <4>1, DriverEffect DEF Replaced
      <4> HIDE DEF h
      <4>3. /\ OfElement(e) => OfElement(e)'
            /\ OfStage(e, s) => OfStage(e, s)'
            /\ OfNode("inputs", e, m) => OfNode("inputs", e, m)'
        BY <4>2 DEF OfElement, OfStage, OfNode
      <4>4. ASSUME NEW d \in net.dataDeps[m], OfInput("input", d, m)
            PROVE  OfInput("input", d, m)'
                     \/ (Crosses(d, m) => <<d, m>> \in ToSet(connections'))
        <5>1. PICK t \in Tasks : t.step = "input" /\ t.node = d /\ t.user = m
          BY <4>4 DEF OfInput
        <5>2. CASE t \in Tasks'
          BY <5>1, <5>2 DEF OfInput
        <5>3. CASE t = h
          BY <4>2, <5>1, <5>3 DEF Crosses
        <5>4. QED
          BY <4>2, <5>2, <5>3
      <4>5. CompleteFor(m) => CompleteFor(m)'
        BY <2>1, <3>2, <4>2, <4>4
      <4>6. QED
        BY <3>1, <4>3, <4>5
    <3>8. CASE UNCHANGED <<todo, connections>>
      <4>1. Tasks' = Tasks
        BY <3>8 DEF Tasks
      <4>2. CompleteFor(m) => CompleteFor(m)'
        BY <2>1, <3>3, <3>8, <4>1
      <4>3. QED
        BY <3>1, <4>1, <4>2 DEF OfElement, OfStage, OfNode
    <3>9. QED
      BY <1>1, <2>4, <3>4, <3>5, <3>6, <3>7, <3>8, AnalyzeStep DEF AnalyzeSharing
  <2>5. QED
    BY <1>1, <2>3, <2>4, AnalyzeStep
<1>2. CASE Building'
  <2>1. UNCHANGED StaticVars
    BY <1>2, BuildingStep
  <2>2. \A d, m : Crosses(d, m)' = Crosses(d, m)
    BY <2>1, CrossesUnchanged DEF StaticVars
  <2>3. CASE BuildStep
    BY <1>2, <2>1, <2>2, <2>3 DEF ConnectionsComplete, Building, BuildStep, StaticVars
  <2>4. CASE Declare
    <3>1. allocPhase = "analyze" /\ Tasks = {}
      BY <2>4, NoTask DEF Declare, Tasks
    <3>2. ASSUME NEW m \in Node, NEW d \in net.dataDeps[m]
          PROVE  Crosses(d, m) => <<d, m>> \in ToSet(connections)
      <4>1. PICK e \in DOMAIN archElements : \E s \in DOMAIN archElements[e].nodes :
              m \in ToSet(archElements[e].nodes[s])
        BY <3>1, OwnerFacts DEF Split, AllocOK
      <4>2. QED
        BY <3>1, <3>2, <4>1 DEF ConnectionsComplete, OfElement, OfStage, OfNode, OfInput
    <3>3. QED
      BY <1>2, <2>1, <2>2, <3>2 DEF ConnectionsComplete, Building, StaticVars
  <2>5. QED
    BY <1>2, <2>3, <2>4, BuildingStep
<1>3. CASE allocPhase' # "analyze" /\ ~ Building'
  BY <1>3 DEF ConnectionsComplete, Building
<1>4. QED
  BY <1>1, <1>2, <1>3

\* Nothing is built before "build".
LEMMA NothingNext ==
  AllocInput /\ AllocOK /\ NothingBuilt /\ [HlsNext]_hlsVars => NothingBuilt'
<1> SUFFICES ASSUME AllocInput, AllocOK, NothingBuilt, [HlsNext]_hlsVars, ~ Building',
    ~ AllocFailed'
             PROVE  (uses = {} /\ drives = {} /\ syncAdded = {})'
  BY DEF NothingBuilt
<1>1. CASE ~ Analyzed'
  <2>1. ~ Analyzed /\ ~ AllocFailed /\ UNCHANGED <<connections, uses, drives, syncAdded>>
    BY <1>1, EarlyStep
  <2>2. QED
    BY <2>1 DEF NothingBuilt, Building, Analyzed
<1>2. CASE allocPhase' = "analyze"
  <2>1. UNCHANGED <<uses, drives, syncAdded>> /\ allocPhase \in {"elements", "analyze"}
    BY <1>2, AnalyzeStep
  <2>2. QED
    BY <2>1 DEF NothingBuilt, Building, AllocFailed
<1>3. QED
  BY <1>1, <1>2 DEF Analyzed, Building

-----------------------------------------------------------------------------
\* The times and the indexes of the registers.

\* The start of a clk with epsilon added is in this clk.
LEMMA ClkOfSignal ==
  ASSUME NEW k \in Int
  PROVE  start_clk(k * Clk + Eps) = k
<1>1. k * Clk + Eps \in Int /\ k * Clk <= k * Clk + Eps /\ k * Clk + Eps < k * Clk + Clk
  BY SchedulerAssumption DEF Eps
<1>2. QED
  BY <1>1, ClkUnique

\* When both times are the same, so are their clks.
LEMMA IndexIsDistance ==
  ASSUME NEW tir, NEW time \in Int, tir.timeOffset \in Int
  PROVE  IndexFor(tir, time) = start_clk(time + Eps) - start_clk(tir.timeOffset)
<1>1. time + Eps \in Int
  BY DEF Eps
<1>2. start_clk(time + Eps) \in Int /\ start_clk(tir.timeOffset) \in Int
  BY <1>1, ClkBounds
<1>3. CASE tir.timeOffset = time + Eps
  BY <1>2, <1>3 DEF IndexFor
<1>4. CASE tir.timeOffset # time + Eps
  BY <1>4 DEF IndexFor
<1>5. QED
  BY <1>3, <1>4

\* A set of integers with an upper bound has a largest member.
LEMMA LargestOfBounded ==
  ASSUME NEW S \in SUBSET Int, S # {}, NEW b \in Int, \A c \in S : c <= b
  PROVE  Largest(S) \in S
<1> DEFINE T == {b - c : c \in S}
<1>1. T \in SUBSET Nat /\ T # {}
  <2>1. \A c \in S : b - c \in Nat
    OBVIOUS
  <2>2. PICK c \in S : TRUE
    OBVIOUS
  <2>3. b - c \in T
    BY <2>2
  <2>4. \A x \in T : \E d \in S : x = b - d
    OBVIOUS
  <2> HIDE DEF T
  <2>5. QED
    BY <2>1, <2>3, <2>4
<1>2. PICK x \in T : \A y \in T : x <= y
  <2> HIDE DEF T
  <2>1. QED
    BY <1>1, LeastNat
<1>3. PICK c \in S : x = b - c
  BY <1>2
<1>4. \A d \in S : b - c <= b - d
  BY <1>2, <1>3
<1>5. \A d \in S : d <= c
  BY <1>4
<1>6. IsMax(c, S)
  BY <1>5 DEF IsMax
<1>7. QED
  BY <1>6 DEF Largest, IsMax

\* A connection is between nodes of two elements.
LEMMA ConnectionFacts ==
  ASSUME AllocInput, AllocOK, NodesCovered, ConnectionsSound, Analyzed,
         NEW c \in ToSet(connections)
  PROVE  /\ c[1] \in Node /\ c[2] \in Node /\ c = <<c[1], c[2]>>
         /\ Crosses(c[1], c[2])
         /\ phase = "done"
         /\ Owner(c[1]) \in DOMAIN archElements
<1>1. c \in Node \X Node
  BY SeqIsSeq DEF AllocOK
<1>2. phase = "done" /\ Split
  BY DEF AllocOK, Analyzed, Split
<1>3. QED
  BY <1>1, <1>2, OwnerFacts DEF ConnectionsSound, AllocOK

\* The set of uses of a connection has a first one.
LEMMA FirstUseTyped ==
  ASSUME AllocInput, AllocOK, NodesCovered, ConnectionsSound, Analyzed,
         NEW c \in ToSet(connections)
  PROVE  FirstUse(c[1], Owner(c[2])) \in Int
<1> DEFINE T ==
    {scheduledIn[k[2]] :
    k \in {j \in ToSet(connections) : j[1] = c[1] /\ Owner(j[2]) = Owner(c[2])}}
<1>1. T \in SUBSET Nat /\ T # {}
  BY ConnectionFacts DEF AllocInput
<1>2. FirstUse(c[1], Owner(c[2])) = CHOOSE t \in T : IsMin(t, T)
  BY DEF FirstUse
<1> HIDE DEF T
<1>3. \E t \in T : IsMin(t, T)
  BY <1>1, LeastNat DEF IsMin
<1>4. FirstUse(c[1], Owner(c[2])) \in T
  BY <1>2, <1>3
<1>5. \A t \in T : t \in Int
  BY <1>1
<1>6. QED
  BY <1>4, <1>5

\* The time a value is handed over is an integer, also if it was moved to a
\* clk in which its FSM has a state.
LEMMA FirstUseTimeTyped ==
  ASSUME AllocInput, AllocOK, NodesCovered, ConnectionsSound, Analyzed, NEW x \in Crossings
  PROVE  FirstUseTime(x[2], x[1]) \in Int /\ HandedAt(x[2], x[1]) \in Int
<1>1. PICK c \in ToSet(connections) : x = <<Owner(c[2]), c[1]>>
  BY DEF Crossings
<1> DEFINE o == c[1]
           dst == Owner(c[2])
           u == FirstUse(o, dst)
           S == {OutClk(o)} \cup {k \in ToSet(archElements[Owner(o)].clks) :
                                    OutClk(o) <= k /\ k <= start_clk(u)}
<1>2. o \in Node /\ Owner(o) \in DOMAIN archElements /\ u \in Int
  BY ConnectionFacts, FirstUseTyped
<1>3. OutClk(o) \in Int /\ start_clk(u) \in Int
  BY <1>2, NetFacts, ClkBounds
<1>4. ToSet(archElements[Owner(o)].clks) \subseteq Int
  BY <1>2, ElementFacts, SeqIsSeq DEF AllocOK
<1>5. S \in SUBSET Int /\ S # {}
  BY <1>3, <1>4
<1>6. \E b \in Int : \A k \in S : k <= b
  <2>1. \A k \in S : k <= OutClk(o) \/ k <= start_clk(u)
    BY <1>3
  <2> HIDE DEF S
  <2>2. CASE OutClk(o) <= start_clk(u)
    <3>1. \A k \in S : k <= start_clk(u)
      BY <1>3, <1>5, <2>1, <2>2
    <3>2. QED
      BY <1>3, <3>1
  <2>3. CASE ~ (OutClk(o) <= start_clk(u))
    <3>1. \A k \in S : k <= OutClk(o)
      BY <1>3, <1>5, <2>1, <2>3
    <3>2. QED
      BY <1>3, <3>1
  <2>4. QED
    BY <2>2, <2>3
<1>7. ClosestClkWithState(o, u) = Largest(S)
  BY DEF ClosestClkWithState
<1> HIDE DEF S, u
<1>8. ClosestClkWithState(o, u) \in Int
  BY <1>5, <1>6, <1>7, LargestOfBounded
<1>9. ClosestClkWithState(o, u) * Clk + Eps \in Int
  BY <1>8, SchedulerAssumption DEF Eps
<1>10. FirstUseTime(o, dst) \in Int
  BY <1>2, <1>9 DEF FirstUseTime, u
<1>11. QED
  BY <1>1, <1>10, ClkBounds DEF HandedAt

\* The time with which a chain begins is an integer.
LEMMA TirTimeTyped ==
  ASSUME AllocInput, AllocOK, NodesCovered, ConnectionsSound, Analyzed, NEW e, NEW d \in Node
  PROVE  TirTime(e, d) \in Int
<1>1. CASE <<e, d>> \in Crossings
  <2> DEFINE x == <<e, d>>
  <2>1. FirstUseTime(x[2], x[1]) \in Int
    BY <1>1, FirstUseTimeTyped
  <2>2. QED
    BY <1>1, <2>1 DEF TirTime
<1>2. CASE <<e, d>> \notin Crossings
  <2>1. scheduledOut[d] \in Int /\ scheduledOut[d] + Eps \in Int
    BY NetFacts DEF Eps
  <2>2. QED
    BY <1>2, <2>1 DEF TirTime
<1>3. QED
  BY <1>1, <1>2

\* In its own element, a value starts with the clk it was scheduled for.
LEMMA OwnIsNoCrossing ==
  ASSUME AllocInput, AllocOK, NodesCovered, ConnectionsSound, Analyzed, NEW n
  PROVE  <<Owner(n), n>> \notin Crossings
<1>1. SUFFICES ASSUME NEW c \in ToSet(connections), <<Owner(n), n>> = <<Owner(c[2]), c[1]>>
               PROVE  FALSE
  BY DEF Crossings
<1>2. Owner(c[1]) # Owner(c[2])
  BY ConnectionFacts DEF Crosses
<1>3. QED
  BY <1>1, <1>2

-----------------------------------------------------------------------------
\* What each step of "build" does, when it does not fail.

\* A task with an element and a node
TaskOf(step, e, n) == [step |-> step, elm |-> e, node |-> n]

\* OnEach of one node
LEMMA OneCall ==
  ASSUME NEW n, NEW step, NEW e
  PROVE  IsSeq(OnEach(<<n>>, step, e)) /\ ToSet(OnEach(<<n>>, step, e)) = {TaskOf(step, e, n)}
<1>1. IsSeq(<<n>>) /\ ToSet(<<n>>) = {n}
  BY OneTask
<1> DEFINE r == OnEach(<<n>>, step, e)
<1>2. IsSeq(r) /\ \A x : x \in ToSet(r) <=> \E m \in {n} : x = TaskOf(step, e, m)
  BY <1>1, OnEachFacts DEF TaskOf
<1> HIDE DEF r
<1>3. \A x : x \in ToSet(r) <=> x \in {TaskOf(step, e, n)}
  BY <1>2
<1>4. ToSet(r) = {TaskOf(step, e, n)}
  BY <1>3
<1>5. QED
  BY <1>2, <1>4 DEF r

\* OnEach of a listed set of nodes
LEMMA EachCall ==
  ASSUME NEW S \in SUBSET Node, NEW step, NEW e
  PROVE  /\ IsSeq(OnEach(Listed[S], step, e))
         /\ ToSet(OnEach(Listed[S], step, e)) = {TaskOf(step, e, n) : n \in S}
<1>1. IsSeq(Listed[S]) /\ ToSet(Listed[S]) = S
  BY ListedFacts
<1> DEFINE r == OnEach(Listed[S], step, e)
<1>2. IsSeq(r) /\ \A x : x \in ToSet(r) <=> \E m \in S : x = TaskOf(step, e, m)
  BY <1>1, OnEachFacts DEF TaskOf
<1> HIDE DEF r
<1>3. ToSet(r) = {TaskOf(step, e, n) : n \in S}
  BY <1>2
<1>4. QED
  BY <1>2, <1>3 DEF r

\* The first task, for a step of "build".
LEMMA TaskFacts ==
  ASSUME AllocOK, NEW step, NextIs(step)
  PROVE  /\ TodoOK /\ todo # <<>> /\ Head(todo).step = step
         /\ step \in {"after", "used", "node", "alloc", "operand", "get", "create", "drive",
                      "io",
                      "connect", "makeValid"} => Head(todo).node \in Node
         /\ step \in {"operand", "connect"} => Head(todo).user \in Node
<1>1. TodoOK
  BY DEF AllocOK
<1>2. QED
  BY <1>1, HeadIs DEF TaskOK

\* get gives its user the register for the time, and extends the chain up to it.
LEMMA GetEffect ==
  ASSUME AllocOK, Get, ~ AllocFailed'
  PROVE  LET h == Head(todo)
             x == <<h.elm, h.node>>
             index == IndexFor(netNodeToRtl[x], h.time)
         IN  /\ h.step = "get" /\ h.node \in Node /\ Replaced({})
             /\ x \in DOMAIN netNodeToRtl
             /\ netNodeToRtl' = [netNodeToRtl EXCEPT ![x] = Extended(@, index)]
             /\ uses' = uses
                  \cup {[elm |-> h.elm, value |-> h.node, user |-> h.user, index |-> index]}
             /\ UNCHANGED <<stageSignals, drives>>
<1>1. NextIs("get") /\ Continue(<<>>)
  BY DEF Get, Fail, AllocFailed
<1>2. Replaced({})
  BY <1>1, TaskFacts, ContinueReplaces, NoTask
<1>3. Head(todo).step = "get" /\ Head(todo).node \in Node
  BY <1>1, TaskFacts
<1>4. QED
  BY <1>2, <1>3 DEF Get, Fail, AllocFailed

\* Registering a value in stages adds no stage.
LEMMA RegisterEffect ==
  ASSUME NEW d, NEW stages, NEW tasks, Register(d, stages, tasks), ~ AllocFailed'
  PROVE  Continue(tasks) /\ DOMAIN stageSignals' = DOMAIN stageSignals
  BY DEF Register, Fail, AllocFailed

\* _afterOutputUsed changes neither chains nor what was recorded.
LEMMA UsedEffect ==
  ASSUME AllocOK, AfterOutputUsed, ~ AllocFailed'
  PROVE  /\ Head(todo).step = "used" /\ Replaced({})
         /\ DOMAIN stageSignals' = DOMAIN stageSignals
         /\ UNCHANGED <<netNodeToRtl, uses, drives>>
<1>1. NextIs("used") /\ \E d, stages : Register(d, stages, <<>>)
  BY DEF AfterOutputUsed
<1>2. Continue(<<>>) /\ DOMAIN stageSignals' = DOMAIN stageSignals
  BY <1>1, RegisterEffect
<1>3. QED
  BY <1>1, <1>2, TaskFacts, ContinueReplaces, NoTask DEF AfterOutputUsed

\* _afterNodeInstantiated goes on with the operands.
LEMMA AfterEffect ==
  ASSUME AllocInput, AllocOK, AfterNodeInstantiated, ~ AllocFailed'
  PROVE  LET h == Head(todo)
         IN  /\ h.step = "after"
             /\ Replaced({TaskOf("used", h.elm, d) : d \in net.dataDeps[h.node]})
             /\ DOMAIN stageSignals' = DOMAIN stageSignals
             /\ UNCHANGED <<netNodeToRtl, uses, drives>>
<1> DEFINE h == Head(todo)
           tasks == OnEach(DataDeps(h.node), "used", h.elm)
<1>1. /\ NextIs("after")
      /\ \/ Continue(tasks) /\ UNCHANGED stageSignals
         \/ \E stages : Register(h.node, stages, tasks)
  BY DEF AfterNodeInstantiated, Fail, AllocFailed
<1>2. h.node \in Node /\ h.step = "after" /\ TodoOK /\ todo # <<>>
  BY <1>1, TaskFacts
<1> HIDE DEF h
<1>3. IsSeq(tasks) /\ ToSet(tasks) = {TaskOf("used", h.elm, d) : d \in net.dataDeps[h.node]}
  <2>1. net.dataDeps[h.node] \in SUBSET Node
    BY <1>2, NetFacts
  <2>2. QED
    BY <2>1, EachCall DEF DataDeps
<1> HIDE DEF tasks
<1>4. Continue(tasks) /\ DOMAIN stageSignals' = DOMAIN stageSignals
  BY <1>1, RegisterEffect
<1>5. Replaced({TaskOf("used", h.elm, d) : d \in net.dataDeps[h.node]})
  BY <1>2, <1>3, <1>4, ContinueReplaces
<1>6. QED
  BY <1>2, <1>4, <1>5 DEF AfterNodeInstantiated, h

\* instantiateHlsNetNodeOutInTime allocates the operand if necessary and gets it.
LEMMA OperandEffect ==
  ASSUME AllocOK, InstantiateOutInTime, ~ AllocFailed'
  PROVE  LET h   == Head(todo)
             get == IF IsConst(h.node) THEN {}
                    ELSE {GetCall(h.elm, h.node, scheduledIn[h.user], <<"node", h.user>>)}
         IN  /\ h.step = "operand" /\ h.node \in Node /\ h.user \in Node
             /\ \/ Replaced(get)
                \/ Replaced({TaskOf("alloc", h.elm, h.node), TaskOf("after", h.elm, h.node)}
                     \cup get)
             /\ UNCHANGED rtlVars
<1> DEFINE h   == Head(todo)
           call == IF IsConst(h.node) THEN <<>>
                   ELSE <<GetCall(h.elm, h.node, scheduledIn[h.user], <<"node", h.user>>)>>
           get == IF IsConst(h.node) THEN {}
                  ELSE {GetCall(h.elm, h.node, scheduledIn[h.user], <<"node", h.user>>)}
           x == OnEach(<<h.node>>, "alloc", h.elm)
           y == OnEach(<<h.node>>, "after", h.elm)
           a == TaskOf("alloc", h.elm, h.node)
           b == TaskOf("after", h.elm, h.node)
<1>1. NextIs("operand") /\ UNCHANGED rtlVars /\ (Continue(call) \/ Continue(x \o y \o call))
  BY DEF InstantiateOutInTime, Fail, AllocFailed
<1>2. h.step = "operand" /\ h.node \in Node /\ h.user \in Node /\ TodoOK /\ todo # <<>>
  BY <1>1, TaskFacts
<1>3. IsSeq(call) /\ ToSet(call) = get
  BY NoTask, OneTask
<1>4. IsSeq(x) /\ IsSeq(y) /\ ToSet(x) = {a} /\ ToSet(y) = {b}
  BY OneCall
<1> HIDE DEF call, x, y, get, a, b
<1>5. IsSeq(x \o y \o call) /\ ToSet(x \o y \o call) = {a, b} \cup get
  <2>1. IsSeq(x \o y) /\ ToSet(x \o y) = {a, b}
    BY <1>4, Joined
  <2>2. QED
    BY <1>3, <2>1, Joined
<1>6. Replaced(get) \/ Replaced({a, b} \cup get)
  BY <1>1, <1>2, <1>3, <1>5, ContinueReplaces
<1>7. QED
  BY <1>1, <1>2, <1>6 DEF get, a, b

\* The tasks of an operator or a write.
OperandTasks(e, n) ==
    {[step |-> "operand", elm |-> e, node |-> d, user |-> n] : d \in net.dataDeps[n]}

\* allocateRtlInstance of a node that is there already, of a read, of a write
\* and of an operator
LEMMA AllocEffect ==
  ASSUME AllocInput, AllocOK, AllocateRtlInstance, ~ AllocFailed'
  PROVE  LET e == Head(todo).elm
             n == Head(todo).node
         IN  /\ Head(todo).step = "alloc" /\ n \in Node
             /\ \/ /\ HasRtl(e, n) \/ net.kind[n] \notin {"io", "op"}
                   /\ Replaced({}) /\ UNCHANGED netNodeToRtl
                \/ /\ ~ HasRtl(e, n) /\ IsRead(n)
                   /\ Replaced({TaskOf("alloc", e, d) : d \in Deps(n)})
                        /\ NewTir(e, n, scheduledOut[n])
                \/ /\ ~ HasRtl(e, n) /\ IsWrite(n)
                   /\ Replaced(OperandTasks(e, n) \cup {TaskOf("drive", e, n)})
                        /\ UNCHANGED netNodeToRtl
                \/ /\ ~ HasRtl(e, n) /\ net.kind[n] = "op"
                   /\ Replaced(OperandTasks(e, n) \cup {TaskOf("create", e, n)})
                        /\ UNCHANGED netNodeToRtl
             /\ UNCHANGED <<stageSignals, uses, drives>>
<1> DEFINE e == Head(todo).elm
           n == Head(todo).node
           x == Operands(e, n)
<1>1. NextIs("alloc") /\ UNCHANGED <<stageSignals, uses, drives>>
  BY DEF AllocateRtlInstance
<1>2. Head(todo).step = "alloc" /\ n \in Node /\ TodoOK /\ todo # <<>>
  BY <1>1, TaskFacts
<1>3. ASSUME Continue(<<>>)
      PROVE  Replaced({})
  BY <1>2, <1>3, NoTask, ContinueReplaces
<1>4. ASSUME Continue(OnEach(Listed[Deps(n)], "alloc", e))
      PROVE  Replaced({TaskOf("alloc", e, d) : d \in Deps(n)})
  <2> DEFINE D == Deps(n)
             y == OnEach(Listed[D], "alloc", e)
             S == {TaskOf("alloc", e, d) : d \in D}
  <2>3. D \in SUBSET Node
    BY <1>2, NetFacts
  <2> HIDE DEF D
  <2>1. IsSeq(y) /\ ToSet(y) = S
    BY <2>3, EachCall
  <2> HIDE DEF S
  <2>2. Replaced(S)
    BY <1>2, <1>4, <2>1, ContinueReplaces DEF D
  <2>4. QED
    BY <2>2 DEF S, D
<1>5. ASSUME NEW step, Continue(x \o OnEach(<<n>>, step, e))
      PROVE  Replaced(OperandTasks(e, n) \cup {TaskOf(step, e, n)})
  <2> DEFINE y == OnEach(<<n>>, step, e)
  <2>1. IsSeq(x) /\ ToSet(x) = OperandTasks(e, n)
    BY <1>2, NetFacts, OperandsFacts DEF OperandTasks
  <2>2. IsSeq(y) /\ ToSet(y) = {TaskOf(step, e, n)}
    BY OneCall
  <2> HIDE DEF x, y
  <2>3. IsSeq(x \o y) /\ ToSet(x \o y) = OperandTasks(e, n) \cup {TaskOf(step, e, n)}
    BY <2>1, <2>2, Joined
  <2>4. QED
    BY <1>2, <1>5, <2>3, ContinueReplaces DEF y
<1>6. \/ (HasRtl(e, n) \/ net.kind[n] \notin {"io", "op"}) /\ Continue(<<>>)
           /\ UNCHANGED netNodeToRtl
      \/ /\ ~ HasRtl(e, n) /\ IsRead(n)
         /\ Continue(OnEach(Listed[Deps(n)], "alloc", e)) /\ NewTir(e, n, scheduledOut[n])
      \/ /\ ~ HasRtl(e, n) /\ IsWrite(n)
         /\ Continue(x \o OnEach(<<n>>, "drive", e)) /\ UNCHANGED netNodeToRtl
      \/ /\ ~ HasRtl(e, n) /\ net.kind[n] = "op"
         /\ Continue(x \o OnEach(<<n>>, "create", e)) /\ UNCHANGED netNodeToRtl
  BY DEF AllocateRtlInstance, AllocateRead, AllocateWrite, AllocateOperator, IsRead, IsWrite
<1>7. QED
  BY <1>1, <1>2, <1>3, <1>4, <1>5, <1>6

\* The value of an operator is made once its operands are there.
LEMMA CreateEffect ==
  ASSUME AllocOK, CreateOutput
  PROVE  LET h == Head(todo)
         IN  /\ h.step = "create" /\ h.node \in Node /\ Replaced({})
             /\ NewTir(h.elm, h.node, scheduledOut[h.node] + Eps)
             /\ UNCHANGED <<stageSignals, uses, drives>>
<1>1. NextIs("create") /\ Continue(<<>>)
  BY DEF CreateOutput
<1>2. QED
  BY <1>1, TaskFacts, ContinueReplaces, NoTask DEF CreateOutput

\* A write assigns its interface.
LEMMA DriveEffect ==
  ASSUME AllocOK, Drive
  PROVE  LET h == Head(todo)
         IN  /\ h.step = "drive" /\ h.node \in Node /\ Replaced({})
             /\ drives' = drives \cup {<<h.elm, h.node>>}
             /\ UNCHANGED <<netNodeToRtl, stageSignals, uses>>
<1>1. NextIs("drive") /\ Continue(<<>>)
  BY DEF Drive
<1>2. QED
  BY <1>1, TaskFacts, ContinueReplaces, NoTask DEF Drive

\* The body of the loop over the nodes of a stage
LEMMA NodeEffect ==
  ASSUME AllocOK, AllocateDataPath
  PROVE  LET e == Head(todo).elm
             n == Head(todo).node
         IN  /\ Head(todo).step = "node" /\ n \in Node
             /\ Replaced({TaskOf("alloc", e, n)}
                           \cup (IF wasInstantiated(e, n) THEN {TaskOf("after", e, n)}
                               ELSE {})
                           \cup (IF net.kind[n] = "io" THEN {TaskOf("io", e, n)} ELSE {}))
             /\ UNCHANGED rtlVars
<1> DEFINE e == Head(todo).elm
           n == Head(todo).node
           x == OnEach(<<n>>, "alloc", e)
           y == IF wasInstantiated(e, n) THEN OnEach(<<n>>, "after", e) ELSE <<>>
           z == IF net.kind[n] = "io" THEN OnEach(<<n>>, "io", e) ELSE <<>>
           X == {TaskOf("alloc", e, n)}
           Y == IF wasInstantiated(e, n) THEN {TaskOf("after", e, n)} ELSE {}
           Z == IF net.kind[n] = "io" THEN {TaskOf("io", e, n)} ELSE {}
<1>1. NextIs("node") /\ UNCHANGED rtlVars /\ Continue(x \o y \o z)
  BY DEF AllocateDataPath
<1>2. Head(todo).step = "node" /\ n \in Node /\ TodoOK /\ todo # <<>>
  BY <1>1, TaskFacts
<1>3. IsSeq(x) /\ ToSet(x) = X /\ IsSeq(y) /\ ToSet(y) = Y /\ IsSeq(z) /\ ToSet(z) = Z
  BY OneCall, NoTask
<1> HIDE DEF x, y, z, X, Y, Z
<1>4. IsSeq(x \o y \o z) /\ ToSet(x \o y \o z) = X \cup Y \cup Z
  <2>1. IsSeq(x \o y) /\ ToSet(x \o y) = X \cup Y
    BY <1>3, Joined
  <2>2. QED
    BY <1>3, <2>1, Joined
<1>5. Replaced(X \cup Y \cup Z)
  BY <1>1, <1>2, <1>4, ContinueReplaces
<1>6. QED
  BY <1>1, <1>2, <1>5 DEF X, Y, Z

\* The conditions of an access are taken at the time of the access.
LEMMA IoEffect ==
  ASSUME AllocInput, AllocOK, CopyChannelSync
  PROVE  LET h == Head(todo)
         IN  /\ h.step = "io" /\ h.node \in Node
             /\ Replaced({GetCall(h.elm, d, scheduledOut[h.node], <<"node", h.node>>) :
                            d \in {k \in net.dataDeps[h.node] : ~ IsConst(k)}})
             /\ UNCHANGED rtlVars
<1> DEFINE h == Head(todo)
           D == {k \in net.dataDeps[h.node] : ~ IsConst(k)}
           conds == Listed[D]
           tasks == [i \in DOMAIN conds |-> GetCall(h.elm, conds[i], scheduledOut[h.node],
                                                    <<"node", h.node>>)]
           S == {GetCall(h.elm, d, scheduledOut[h.node], <<"node", h.node>>) : d \in D}
<1>1. NextIs("io") /\ UNCHANGED rtlVars /\ Continue(tasks)
  BY DEF CopyChannelSync
<1>2. h.step = "io" /\ h.node \in Node /\ TodoOK /\ todo # <<>>
  BY <1>1, TaskFacts
<1>3. IsSeq(conds) /\ ToSet(conds) = D
  <2>1. D \in SUBSET Node
    BY <1>2, NetFacts
  <2>2. QED
    BY <2>1, ListedFacts
<1> HIDE DEF h, D, conds
<1>4. IsSeq(tasks) /\ \A t : t \in ToSet(tasks) <=>
        \E d \in D : t = GetCall(h.elm, d, scheduledOut[h.node], <<"node", h.node>>)
  BY <1>3, GetsFacts
<1> HIDE DEF tasks
<1>5. ToSet(tasks) = S
  BY <1>4
<1> HIDE DEF S
<1>6. Replaced(S)
  BY <1>1, <1>2, <1>4, <1>5, ContinueReplaces
<1>7. QED
  BY <1>1, <1>2, <1>6 DEF h, S, D

\* A value is handed over unless it already was; a buffer is never needed, or
\* allocate() fails.
LEMMA ConnectEffect ==
  ASSUME AllocOK, Connect, ~ AllocFailed'
  PROVE  LET o   == Head(todo).node
             dst == Owner(Head(todo).user)
         IN  /\ Head(todo).step = "connect" /\ o \in Node
             /\ \/ IsConnected(o, dst) /\ Replaced({})
                \/ ~ NeedsBuffer(o, dst) /\ Replaced(ToSet(HandOver(o, dst)))
             /\ UNCHANGED <<rtlVars, syncAdded>>
<1> DEFINE o   == Head(todo).node
           dst == Owner(Head(todo).user)
<1>1. NextIs("connect") /\ UNCHANGED <<rtlVars, syncAdded>>
      /\ ((IsConnected(o, dst) /\ Continue(<<>>))
           \/ (~ NeedsBuffer(o, dst) /\ Continue(HandOver(o, dst))))
  BY DEF Connect, Fail, AllocFailed
<1>2. Head(todo).step = "connect" /\ o \in Node /\ TodoOK /\ todo # <<>>
  BY <1>1, TaskFacts
<1>3. Continue(<<>>) => Replaced({})
  BY <1>2, NoTask, ContinueReplaces
<1>4. Continue(HandOver(o, dst)) => Replaced(ToSet(HandOver(o, dst)))
  BY <1>2, HandOverFacts, ContinueReplaces
<1>5. QED
  BY <1>1, <1>2, <1>3, <1>4

\* The chain of the value is extended, stages may be appended, and nothing is
\* recorded.
LEMMA MakeValidEffect ==
  ASSUME AllocOK, MakeValid, ~ AllocFailed'
  PROVE  /\ Head(todo).step = "makeValid" /\ Replaced({})
         /\ \/ UNCHANGED netNodeToRtl
            \/ \E x \in DOMAIN netNodeToRtl : \E index :
                 netNodeToRtl' = [netNodeToRtl EXCEPT ![x] = Extended(@, index)]
         /\ DOMAIN stageSignals \subseteq DOMAIN stageSignals'
         /\ UNCHANGED <<uses, drives, syncAdded>>
<1> DEFINE e == Head(todo).elm
           d == Head(todo).node
           endTime == Head(todo).endTime
           grown == /\ \E index :
                         netNodeToRtl'
                         = [netNodeToRtl EXCEPT ![<<e, d>>] = Extended(@, index)]
                    /\ DOMAIN stageSignals \subseteq DOMAIN stageSignals'
<1>1. NextIs("makeValid") /\ UNCHANGED <<uses, drives, syncAdded>>
  BY DEF MakeValid
<1>2. /\ HasRtl(e, d) /\ Continue(<<>>)
      /\ UNCHANGED <<netNodeToRtl, stageSignals>> \/ ExtendValidity(e, d, endTime)
  BY DEF MakeValid, ExtendValidity, Fail, AllocFailed
<1>3. ExtendValidity(e, d, endTime) => grown
  BY DEF ExtendValidity, Fail, AllocFailed
<1>4. Replaced({}) /\ Head(todo).step = "makeValid"
  BY <1>1, <1>2, TaskFacts, ContinueReplaces, NoTask
<1>5. QED
  BY <1>1, <1>2, <1>3, <1>4 DEF HasRtl

\* The handshake connects two stages or states which exist.
LEMMA SyncEffect ==
  ASSUME AllocOK, ConnectSync, ~ AllocFailed'
  PROVE  LET h == Head(todo)
         IN  /\ h.step = "sync" /\ Replaced({})
             /\ \A e \in {h.src, h.dst} : <<e, h.clk>> \in DOMAIN stageSignals
             /\ syncAdded' = syncAdded \cup {<<h.clk, {h.src, h.dst}>>}
             /\ UNCHANGED rtlVars
<1>1. NextIs("sync") /\ UNCHANGED rtlVars
  BY DEF ConnectSync
<1>2. /\ Continue(<<>>)
      /\ \A e \in {Head(todo).src, Head(todo).dst} :
           <<e, Head(todo).clk>> \in DOMAIN stageSignals
      /\ syncAdded' = syncAdded \cup {<<Head(todo).clk, {Head(todo).src, Head(todo).dst}>>}
  BY DEF ConnectSync, Fail, AllocFailed, Sync
<1>3. QED
  BY <1>1, <1>2, TaskFacts, ContinueReplaces, NoTask

-----------------------------------------------------------------------------
\* The steps of "build" together: which task is taken, which ones are new, and
\* what becomes of the resources.

\* What a step of "build" relies on
BuildInput ==
  /\ AllocInput /\ AllocOK /\ NodesCovered
  /\ ConnectionsSound /\ ConnectionsComplete /\ NothingBuilt

\* The step for the first task.
Performed(step) ==
  /\ step = "element" => LoopOverStages
  /\ step = "stage"   => LoopOverNodes /\ allocPhase = "build"
  /\ step = "node"    => AllocateDataPath
  /\ step = "io"      => CopyChannelSync
  /\ step = "alloc"   => AllocateRtlInstance
  /\ step = "operand" => InstantiateOutInTime
  /\ step = "create"  => CreateOutput
  /\ step = "drive"   => Drive
  /\ step = "get"     => Get
  /\ step = "connect" => Connect
  /\ step = "sync"    => ConnectSync

\* A task stays, or it was the first one and its step was made.
LEMMA TaskTaken ==
  ASSUME AllocInput, AllocOK, BuildStep, ~ AllocFailed', NEW t \in Tasks
  PROVE  t \in Tasks' \/ (t = Head(todo) /\ Performed(t.step))
<1>1. CASE UNCHANGED todo
  BY <1>1 DEF Tasks
<1>2. CASE LoopOverStages
  BY <1>2, StagesEffect DEF Performed
<1>3. CASE LoopOverNodes /\ allocPhase = "build"
  BY <1>3, NodesEffect DEF Performed
<1>4. CASE Get
  BY <1>4, GetEffect DEF Performed, Replaced
<1>5. CASE AfterOutputUsed
  BY <1>5, UsedEffect DEF Performed, Replaced
<1>6. CASE AfterNodeInstantiated
  BY <1>6, AfterEffect DEF Performed, Replaced
<1>7. CASE InstantiateOutInTime
  BY <1>7, OperandEffect DEF Performed, Replaced
<1>8. CASE AllocateRtlInstance
  BY <1>8, AllocEffect DEF Performed, Replaced
<1>9. CASE CreateOutput
  BY <1>9, CreateEffect DEF Performed, Replaced
<1>10. CASE Drive
  BY <1>10, DriveEffect DEF Performed, Replaced
<1>11. CASE AllocateDataPath
  BY <1>11, NodeEffect DEF Performed, Replaced
<1>12. CASE CopyChannelSync
  BY <1>12, IoEffect DEF Performed, Replaced
<1>13. CASE Connect
  BY <1>13, ConnectEffect DEF Performed, Replaced
<1>14. CASE MakeValid
  BY <1>14, MakeValidEffect DEF Performed, Replaced
<1>15. CASE ConnectSync
  BY <1>15, SyncEffect DEF Performed, Replaced
<1>16. QED
  BY <1>1, <1>2, <1>3, <1>4, <1>5, <1>6, <1>7, <1>8, <1>9, <1>10, <1>11, <1>12, <1>13, <1>14,
     <1>15 DEF BuildStep, NextDatapath

\* Where a new task can come from: h is the task it is a part of.
PartOf(t, h) ==
  \/ t.step \in {"stage", "used", "after"}
  \/ t.step = "node" /\ IsOwner(t.elm, t.node)
  \/ /\ h.step = "operand" /\ h.node \in Node
     /\ \/ t = TaskOf("alloc", h.elm, h.node)
        \/ t = GetCall(h.elm, h.node, scheduledIn[h.user], <<"node", h.user>>)
  \/ /\ h.step = "alloc" /\ h.node \in Node /\ ~ HasRtl(h.elm, h.node)
     /\ \/ IsRead(h.node) /\ \E d \in Deps(h.node) : t = TaskOf("alloc", h.elm, d)
        \/ ~ IsRead(h.node) /\ t \in OperandTasks(h.elm, h.node)
        \/ t = TaskOf("drive", h.elm, h.node)
        \/ /\ t = TaskOf("create", h.elm, h.node)
           /\ net.kind[h.node] = "op"
           /\ OperandTasks(h.elm, h.node) \subseteq Tasks'
  \/ /\ h.step = "node" /\ h.node \in Node
     /\ \/ t = TaskOf("alloc", h.elm, h.node)
        \/ t = TaskOf("io", h.elm, h.node) /\ net.kind[h.node] = "io"
  \/ /\ h.step = "io" /\ h.node \in Node
     /\ \E d \in net.dataDeps[h.node] :
          t = GetCall(h.elm, d, scheduledOut[h.node], <<"node", h.node>>)
  \/ /\ h.step = "connect"
     /\ ~ NeedsBuffer(h.node, Owner(h.user))
          /\ ToSet(HandOver(h.node, Owner(h.user))) \subseteq Tasks'
     /\ t \in ToSet(HandOver(h.node, Owner(h.user)))

\* A new task is a part of the one that was taken.
LEMMA TaskNew ==
  ASSUME AllocInput, AllocOK, BuildStep, ~ AllocFailed', NEW t \in Tasks', t \notin Tasks
  PROVE  Head(todo) \in Tasks /\ PartOf(t, Head(todo))
<1> DEFINE h == Head(todo)
<1>1. CASE UNCHANGED todo
  BY <1>1 DEF Tasks
<1>2. CASE LoopOverStages
  <2>1. todo # <<>> /\ TodoOK
    BY <1>2 DEF LoopOverStages, NextIs, AllocOK
  <2>2. h \in Tasks
    BY <2>1, FirstAndRest DEF TodoOK, Tasks
  <2>3. QED
    BY <1>2, <2>2, StagesEffect DEF PartOf
<1>3. CASE LoopOverNodes /\ allocPhase = "build"
  <2>1. todo # <<>> /\ TodoOK
    BY <1>3 DEF LoopOverNodes, NextIs, AllocOK
  <2>2. h \in Tasks
    BY <2>1, FirstAndRest DEF TodoOK, Tasks
  <2>3. QED
    BY <1>3, <2>2, NodesEffect DEF PartOf
<1>4. CASE Get \/ AfterOutputUsed \/ CreateOutput \/ Drive \/ MakeValid \/ ConnectSync
  BY <1>4, GetEffect, UsedEffect, CreateEffect, DriveEffect, MakeValidEffect, SyncEffect
     DEF Replaced
<1>5. CASE AfterNodeInstantiated
  <2>1. h \in Tasks /\ \E d : t = TaskOf("used", h.elm, d)
    BY <1>5, AfterEffect DEF Replaced
  <2>2. QED
    BY <2>1 DEF PartOf, TaskOf
<1>6. CASE InstantiateOutInTime
  <2>1. /\ h \in Tasks /\ h.step = "operand" /\ h.node \in Node
        /\ \/ t = TaskOf("alloc", h.elm, h.node)
           \/ t = TaskOf("after", h.elm, h.node)
           \/ t = GetCall(h.elm, h.node, scheduledIn[h.user], <<"node", h.user>>)
    BY <1>6, OperandEffect DEF Replaced
  <2>2. TaskOf("after", h.elm, h.node).step = "after"
    BY DEF TaskOf
  <2>3. QED
    BY <2>1, <2>2 DEF PartOf
<1>7. CASE AllocateRtlInstance
  <2>1. /\ h \in Tasks /\ h.step = "alloc" /\ h.node \in Node /\ ~ HasRtl(h.elm, h.node)
        /\ \/ IsRead(h.node) /\ \E d \in Deps(h.node) : t = TaskOf("alloc", h.elm, d)
           \/ IsWrite(h.node)
                /\ (t \in OperandTasks(h.elm, h.node) \/ t = TaskOf("drive", h.elm, h.node))
           \/ /\ net.kind[h.node] = "op"
              /\ OperandTasks(h.elm, h.node) \subseteq Tasks'
              /\ t \in OperandTasks(h.elm, h.node) \/ t = TaskOf("create", h.elm, h.node)
    BY <1>7, AllocEffect DEF Replaced
  <2>2. (IsWrite(h.node) \/ net.kind[h.node] = "op") => ~ IsRead(h.node)
    BY DEF IsWrite, IsRead
  <2>3. QED
    BY <2>1, <2>2 DEF PartOf
<1>8. CASE AllocateDataPath
  <2>1. /\ h \in Tasks /\ h.step = "node" /\ h.node \in Node
        /\ \/ t = TaskOf("alloc", h.elm, h.node)
           \/ t = TaskOf("after", h.elm, h.node)
           \/ t = TaskOf("io", h.elm, h.node) /\ net.kind[h.node] = "io"
    BY <1>8, NodeEffect DEF Replaced
  <2>2. TaskOf("after", h.elm, h.node).step = "after"
    BY DEF TaskOf
  <2>3. QED
    BY <2>1, <2>2 DEF PartOf
<1>9. CASE CopyChannelSync
  <2>1. /\ h \in Tasks /\ h.step = "io" /\ h.node \in Node
        /\ \E d \in net.dataDeps[h.node] :
             t = GetCall(h.elm, d, scheduledOut[h.node], <<"node", h.node>>)
    BY <1>9, IoEffect DEF Replaced
  <2>2. QED
    BY <2>1 DEF PartOf
<1>10. CASE Connect
  <2>1. /\ h \in Tasks /\ h.step = "connect"
        /\ ~ NeedsBuffer(h.node, Owner(h.user))
        /\ ToSet(HandOver(h.node, Owner(h.user))) \subseteq Tasks'
        /\ t \in ToSet(HandOver(h.node, Owner(h.user)))
    BY <1>10, ConnectEffect DEF Replaced
  <2>2. QED
    BY <2>1 DEF PartOf
<1>11. QED
  BY <1>1, <1>2, <1>3, <1>4, <1>5, <1>6, <1>7, <1>8, <1>9, <1>10 DEF BuildStep, NextDatapath

\* What becomes of the resources and of the record of what was done.
LEMMA RecordGrows ==
  ASSUME AllocInput, AllocOK, BuildStep, ~ AllocFailed'
  PROVE  /\ uses \subseteq uses' /\ drives \subseteq drives' /\ syncAdded \subseteq syncAdded'
         /\ DOMAIN stageSignals \subseteq DOMAIN stageSignals'
         /\ DOMAIN netNodeToRtl \subseteq DOMAIN netNodeToRtl'
         /\ \A u \in uses' : u \in uses \/
              LET h == Head(todo)
                  x == <<h.elm, h.node>>
              IN  /\ h \in Tasks /\ h.step = "get" /\ x \in DOMAIN netNodeToRtl
                  /\ u = [elm |-> h.elm, value |-> h.node, user |-> h.user,
                          index |-> IndexFor(netNodeToRtl[x], h.time)]
         /\ \A d \in drives' : d \in drives \/
              (Head(todo) \in Tasks /\ Head(todo).step = "drive"
                  /\ d = <<Head(todo).elm, Head(todo).node>>)
         /\ \A s \in syncAdded' : s \in syncAdded \/
              LET h == Head(todo)
              IN  /\ h \in Tasks /\ h.step = "sync" /\ s = <<h.clk, {h.src, h.dst}>>
                  /\ \A e \in {h.src, h.dst} : <<e, h.clk>> \in DOMAIN stageSignals
<1>1. CASE UNCHANGED <<rtlVars, syncAdded>>
  BY <1>1 DEF rtlVars
<1>2. CASE Get /\ UNCHANGED syncAdded
  BY <1>2, GetEffect DEF Replaced
<1>3. CASE (AfterOutputUsed \/ AfterNodeInstantiated) /\ UNCHANGED syncAdded
  BY <1>3, UsedEffect, AfterEffect
<1>4. CASE (InstantiateOutInTime \/ AllocateDataPath \/ CopyChannelSync)
      /\ UNCHANGED syncAdded
  BY <1>4, OperandEffect, NodeEffect, IoEffect DEF rtlVars
<1>5. CASE (AllocateRtlInstance \/ CreateOutput) /\ UNCHANGED syncAdded
  BY <1>5, AllocEffect, CreateEffect DEF NewTir
<1>6. CASE Drive /\ UNCHANGED syncAdded
  BY <1>6, DriveEffect DEF Replaced
<1>7. CASE Connect
  BY <1>7, ConnectEffect DEF rtlVars
<1>8. CASE MakeValid
  BY <1>8, MakeValidEffect
<1>9. CASE ConnectSync
  BY <1>9, SyncEffect DEF rtlVars, Replaced
<1>10. QED
  BY <1>1, <1>2, <1>3, <1>4, <1>5, <1>6, <1>7, <1>8, <1>9 DEF BuildStep, NextDatapath

\* A chain is extended, or there is a new one with the time of its node.
LEMMA ResourceStep ==
  ASSUME AllocInput, AllocOK, BuildStep, ~ AllocFailed'
  PROVE  \/ UNCHANGED netNodeToRtl
         \/ \E x \in DOMAIN netNodeToRtl : \E index :
              netNodeToRtl' = [netNodeToRtl EXCEPT ![x] = Extended(@, index)]
         \/ LET h == Head(todo)
            IN  /\ h \in Tasks /\ h.node \in Node
                /\ \/ ~ HasRtl(h.elm, h.node) /\ IsRead(h.node)
                        /\ NewTir(h.elm, h.node, scheduledOut[h.node])
                   \/ h.step = "create" /\ NewTir(h.elm, h.node, scheduledOut[h.node] + Eps)
<1>1. CASE UNCHANGED rtlVars \/ AfterOutputUsed \/ AfterNodeInstantiated \/ Drive
  BY <1>1, UsedEffect, AfterEffect, DriveEffect DEF rtlVars
<1>2. CASE Get
  BY <1>2, GetEffect
<1>3. CASE InstantiateOutInTime \/ AllocateDataPath \/ CopyChannelSync
  BY <1>3, OperandEffect, NodeEffect, IoEffect DEF rtlVars
<1>4. CASE AllocateRtlInstance
  BY <1>4, AllocEffect DEF Replaced
<1>5. CASE CreateOutput
  BY <1>5, CreateEffect DEF Replaced
<1>6. CASE Connect \/ ConnectSync
  BY <1>6, ConnectEffect, SyncEffect DEF rtlVars
<1>7. CASE MakeValid
  BY <1>7, MakeValidEffect
<1>8. QED
  BY <1>1, <1>2, <1>3, <1>4, <1>5, <1>6, <1>7 DEF BuildStep, NextDatapath

\* Declare starts "build" with the chains of the crossing values and with all
\* elements and connections as its tasks.
LEMMA DeclareEffect ==
  ASSUME AllocOK, NothingBuilt, Declare
  PROVE  /\ \A t \in Tasks' : t.step \in {"element", "connect"}
         /\ \A t \in Tasks' : t.step = "connect" => <<t.node, t.user>> \in ToSet(connections)
         /\ \A c \in ToSet(connections) : OfInput("connect", c[1], c[2])'
         /\ \A e \in DOMAIN archElements : OfElement(e)'
         /\ netNodeToRtl'
              = [x \in Crossings |-> [timeOffset |-> FirstUseTime(x[2], x[1]), len |-> 1]]
         /\ uses' = {} /\ drives' = {} /\ syncAdded' = {}
         /\ Analyzed
<1>1. /\ allocPhase = "analyze" /\ todo' = OfElements \o ConnectionCalls
      /\ netNodeToRtl'
           = [x \in Crossings |-> [timeOffset |-> FirstUseTime(x[2], x[1]), len |-> 1]]
      /\ UNCHANGED <<uses, drives, syncAdded>>
  BY DEF Declare
<1>2. Tasks' = ToSet(OfElements) \cup ToSet(ConnectionCalls)
  BY <1>1, OfElementsFacts, ConnectionCallsFacts, Joined DEF AllocOK, Tasks
<1>3. \A t : t \in ToSet(OfElements) <=> \E e \in DOMAIN archElements :
      t = [step |-> "element", elm |-> e]
  BY OfElementsFacts DEF AllocOK
<1>4. \A t : t \in ToSet(ConnectionCalls) <=>
         \E c \in ToSet(connections) : t = [step |-> "connect", node |-> c[1], user |-> c[2]]
  BY ConnectionCallsFacts DEF AllocOK
<1>5. \A c \in ToSet(connections) : c = <<c[1], c[2]>>
  BY SeqIsSeq DEF AllocOK
<1>6. \A t \in Tasks' : t.step \in {"element", "connect"}
      /\ (t.step = "connect" => <<t.node, t.user>> \in ToSet(connections))
  <2> TAKE t \in Tasks'
  <2>1. CASE t \in ToSet(OfElements)
    BY <1>3, <2>1
  <2>2. CASE t \in ToSet(ConnectionCalls)
    <3>1. PICK c \in ToSet(connections) :
          t = [step |-> "connect", node |-> c[1], user |-> c[2]]
      BY <1>4, <2>2
    <3>2. QED
      BY <1>5, <3>1
  <2>3. QED
    BY <1>2, <2>1, <2>2
<1>7. ASSUME NEW c \in ToSet(connections)
      PROVE  OfInput("connect", c[1], c[2])'
  <2>1. [step |-> "connect", node |-> c[1], user |-> c[2]] \in Tasks'
    BY <1>2, <1>4
  <2>2. QED
    BY <2>1 DEF OfInput
<1>8. ASSUME NEW e \in DOMAIN archElements
      PROVE  OfElement(e)'
  <2>1. [step |-> "element", elm |-> e] \in Tasks'
    BY <1>2, <1>3
  <2>2. QED
    BY <2>1 DEF OfElement
<1>9. uses = {} /\ drives = {} /\ syncAdded = {}
  BY <1>1 DEF NothingBuilt, Building, AllocFailed
<1>10. QED
  BY <1>1, <1>6, <1>7, <1>8, <1>9 DEF Analyzed

-----------------------------------------------------------------------------
\* The time a chain of registers starts with never changes.

\* ResourcesOK, for one chain of the resources r
ResourceOK(x, r) ==
  /\ x = <<x[1], x[2]>> /\ x[2] \in Node /\ ~ IsWrite(x[2])
  /\ r[x] = [timeOffset |-> TirTime(x[1], x[2]), len |-> r[x].len]

\* A chain of registers keeps the time it began with.
LEMMA ResourcesNext ==
  BuildInput /\ ResourcesOK /\ [HlsNext]_hlsVars => ResourcesOK'
<1> SUFFICES ASSUME BuildInput, ResourcesOK, [HlsNext]_hlsVars, Building'
             PROVE  ResourcesOK'
  BY DEF ResourcesOK
<1>1. UNCHANGED StaticVars /\ ~ AllocFailed' /\ (Declare \/ BuildStep)
  BY BuildingStep DEF BuildInput
<1>2. /\ Crossings' = Crossings
      /\ \A e, d : TirTime(e, d)' = TirTime(e, d)
      /\ \A n : IsWrite(n)' = IsWrite(n)
      /\ net' = net
  BY <1>1, StaticCrossings, StaticTirTime, StaticNet DEF StaticVars
<1>3. ASSUME Crossings \subseteq DOMAIN netNodeToRtl',
             netNodeToRtl' = [x \in DOMAIN netNodeToRtl' |-> netNodeToRtl'[x]],
             \A x \in DOMAIN netNodeToRtl' : ResourceOK(x, netNodeToRtl'),
             \A u \in uses' : <<u.elm, u.value>> \in DOMAIN netNodeToRtl',
             \A t \in Tasks' : t.step = "create"
                 => net.kind[t.node] = "op" /\ <<t.elm, t.node>> \notin Crossings
      PROVE  ResourcesOK'
  BY <1>2, <1>3 DEF ResourcesOK, ResourceOK
<1>4. CASE Declare
  <2>1. /\ \A t \in Tasks' : t.step \in {"element", "connect"}
        /\ netNodeToRtl'
             = [x \in Crossings |-> [timeOffset |-> FirstUseTime(x[2], x[1]), len |-> 1]]
        /\ uses' = {} /\ Analyzed
    BY <1>4, DeclareEffect DEF BuildInput
  <2>2. ASSUME NEW x \in Crossings
        PROVE  ResourceOK(x, netNodeToRtl')
    <3>1. PICK c \in ToSet(connections) : x = <<Owner(c[2]), c[1]>>
      BY DEF Crossings
    <3>2. c[1] \in Node /\ c[2] \in Node /\ c[1] \in net.dataDeps[c[2]]
      BY <2>1, ConnectionFacts DEF BuildInput, Crosses
    <3>3. ~ IsWrite(c[1])
      BY <3>2, NetFacts DEF BuildInput
    <3>4. x = <<x[1], x[2]>> /\ x[2] \in Node /\ ~ IsWrite(x[2])
          /\ TirTime(x[1], x[2]) = FirstUseTime(x[2], x[1])
      BY <3>1, <3>2, <3>3 DEF TirTime
    <3>5. netNodeToRtl'[x] = [timeOffset |-> FirstUseTime(x[2], x[1]), len |-> 1]
      BY <2>1
    <3>6. QED
      BY <3>4, <3>5 DEF ResourceOK
  <2>3. QED
    BY <1>3, <2>1, <2>2
<1>5. CASE BuildStep
  <2>1. /\ Crossings \subseteq DOMAIN netNodeToRtl
        /\ netNodeToRtl = [x \in DOMAIN netNodeToRtl |-> netNodeToRtl[x]]
        /\ \A x \in DOMAIN netNodeToRtl : ResourceOK(x, netNodeToRtl)
        /\ \A u \in uses : <<u.elm, u.value>> \in DOMAIN netNodeToRtl
        /\ \A t \in Tasks : t.step = "create" => net.kind[t.node] = "op"
             /\ <<t.elm, t.node>> \notin Crossings
    BY <1>5 DEF ResourcesOK, BuildStep, ResourceOK
  <2>2. /\ DOMAIN netNodeToRtl \subseteq DOMAIN netNodeToRtl'
        /\ \A u \in uses' : u \in uses \/ <<u.elm, u.value>> \in DOMAIN netNodeToRtl
    BY <1>1, <1>5, RecordGrows DEF BuildInput
  <2>3. ASSUME NEW t \in Tasks', t.step = "create"
        PROVE  net.kind[t.node] = "op" /\ <<t.elm, t.node>> \notin Crossings
    <3>1. CASE t \notin Tasks
      <4>1. PartOf(t, Head(todo))
        BY <1>1, <1>5, <3>1, TaskNew DEF BuildInput
      <4>2. net.kind[t.node] = "op" /\ ~ HasRtl(t.elm, t.node)
        BY <2>3, <4>1, HandOverFacts DEF PartOf, TaskOf, GetCall, OperandTasks
      <4>3. QED
        BY <2>1, <4>2 DEF HasRtl
    <3>2. QED
      BY <2>1, <2>3, <3>1
  <2>4. CASE UNCHANGED netNodeToRtl
    BY <1>3, <2>1, <2>2, <2>3, <2>4 DEF ResourceOK
  <2>5. ASSUME NEW x \in DOMAIN netNodeToRtl, NEW index,
               netNodeToRtl' = [netNodeToRtl EXCEPT ![x] = Extended(@, index)]
        PROVE  ResourcesOK'
    <3>1. /\ DOMAIN netNodeToRtl' = DOMAIN netNodeToRtl
          /\ netNodeToRtl' = [y \in DOMAIN netNodeToRtl' |-> netNodeToRtl'[y]]
          /\ netNodeToRtl'[x] = Extended(netNodeToRtl[x], index)
          /\ \A y \in DOMAIN netNodeToRtl : y # x => netNodeToRtl'[y] = netNodeToRtl[y]
      BY <2>1, <2>5
    <3>2. \E len : Extended(netNodeToRtl[x], index)
          = [timeOffset |-> TirTime(x[1], x[2]), len |-> len]
      <4>1. netNodeToRtl[x]
            = [timeOffset |-> TirTime(x[1], x[2]), len |-> netNodeToRtl[x].len]
        BY <2>1 DEF ResourceOK
      <4> DEFINE r == netNodeToRtl[x]
                 l == IF index < r.len THEN r.len ELSE index + 1
      <4>2. Extended(r, index) = [r EXCEPT !.len = l]
        BY DEF Extended
      <4> HIDE DEF l, r
      <4>3. r = [timeOffset |-> TirTime(x[1], x[2]), len |-> r.len]
        BY <4>1 DEF r
      <4>4. [r EXCEPT !.len = l] = [timeOffset |-> TirTime(x[1], x[2]), len |-> l]
        BY <4>3
      <4>5. QED
        BY <4>2, <4>4 DEF r
    <3>3. \A y \in DOMAIN netNodeToRtl' : ResourceOK(y, netNodeToRtl')
      BY <2>1, <3>1, <3>2 DEF ResourceOK
    <3>4. QED
      BY <1>3, <2>1, <2>2, <2>3, <3>1, <3>3
  <2>6. ASSUME NEW e, NEW n \in Node, NEW time, NewTir(e, n, time), time = TirTime(e, n),
               ~ IsWrite(n)
        PROVE  ResourcesOK'
    <3> DEFINE z == <<e, n>>
    <3>1. /\ DOMAIN netNodeToRtl' = {z} \cup DOMAIN netNodeToRtl
          /\ netNodeToRtl' = [y \in DOMAIN netNodeToRtl' |-> netNodeToRtl'[y]]
          /\ netNodeToRtl'[z] = [timeOffset |-> time, len |-> 1]
          /\ \A y \in DOMAIN netNodeToRtl : y # z => netNodeToRtl'[y] = netNodeToRtl[y]
      BY <2>6 DEF NewTir
    <3>2. ResourceOK(z, netNodeToRtl')
      BY <2>6, <3>1 DEF ResourceOK
    <3>3. \A y \in DOMAIN netNodeToRtl' : ResourceOK(y, netNodeToRtl')
      BY <2>1, <3>1, <3>2 DEF ResourceOK
    <3>4. QED
      BY <1>3, <2>1, <2>2, <2>3, <3>1, <3>3
  <2>7. ASSUME Head(todo) \in Tasks, Head(todo).node \in Node,
               ~ HasRtl(Head(todo).elm, Head(todo).node), IsRead(Head(todo).node),
               NewTir(Head(todo).elm, Head(todo).node, scheduledOut[Head(todo).node])
        PROVE  ResourcesOK'
    <3>1. <<Head(todo).elm, Head(todo).node>> \notin Crossings /\ ~ IsWrite(Head(todo).node)
      BY <2>1, <2>7 DEF HasRtl, IsRead, IsWrite
    <3>2. TirTime(Head(todo).elm, Head(todo).node) = scheduledOut[Head(todo).node]
      BY <2>7, <3>1 DEF TirTime
    <3>3. QED
      BY <2>6, <2>7, <3>1, <3>2
  <2>8. ASSUME Head(todo) \in Tasks, Head(todo).node \in Node, Head(todo).step = "create",
               NewTir(Head(todo).elm, Head(todo).node, scheduledOut[Head(todo).node] + Eps)
        PROVE  ResourcesOK'
    <3>1. <<Head(todo).elm, Head(todo).node>> \notin Crossings
          /\ net.kind[Head(todo).node] = "op"
      BY <2>1, <2>8
    <3>2. /\ TirTime(Head(todo).elm, Head(todo).node) = scheduledOut[Head(todo).node] + Eps
          /\ ~ IsWrite(Head(todo).node)
      BY <3>1 DEF TirTime, IsRead, IsWrite
    <3>3. QED
      BY <2>6, <2>8, <3>2
  <2>9. QED
    BY <1>1, <1>5, <2>4, <2>5, <2>7, <2>8, ResourceStep DEF BuildInput
<1>6. QED
  BY <1>1, <1>4, <1>5

-----------------------------------------------------------------------------
\* The values which cross elements are handed over.

\* The index of a chain is the distance from the time of its first signal.
LEMMA IndexInChain ==
  ASSUME BuildInput, ResourcesOK, Building, NEW x \in DOMAIN netNodeToRtl, NEW time \in Int
  PROVE  /\ netNodeToRtl[x].timeOffset = TirTime(x[1], x[2])
         /\ IndexFor(netNodeToRtl[x], time)
              = start_clk(time + Eps) - start_clk(TirTime(x[1], x[2]))
<1>1. netNodeToRtl[x].timeOffset = TirTime(x[1], x[2]) /\ x[2] \in Node
  BY DEF ResourcesOK
<1>2. TirTime(x[1], x[2]) \in Int
  BY <1>1, TirTimeTyped DEF BuildInput, Analyzed, Building
<1>3. QED
  BY <1>1, <1>2, IndexIsDistance

\* A connection makes its value cross into the element of the user.
LEMMA CrossingOfConnection ==
  ASSUME NEW c \in ToSet(connections)
  PROVE  <<Owner(c[2]), c[1]>> \in Crossings
  BY DEF Crossings

\* Synced, for given tasks and handshakes
SyncedIn(o, dst, T, added) ==
  /\ ~ NeedsBuffer(o, dst)
  /\ \/ \E t \in T : t.step = "sync" /\ t.clk = HandedAt(o, dst) /\ t.src = Owner(o)
          /\ t.dst = dst
     \/ <<HandedAt(o, dst), {Owner(o), dst}>> \in added

\* SyncOK, for one call of get
HandTask(t) ==
  /\ t.elm = Owner(t.node)
  /\ t.time = HandedAt(t.node, t.user[2]) * Clk
  /\ <<t.user[2], t.node>> \in Crossings

\* SyncOK, for one use
HandUse(u) == u.index = HandedAt(u.value, u.user[2]) - start_clk(TirTime(u.elm, u.value))

\* A value is handed over together with the handshake of its clk: the four calls
\* of HandOver are left to do, or the handshake is there.
LEMMA SyncNext ==
  BuildInput /\ ResourcesOK /\ HandedOK /\ SyncOK /\ [HlsNext]_hlsVars => SyncOK'
<1> SUFFICES ASSUME BuildInput, ResourcesOK, HandedOK, SyncOK, [HlsNext]_hlsVars, Building'
             PROVE  SyncOK'
  BY DEF SyncOK
<1>1. UNCHANGED StaticVars /\ ~ AllocFailed' /\ (Declare \/ BuildStep)
  BY BuildingStep DEF BuildInput
<1>2. /\ Crossings' = Crossings
      /\ \A e, d : TirTime(e, d)' = TirTime(e, d)
      /\ \A o, dst : HandedAt(o, dst)' = HandedAt(o, dst)
           /\ NeedsBuffer(o, dst)' = NeedsBuffer(o, dst)
      /\ \A n : Owner(n)' = Owner(n)
  BY <1>1, StaticCrossings, StaticTirTime, StaticUse, StaticOwner DEF StaticVars
<1>3. ASSUME \A s \in syncAdded' : \A e \in s[2] : <<e, s[1]>> \in DOMAIN stageSignals',
             \A t \in Tasks' : t.step = "get" /\ t.user[1] = "element" =>
               HandTask(t) /\ SyncedIn(t.node, t.user[2], Tasks', syncAdded'),
             \A u \in uses' : u.user[1] = "element" =>
               HandUse(u) /\ SyncedIn(u.value, u.user[2], Tasks', syncAdded')
      PROVE  SyncOK'
  <2>1. \A o, dst : SyncedIn(o, dst, Tasks', syncAdded') => Synced(o, dst)'
    BY <1>2 DEF SyncedIn, Synced
  <2>2. \A e, d : start_clk(TirTime(e, d))' = start_clk(TirTime(e, d))
    BY <1>2 DEF start_clk
  <2>3. QED
    BY <1>2, <1>3, <2>1, <2>2 DEF SyncOK, HandTask, HandUse
<1>4. CASE Declare
  BY <1>3, <1>4, DeclareEffect DEF BuildInput
<1>5. CASE BuildStep
  <2> DEFINE h == Head(todo)
  <2>1. /\ Building
        /\ \A s \in syncAdded : \A e \in s[2] : <<e, s[1]>> \in DOMAIN stageSignals
        /\ \A t \in Tasks : t.step = "get" /\ t.user[1] = "element" =>
             HandTask(t) /\ SyncedIn(t.node, t.user[2], Tasks, syncAdded)
        /\ \A u \in uses : u.user[1] = "element" =>
             HandUse(u) /\ SyncedIn(u.value, u.user[2], Tasks, syncAdded)
    BY <1>5 DEF SyncOK, BuildStep, HandTask, HandUse, SyncedIn, Synced
  <2>2. ASSUME NEW o, NEW dst, SyncedIn(o, dst, Tasks, syncAdded)
        PROVE  SyncedIn(o, dst, Tasks', syncAdded')
    <3>1. syncAdded \subseteq syncAdded'
      BY <1>1, <1>5, RecordGrows DEF BuildInput
    <3>2. ASSUME NEW t \in Tasks, t.step = "sync", t.clk = HandedAt(o, dst),
                 t.src = Owner(o), t.dst = dst, t \notin Tasks'
          PROVE  <<HandedAt(o, dst), {Owner(o), dst}>> \in syncAdded'
      <4>1. t = h /\ ConnectSync
        BY <1>1, <1>5, <3>2, TaskTaken DEF BuildInput, Performed
      <4>2. syncAdded' = syncAdded \cup {<<h.clk, {h.src, h.dst}>>}
        BY <1>1, <4>1, SyncEffect DEF BuildInput
      <4>3. QED
        BY <3>2, <4>1, <4>2
    <3>3. QED
      BY <2>2, <3>1, <3>2 DEF SyncedIn
  <2>3. ASSUME NEW s \in syncAdded', NEW e \in s[2]
        PROVE  <<e, s[1]>> \in DOMAIN stageSignals'
    <3>1. /\ DOMAIN stageSignals \subseteq DOMAIN stageSignals'
          /\ \/ s \in syncAdded
             \/ s = <<h.clk, {h.src, h.dst}>>
                  /\ \A f \in {h.src, h.dst} : <<f, h.clk>> \in DOMAIN stageSignals
      BY <1>1, <1>5, RecordGrows DEF BuildInput
    <3>2. QED
      BY <2>1, <2>3, <3>1
  <2>4. ASSUME NEW t \in Tasks', t.step = "get", t.user[1] = "element"
        PROVE  HandTask(t) /\ SyncedIn(t.node, t.user[2], Tasks', syncAdded')
    <3>1. CASE t \in Tasks
      BY <2>1, <2>2, <2>4, <3>1
    <3>2. CASE t \notin Tasks
      <4> DEFINE o == h.node
                 dst == Owner(h.user)
      <4>1. h \in Tasks /\ PartOf(t, h)
        BY <1>1, <1>5, <3>2, TaskNew DEF BuildInput
      <4>2. /\ h.step = "connect" /\ ~ NeedsBuffer(o, dst)
                 /\ ToSet(HandOver(o, dst)) \subseteq Tasks'
            /\ t \in ToSet(HandOver(o, dst))
        BY <2>4, <4>1 DEF PartOf, TaskOf, GetCall, OperandTasks
      <4>3. <<o, h.user>> \in ToSet(connections)
        BY <2>1, <4>1, <4>2 DEF HandedOK
      <4>4. <<dst, o>> \in Crossings
        BY <4>3, CrossingOfConnection
      <4>5. UseTime(o, dst) = FirstUseTime(o, dst)
        BY <2>1, <4>4 DEF UseTime, ResourcesOK, TirTime
      <4>6. start_clk(UseTime(o, dst)) = HandedAt(o, dst)
        BY <4>5 DEF HandedAt
      <4>7. /\ t = GetCall(Owner(o), o, HandedAt(o, dst) * Clk, <<"element", dst>>)
            /\ [step |-> "sync", clk |-> HandedAt(o, dst), src |-> Owner(o),
                dst |-> dst] \in Tasks'
        BY <2>4, <4>2, <4>6, HandOverFacts
      <4>8. t.elm = Owner(o) /\ t.node = o /\ t.time = HandedAt(o, dst) * Clk
            /\ t.user[2] = dst
        BY <4>7 DEF GetCall
      <4>9. SyncedIn(o, dst, Tasks', syncAdded')
        BY <4>2, <4>7 DEF SyncedIn
      <4> HIDE DEF o, dst
      <4>10. QED
        BY <4>4, <4>8, <4>9 DEF HandTask
    <3>3. QED
      BY <3>1, <3>2
  <2>5. ASSUME NEW u \in uses', u.user[1] = "element"
        PROVE  HandUse(u) /\ SyncedIn(u.value, u.user[2], Tasks', syncAdded')
    <3>1. CASE u \in uses
      BY <2>1, <2>2, <2>5, <3>1
    <3>2. CASE u \notin uses
      <4> DEFINE x == <<h.elm, h.node>>
                 index == IndexFor(netNodeToRtl[x], h.time)
      <4>1. /\ h \in Tasks /\ h.step = "get" /\ x \in DOMAIN netNodeToRtl
            /\ u = [elm |-> h.elm, value |-> h.node, user |-> h.user, index |-> index]
        BY <1>1, <1>5, <3>2, RecordGrows DEF BuildInput
      <4>2. HandTask(h) /\ SyncedIn(h.node, h.user[2], Tasks', syncAdded')
        BY <2>1, <2>2, <2>5, <4>1
      <4> DEFINE k == HandedAt(h.node, h.user[2])
      <4>3. k \in Int
        <5> DEFINE y == <<h.user[2], h.node>>
        <5>1. y \in Crossings
          BY <4>2 DEF HandTask
        <5>2. HandedAt(y[2], y[1]) \in Int
          BY <2>1, <5>1, FirstUseTimeTyped DEF BuildInput, Analyzed, Building
        <5>3. QED
          BY <5>2
      <4>4. k * Clk \in Int /\ start_clk(k * Clk + Eps) = k
        BY <4>3, ClkOfSignal, SchedulerAssumption
      <4>5. index = k - start_clk(TirTime(x[1], x[2]))
        <5>1. h.time = k * Clk
          BY <4>2 DEF HandTask
        <5> HIDE DEF k, x
        <5>2. IndexFor(netNodeToRtl[x], k * Clk)
              = start_clk(k * Clk + Eps) - start_clk(TirTime(x[1], x[2]))
          BY <2>1, <4>1, <4>4, IndexInChain
        <5>3. QED
          BY <4>4, <5>1, <5>2
      <4> HIDE DEF index
      <4>6. HandUse(u)
        BY <4>1, <4>5 DEF HandUse
      <4>7. QED
        BY <4>1, <4>2, <4>6
    <3>3. QED
      BY <3>1, <3>2
  <2>6. QED
    BY <1>3, <2>3, <2>4, <2>5
<1>6. QED
  BY <1>1, <1>4, <1>5

\* HandedOK, for one connection, with given tasks and uses
HandedOver(c, T, U) ==
  LET o == c[1]
      dst == Owner(c[2])
  IN  \/ \E t \in T : t.step = "connect" /\ t.node = o /\ t.user = c[2]
      \/ \E t \in T : /\ t.step = "get" /\ t.elm = Owner(o) /\ t.node = o
                      /\ t.time = HandedAt(o, dst) * Clk /\ t.user = <<"element", dst>>
      \/ \E u \in U : u.elm = Owner(o) /\ u.value = o /\ u.user = <<"element", dst>>

\* Every connection is left to do, being handed over, or handed over; that it is
\* skipped when another use in the same element was served is no loss.
LEMMA HandedNext ==
  BuildInput /\ ResourcesOK /\ HandedOK /\ [HlsNext]_hlsVars => HandedOK'
<1> SUFFICES ASSUME BuildInput, ResourcesOK, HandedOK, [HlsNext]_hlsVars, Building'
             PROVE  HandedOK'
  BY DEF HandedOK
<1>1. UNCHANGED StaticVars /\ ~ AllocFailed' /\ (Declare \/ BuildStep)
  BY BuildingStep DEF BuildInput
<1>2. /\ connections' = connections
      /\ \A o, dst : HandedAt(o, dst)' = HandedAt(o, dst)
      /\ \A n : Owner(n)' = Owner(n)
  BY <1>1, StaticUse, StaticOwner DEF StaticVars
<1>3. ASSUME \A t \in Tasks' : t.step = "connect"
             => <<t.node, t.user>> \in ToSet(connections),
             \A c \in ToSet(connections) : HandedOver(c, Tasks', uses')
      PROVE  HandedOK'
  BY <1>2, <1>3 DEF HandedOK, HandedOver, OfInput, GetPending, IsConnected, UsesOf
<1>4. CASE Declare
  <2>1. /\ \A t \in Tasks' : t.step = "connect" => <<t.node, t.user>> \in ToSet(connections)
        /\ \A c \in ToSet(connections) : OfInput("connect", c[1], c[2])'
    BY <1>4, DeclareEffect DEF BuildInput
  <2>2. \A c \in ToSet(connections) : HandedOver(c, Tasks', uses')
    BY <2>1 DEF HandedOver, OfInput
  <2>3. QED
    BY <1>3, <2>1, <2>2
<1>5. CASE BuildStep
  <2> DEFINE h == Head(todo)
  <2>1. /\ Building
        /\ \A t \in Tasks : t.step = "connect" => <<t.node, t.user>> \in ToSet(connections)
        /\ \A c \in ToSet(connections) : HandedOver(c, Tasks, uses)
    BY <1>5 DEF HandedOK, BuildStep, HandedOver, OfInput, GetPending, IsConnected, UsesOf
  <2>2. ASSUME NEW t \in Tasks', t.step = "connect"
        PROVE  <<t.node, t.user>> \in ToSet(connections)
    <3>1. CASE t \in Tasks
      BY <2>1, <2>2, <3>1
    <3>2. CASE t \notin Tasks
      <4>1. PartOf(t, h)
        BY <1>1, <1>5, <3>2, TaskNew DEF BuildInput
      <4>2. QED
        BY <2>2, <4>1, HandOverFacts DEF PartOf, TaskOf, GetCall, OperandTasks
    <3>3. QED
      BY <3>1, <3>2
  <2>3. ASSUME NEW c \in ToSet(connections)
        PROVE  HandedOver(c, Tasks', uses')
    <3> DEFINE o == c[1]
               dst == Owner(c[2])
    <3>1. uses \subseteq uses'
      BY <1>1, <1>5, RecordGrows DEF BuildInput
    <3>2. ASSUME NEW t \in Tasks, t.step = "connect", t.node = o, t.user = c[2],
                 t \notin Tasks'
          PROVE  HandedOver(c, Tasks', uses')
      <4>1. t = h /\ Connect
        BY <1>1, <1>5, <3>2, TaskTaken DEF BuildInput, Performed
      <4>2. IsConnected(o, dst) \/ ToSet(HandOver(o, dst)) \subseteq Tasks'
        BY <1>1, <3>2, <4>1, ConnectEffect DEF BuildInput, Replaced
      <4>3. CASE IsConnected(o, dst)
        BY <3>1, <4>3 DEF IsConnected, UsesOf, HandedOver
      <4>4. CASE ToSet(HandOver(o, dst)) \subseteq Tasks'
        <5>1. <<dst, o>> \in Crossings
          BY CrossingOfConnection
        <5>2. UseTime(o, dst) = FirstUseTime(o, dst)
          BY <2>1, <5>1 DEF UseTime, ResourcesOK, TirTime
        <5>3. GetCall(Owner(o), o, HandedAt(o, dst) * Clk, <<"element", dst>>) \in Tasks'
          BY <4>4, <5>2, HandOverFacts DEF HandedAt
        <5>4. QED
          BY <5>3 DEF HandedOver, GetCall
      <4>5. QED
        BY <4>2, <4>3, <4>4
    <3>3. ASSUME NEW t \in Tasks, t.step = "get", t.elm = Owner(o), t.node = o,
                 t.user = <<"element", dst>>, t \notin Tasks'
          PROVE  HandedOver(c, Tasks', uses')
      <4>1. t = h /\ Get
        BY <1>1, <1>5, <3>3, TaskTaken DEF BuildInput, Performed
      <4> DEFINE index == IndexFor(netNodeToRtl[<<h.elm, h.node>>], h.time)
                 v == [elm |-> h.elm, value |-> h.node, user |-> h.user, index |-> index]
      <4>4. v \in uses'
        BY <1>1, <4>1, GetEffect DEF BuildInput
      <4>5. v.elm = h.elm /\ v.value = h.node /\ v.user = h.user
        OBVIOUS
      <4> HIDE DEF v
      <4>2. \E u \in uses' : u.elm = h.elm /\ u.value = h.node /\ u.user = h.user
        BY <4>4, <4>5
      <4>3. QED
        BY <3>3, <4>1, <4>2 DEF HandedOver
    <3>4. HandedOver(c, Tasks, uses)
      BY <2>1
    <3>5. QED
      BY <3>1, <3>2, <3>3, <3>4 DEF HandedOver
  <2>4. QED
    BY <1>3, <2>2, <2>3
<1>6. QED
  BY <1>1, <1>4, <1>5

-----------------------------------------------------------------------------
\* The nodes are built and get their operands.

\* Served, for given tasks and uses
ServedIn(e, d, m, T, U) ==
  \/ IsConst(d)
  \/ \E t \in T : /\ t.step = "get" /\ t.elm = e /\ t.node = d
                  /\ t.time = scheduledIn[m] /\ t.user = <<"node", m>>
  \/ \E u \in U : u.elm = e /\ u.value = d /\ u.user = <<"node", m>>

\* Served, for the tasks and records of this state and of the next one
LEMMA ServedMeans ==
  /\ \A e, d, m : Served(e, d, m) <=> ServedIn(e, d, m, Tasks, uses)
  /\ UNCHANGED StaticVars => \A e, d, m : Served(e, d, m)'
       <=> ServedIn(e, d, m, Tasks', uses')
<1>1. \A e, d, m : Served(e, d, m) <=> ServedIn(e, d, m, Tasks, uses)
  BY DEF Served, ServedIn, GetPending, UsesOf
<1>2. UNCHANGED StaticVars => \A n : IsConst(n)' = IsConst(n)
  BY StaticNet DEF StaticVars
<1>3. UNCHANGED StaticVars => scheduledIn' = scheduledIn
  BY DEF StaticVars
<1>4. QED
  BY <1>1, <1>2, <1>3 DEF Served, ServedIn, GetPending, UsesOf

\* A call of get that is taken leaves a use behind.
LEMMA GetServes ==
  ASSUME AllocInput, AllocOK, BuildStep, ~ AllocFailed',
         NEW t \in Tasks, t.step = "get", t \notin Tasks'
  PROVE  \E u \in uses' : u.elm = t.elm /\ u.value = t.node /\ u.user = t.user
<1>1. t = Head(todo) /\ Get
  BY TaskTaken DEF Performed
<1> DEFINE index == IndexFor(netNodeToRtl[<<t.elm, t.node>>], t.time)
           v == [elm |-> t.elm, value |-> t.node, user |-> t.user, index |-> index]
<1>2. v \in uses'
  BY <1>1, GetEffect
<1>3. v.elm = t.elm /\ v.value = t.node /\ v.user = t.user
  OBVIOUS
<1> HIDE DEF v
<1>4. QED
  BY <1>2, <1>3

\* Once served, an operand stays so.
LEMMA StaysServed ==
  ASSUME AllocInput, AllocOK, BuildStep, ~ AllocFailed',
         NEW e, NEW d, NEW m, ServedIn(e, d, m, Tasks, uses)
  PROVE  ServedIn(e, d, m, Tasks', uses')
<1>1. uses \subseteq uses'
  BY RecordGrows
<1>2. ASSUME NEW t \in Tasks, t.step = "get", t.elm = e, t.node = d,
             t.user = <<"node", m>>, t \notin Tasks'
      PROVE  ServedIn(e, d, m, Tasks', uses')
  BY <1>2, GetServes DEF ServedIn
<1>3. QED
  BY <1>1, <1>2 DEF ServedIn

\* UsesOK, for one use
NodeUse(u) == u.index = NodeIndex(u.elm, u.value, u.user[2])

\* Every user has the register of the time it asked for.
LEMMA UsesNext ==
  BuildInput /\ ResourcesOK /\ UsesOK /\ [HlsNext]_hlsVars => UsesOK'
<1> SUFFICES ASSUME BuildInput, ResourcesOK, UsesOK, [HlsNext]_hlsVars, Building'
             PROVE  UsesOK'
  BY DEF UsesOK
<1>1. UNCHANGED StaticVars /\ ~ AllocFailed' /\ (Declare \/ BuildStep)
  BY BuildingStep DEF BuildInput
<1>2. /\ \A e, d : TirTime(e, d)' = TirTime(e, d)
      /\ net' = net /\ scheduledIn' = scheduledIn
  BY <1>1, StaticTirTime DEF StaticVars
<1>3. \A u : NodeUse(u)' <=> NodeUse(u)
  <2>1. \A e, d, m : NodeIndex(e, d, m)' = NodeIndex(e, d, m)
    BY <1>2 DEF NodeIndex, IndexFor, start_clk
  <2>2. QED
    BY <2>1 DEF NodeUse
<1>4. ASSUME \A t \in Tasks' : t.step = "io" => net.kind[t.node] = "io",
             \A t \in Tasks' : t.step = "get" /\ t.user[1] = "node"
                 => t.time = scheduledIn[t.user[2]],
             \A u \in uses' : u.user[1] = "node" => NodeUse(u)
      PROVE  UsesOK'
  BY <1>2, <1>3, <1>4 DEF UsesOK, NodeUse
<1>5. CASE Declare
  BY <1>4, <1>5, DeclareEffect DEF BuildInput
<1>6. CASE BuildStep
  <2> DEFINE h == Head(todo)
  <2>1. /\ \A t \in Tasks : t.step = "io" => net.kind[t.node] = "io"
        /\ \A t \in Tasks : t.step = "get" /\ t.user[1] = "node"
             => t.time = scheduledIn[t.user[2]]
        /\ \A u \in uses : u.user[1] = "node" => NodeUse(u)
        /\ Building
    BY <1>6 DEF UsesOK, BuildStep, NodeUse
  <2>2. ASSUME NEW t \in Tasks', t.step = "io"
        PROVE  net.kind[t.node] = "io"
    <3>1. CASE t \notin Tasks
      <4>1. PartOf(t, h)
        BY <1>1, <1>6, <3>1, TaskNew DEF BuildInput
      <4>2. QED
        BY <2>2, <4>1, HandOverFacts DEF PartOf, TaskOf, GetCall, OperandTasks
    <3>2. QED
      BY <2>1, <2>2, <3>1
  <2>3. ASSUME NEW t \in Tasks', t.step = "get", t.user[1] = "node"
        PROVE  t.time = scheduledIn[t.user[2]]
    <3>1. CASE t \notin Tasks
      <4>1. h \in Tasks /\ PartOf(t, h)
        BY <1>1, <1>6, <3>1, TaskNew DEF BuildInput
      <4>2. \/ t = GetCall(h.elm, h.node, scheduledIn[h.user], <<"node", h.user>>)
            \/ /\ h.step = "io" /\ h.node \in Node
               /\ \E d : t = GetCall(h.elm, d, scheduledOut[h.node], <<"node", h.node>>)
        BY <2>3, <4>1, HandOverFacts DEF PartOf, TaskOf, GetCall, OperandTasks
      <4>3. h.step = "io" /\ h.node \in Node => scheduledOut[h.node] = scheduledIn[h.node]
        BY <2>1, <4>1 DEF BuildInput, AllocInput, AccessesInstant
      <4>4. QED
        BY <4>2, <4>3 DEF GetCall
    <3>2. QED
      BY <2>1, <2>3, <3>1
  <2>4. ASSUME NEW u \in uses', u.user[1] = "node"
        PROVE  NodeUse(u)
    <3>1. CASE u \notin uses
      <4> DEFINE x == <<h.elm, h.node>>
                 index == IndexFor(netNodeToRtl[x], h.time)
      <4>1. /\ h \in Tasks /\ h.step = "get" /\ x \in DOMAIN netNodeToRtl
            /\ u = [elm |-> h.elm, value |-> h.node, user |-> h.user, index |-> index]
        BY <1>1, <1>6, <3>1, RecordGrows DEF BuildInput
      <4>2. h.time = scheduledIn[h.user[2]]
        BY <2>1, <2>4, <4>1
      <4>3. netNodeToRtl[x].timeOffset = TirTime(h.elm, h.node)
        BY <2>1, <4>1 DEF ResourcesOK
      <4>4. index = NodeIndex(h.elm, h.node, h.user[2])
        BY <4>2, <4>3 DEF NodeIndex, IndexFor
      <4> HIDE DEF index
      <4>5. QED
        BY <4>1, <4>4 DEF NodeUse
    <3>2. QED
      BY <2>1, <2>4, <3>1
  <2>5. QED
    BY <1>4, <2>2, <2>3, <2>4
<1>7. QED
  BY <1>1, <1>5, <1>6

\* The operand is left to do.
OperandPending(e, d, m, T) ==
  \E t \in T : t.step = "operand" /\ t.elm = e /\ t.node = d /\ t.user = m

\* An operator is not created without its operands.
LEMMA OperatorsNext ==
  BuildInput /\ ResourcesOK /\ OperatorsServed /\ [HlsNext]_hlsVars => OperatorsServed'
<1> SUFFICES ASSUME BuildInput, ResourcesOK, OperatorsServed, [HlsNext]_hlsVars, Building'
             PROVE  OperatorsServed'
  BY DEF OperatorsServed
<1>1. UNCHANGED StaticVars /\ ~ AllocFailed' /\ (Declare \/ BuildStep)
  BY BuildingStep DEF BuildInput
<1>2. Crossings' = Crossings /\ net' = net /\ archElements' = archElements
  BY <1>1, StaticCrossings DEF StaticVars
<1>3. ASSUME \A e \in DOMAIN archElements, m \in Node :
               /\ net.kind[m] = "op" /\ <<e, m>> \notin Crossings
               /\ <<e, m>> \in DOMAIN netNodeToRtl' \/ OfNode("create", e, m)'
               => \A d \in net.dataDeps[m] :
                    ServedIn(e, d, m, Tasks', uses') \/ OperandPending(e, d, m, Tasks')
      PROVE  OperatorsServed'
  BY <1>1, <1>2, <1>3, ServedMeans DEF OperatorsServed, OperandPending, HasRtl
<1>4. CASE Declare
  <2>1. DOMAIN netNodeToRtl' = Crossings
        /\ \A t \in Tasks' : t.step \in {"element", "connect"}
    BY <1>4, DeclareEffect DEF BuildInput
  <2>2. QED
    BY <1>3, <2>1 DEF OfNode
<1>5. CASE BuildStep
  <2> DEFINE h == Head(todo)
  <2> SUFFICES ASSUME NEW e \in DOMAIN archElements, NEW m \in Node, net.kind[m] = "op",
      <<e, m>> \notin Crossings,
                      <<e, m>> \in DOMAIN netNodeToRtl' \/ OfNode("create", e, m)',
                      NEW d \in net.dataDeps[m]
               PROVE  ServedIn(e, d, m, Tasks', uses') \/ OperandPending(e, d, m, Tasks')
    BY <1>3
  <2>1. HasRtl(e, m) \/ OfNode("create", e, m) =>
          ServedIn(e, d, m, Tasks, uses) \/ OperandPending(e, d, m, Tasks)
    BY <1>5, ServedMeans DEF OperatorsServed, BuildStep, OperandPending
  <2>2. ServedIn(e, d, m, Tasks, uses) => ServedIn(e, d, m, Tasks', uses')
    BY <1>1, <1>5, StaysServed DEF BuildInput
  <2>3. ASSUME NEW t \in Tasks, t.step = "operand", t.elm = e, t.node = d, t.user = m,
               t \notin Tasks'
        PROVE  ServedIn(e, d, m, Tasks', uses')
    <3>1. t = h /\ InstantiateOutInTime
      BY <1>1, <1>5, <2>3, TaskTaken DEF BuildInput, Performed
    <3>2. IsConst(d) \/ GetCall(e, d, scheduledIn[m], <<"node", m>>) \in Tasks'
      BY <1>1, <2>3, <3>1, OperandEffect DEF BuildInput, Replaced
    <3>3. QED
      BY <3>2 DEF ServedIn, GetCall
  <2>4. OperandPending(e, d, m, Tasks) => ServedIn(e, d, m, Tasks', uses')
        \/ OperandPending(e, d, m, Tasks')
    BY <2>3 DEF OperandPending
  <2>5. CASE OfNode("create", e, m)' /\ ~ OfNode("create", e, m)
    <3>1. PICK t \in Tasks' : t.step = "create" /\ t.elm = e /\ t.node = m /\ t \notin Tasks
      BY <2>5 DEF OfNode
    <3>2. PartOf(t, h)
      BY <1>1, <1>5, <3>1, TaskNew DEF BuildInput
    <3>3. OperandTasks(e, m) \subseteq Tasks'
      BY <3>1, <3>2, HandOverFacts DEF PartOf, TaskOf, GetCall, OperandTasks
    <3>4. [step |-> "operand", elm |-> e, node |-> d, user |-> m] \in Tasks'
      BY <3>3 DEF OperandTasks
    <3>5. QED
      BY <3>4 DEF OperandPending
  <2>6. CASE <<e, m>> \in DOMAIN netNodeToRtl' /\ ~ HasRtl(e, m)
    <3>1. ASSUME NEW f, NEW n, NEW time, NewTir(f, n, time)
          PROVE  f = e /\ n = m
      BY <2>6, <3>1 DEF NewTir, HasRtl
    <3>2. ~ UNCHANGED netNodeToRtl
      BY <2>6 DEF HasRtl
    <3>3. ASSUME NEW x \in DOMAIN netNodeToRtl, NEW index,
                 netNodeToRtl' = [netNodeToRtl EXCEPT ![x] = Extended(@, index)]
          PROVE  FALSE
      BY <2>6, <3>3 DEF HasRtl
    <3>4. /\ h \in Tasks
          /\ \/ IsRead(h.node) /\ h.node = m
             \/ h.step = "create" /\ h.elm = e /\ h.node = m
      BY <1>1, <1>5, <3>1, <3>2, <3>3, ResourceStep DEF BuildInput
    <3>5. OfNode("create", e, m)
      BY <3>4 DEF IsRead, OfNode
    <3>6. QED
      BY <2>1, <2>2, <2>4, <3>5
  <2>7. QED
    BY <2>1, <2>2, <2>4, <2>5, <2>6
<1>6. QED
  BY <1>1, <1>4, <1>5

\* Built, for an operator
BuiltOperator(e, n, T, R) ==
  net.kind[n] = "op" =>
    <<e, n>> \in R \/ \E t \in T : t.step \in {"alloc", "create"} /\ t.elm = e /\ t.node = n
\* Built, for an access
BuiltAccess(e, n, T, U) ==
  net.kind[n] = "io" =>
    \/ \E t \in T : t.step = "io" /\ t.elm = e /\ t.node = n
    \/ \A d \in net.dataDeps[n] : ServedIn(e, d, n, T, U)
\* Built, for the assignment of a write
BuiltWrite(e, n, T, D) ==
  IsWrite(n) =>
    <<e, n>> \in D \/ \E t \in T : t.step \in {"alloc", "drive"} /\ t.elm = e /\ t.node = n

\* Built, for given tasks, uses, assignments and chains
BuiltIn(e, n, T, U, D, R) == BuiltOperator(e, n, T, R) /\ BuiltAccess(e, n, T, U)
    /\ BuiltWrite(e, n, T, D)

\* Built, for the tasks and records of this state and of the next one
LEMMA BuiltMeans ==
  /\ \A e, n : Built(e, n) <=> BuiltIn(e, n, Tasks, uses, drives, DOMAIN netNodeToRtl)
  /\ UNCHANGED StaticVars =>
       \A e, n : Built(e, n)' <=> BuiltIn(e, n, Tasks', uses', drives', DOMAIN netNodeToRtl')
<1>1. ASSUME NEW e, NEW n
      PROVE  Built(e, n) <=> BuiltIn(e, n, Tasks, uses, drives, DOMAIN netNodeToRtl)
  BY ServedMeans DEF Built, BuiltIn, BuiltOperator, BuiltAccess, BuiltWrite, OfNode, HasRtl
<1>2. ASSUME UNCHANGED StaticVars, NEW e, NEW n
      PROVE  Built(e, n)' <=> BuiltIn(e, n, Tasks', uses', drives', DOMAIN netNodeToRtl')
  <2>1. net' = net /\ IsWrite(n)' = IsWrite(n)
        /\ \A d, m : Served(d, e, m)' <=> ServedIn(d, e, m, Tasks', uses')
    BY <1>2, ServedMeans, StaticNet DEF StaticVars
  <2>2. /\ OfNode("alloc", e, n)' <=> \E t \in Tasks' : t.step = "alloc" /\ t.elm = e
             /\ t.node = n
        /\ OfNode("create", e, n)' <=> \E t \in Tasks' : t.step = "create" /\ t.elm = e
             /\ t.node = n
        /\ OfNode("drive", e, n)' <=> \E t \in Tasks' : t.step = "drive" /\ t.elm = e
             /\ t.node = n
        /\ OfNode("io", e, n)' <=> \E t \in Tasks' : t.step = "io" /\ t.elm = e /\ t.node = n
        /\ HasRtl(e, n)' <=> <<e, n>> \in DOMAIN netNodeToRtl'
    BY DEF OfNode, HasRtl
  <2>3. \A d : Served(e, d, n)' <=> ServedIn(e, d, n, Tasks', uses')
    BY <1>2, ServedMeans
  <2>4. QED
    BY <2>1, <2>2, <2>3 DEF Built, BuiltIn, BuiltOperator, BuiltAccess, BuiltWrite
<1>3. QED
  BY <1>1, <1>2

\* Once built, or about to be, a node stays so.
LEMMA StaysBuilt ==
  ASSUME BuildInput, ResourcesOK, Building, BuildStep, ~ AllocFailed', NEW e, NEW n \in Node,
         BuiltIn(e, n, Tasks, uses, drives, DOMAIN netNodeToRtl)
  PROVE  BuiltIn(e, n, Tasks', uses', drives', DOMAIN netNodeToRtl')
<1> DEFINE h == Head(todo)
<1>1. /\ uses \subseteq uses' /\ drives \subseteq drives'
      /\ DOMAIN netNodeToRtl \subseteq DOMAIN netNodeToRtl'
      /\ AllocInput /\ AllocOK
  BY RecordGrows DEF BuildInput
<1>2. ASSUME NEW t \in Tasks, t \notin Tasks'
      PROVE  t = h /\ Performed(t.step)
  BY <1>1, <1>2, TaskTaken
<1>3. ASSUME NEW t \in Tasks, t \notin Tasks', t.step = "alloc", t.elm = e, t.node = n
      PROVE  /\ net.kind[n] = "op" => <<e, n>> \in DOMAIN netNodeToRtl'
                  \/ TaskOf("create", e, n) \in Tasks'
             /\ IsWrite(n) => TaskOf("drive", e, n) \in Tasks'
  <2>1. t = h /\ AllocateRtlInstance
    BY <1>2, <1>3 DEF Performed
  <2>2. IsWrite(n) => ~ HasRtl(e, n)
    BY DEF ResourcesOK, HasRtl
  <2>3. \/ HasRtl(e, n)
        \/ net.kind[n] \notin {"io", "op"}
        \/ IsRead(n)
        \/ IsWrite(n) /\ TaskOf("drive", e, n) \in Tasks'
        \/ net.kind[n] = "op" /\ TaskOf("create", e, n) \in Tasks'
    BY <1>1, <1>3, <2>1, AllocEffect DEF Replaced
  <2>4. QED
    BY <1>1, <2>2, <2>3 DEF HasRtl, IsRead, IsWrite
<1>4. ASSUME NEW t \in Tasks, t \notin Tasks', t.step = "create", t.elm = e, t.node = n
      PROVE  <<e, n>> \in DOMAIN netNodeToRtl'
  <2>1. t = h /\ CreateOutput
    BY <1>2, <1>4 DEF Performed
  <2>2. NewTir(e, n, scheduledOut[n] + Eps)
    BY <1>1, <1>4, <2>1, CreateEffect
  <2>3. QED
    BY <2>2 DEF NewTir
<1>5. ASSUME NEW t \in Tasks, t \notin Tasks', t.step = "drive", t.elm = e, t.node = n
      PROVE  <<e, n>> \in drives'
  <2>1. t = h /\ Drive
    BY <1>2, <1>5 DEF Performed
  <2>2. QED
    BY <1>1, <1>5, <2>1, DriveEffect
<1>6. ASSUME NEW t \in Tasks, t \notin Tasks', t.step = "io", t.elm = e, t.node = n,
             net.kind[n] = "io"
      PROVE  \A d \in net.dataDeps[n] : ServedIn(e, d, n, Tasks', uses')
  <2>1. t = h /\ CopyChannelSync
    BY <1>2, <1>6 DEF Performed
  <2>2. ASSUME NEW d \in net.dataDeps[n], ~ IsConst(d)
        PROVE  GetCall(e, d, scheduledOut[n], <<"node", n>>) \in Tasks'
    BY <1>1, <1>6, <2>1, <2>2, IoEffect DEF Replaced
  <2>3. scheduledOut[n] = scheduledIn[n]
    BY <1>1, <1>6 DEF AllocInput, AccessesInstant
  <2>4. QED
    BY <2>2, <2>3 DEF ServedIn, GetCall
<1>7. /\ TaskOf("create", e, n).step = "create" /\ TaskOf("create", e, n).elm = e
           /\ TaskOf("create", e, n).node = n
      /\ TaskOf("drive", e, n).step = "drive" /\ TaskOf("drive", e, n).elm = e
           /\ TaskOf("drive", e, n).node = n
  BY DEF TaskOf
<1>8. BuiltOperator(e, n, Tasks', DOMAIN netNodeToRtl')
  BY <1>1, <1>3, <1>4, <1>7 DEF BuiltOperator, BuiltIn
<1>9. BuiltAccess(e, n, Tasks', uses')
  BY <1>1, <1>6, StaysServed DEF BuiltAccess, BuiltIn
<1>10. BuiltWrite(e, n, Tasks', drives')
  BY <1>1, <1>3, <1>5, <1>7 DEF BuiltWrite, BuiltIn
<1>11. QED
  BY <1>8, <1>9, <1>10 DEF BuiltIn

\* Every node of every element is going to be visited, or built.
LEMMA NodesNext ==
  BuildInput /\ ResourcesOK /\ NodesBuilt /\ [HlsNext]_hlsVars => NodesBuilt'
<1> SUFFICES ASSUME BuildInput, ResourcesOK, NodesBuilt, [HlsNext]_hlsVars, Building'
             PROVE  NodesBuilt'
  BY DEF NodesBuilt
<1>1. UNCHANGED StaticVars /\ ~ AllocFailed' /\ (Declare \/ BuildStep)
  BY BuildingStep DEF BuildInput
<1>2. archElements' = archElements
  BY <1>1 DEF StaticVars
<1>3. ASSUME \A e \in DOMAIN archElements : \A s \in DOMAIN archElements[e].nodes :
               \A n \in ToSet(archElements[e].nodes[s]) :
                 \/ OfElement(e)' \/ OfStage(e, s)' \/ OfNode("node", e, n)'
                 \/ BuiltIn(e, n, Tasks', uses', drives', DOMAIN netNodeToRtl')
      PROVE  NodesBuilt'
  BY <1>1, <1>2, <1>3, BuiltMeans DEF NodesBuilt
<1>4. CASE Declare
  <2>1. \A e \in DOMAIN archElements : OfElement(e)'
    BY <1>4, DeclareEffect DEF BuildInput
  <2>2. QED
    BY <1>3, <2>1
<1>5. CASE BuildStep
  <2> DEFINE h == Head(todo)
             built(e, n) == BuiltIn(e, n, Tasks', uses', drives', DOMAIN netNodeToRtl')
  <2> SUFFICES ASSUME NEW e \in DOMAIN archElements, NEW s \in DOMAIN archElements[e].nodes,
                      NEW n \in ToSet(archElements[e].nodes[s])
               PROVE  OfElement(e)' \/ OfStage(e, s)' \/ OfNode("node", e, n)' \/ built(e, n)
    BY <1>3
  <2>1. n \in Node
    BY ElementFacts DEF BuildInput, AllocOK
  <2>2. /\ Building
        /\ \/ OfElement(e) \/ OfStage(e, s) \/ OfNode("node", e, n)
           \/ BuiltIn(e, n, Tasks, uses, drives, DOMAIN netNodeToRtl)
    BY <1>5, BuiltMeans DEF NodesBuilt, BuildStep
  <2>3. BuiltIn(e, n, Tasks, uses, drives, DOMAIN netNodeToRtl) => built(e, n)
    BY <1>1, <1>5, <2>1, <2>2, StaysBuilt
  <2>4. ASSUME NEW t \in Tasks, t \notin Tasks'
        PROVE  t = h /\ Performed(t.step)
    BY <1>1, <1>5, <2>4, TaskTaken DEF BuildInput
  <2>5. ASSUME NEW t \in Tasks, t \notin Tasks', t.step = "element", t.elm = e
        PROVE  OfStage(e, s)'
    <3>1. t = h /\ LoopOverStages
      BY <2>4, <2>5 DEF Performed
    <3>2. [step |-> "stage", elm |-> e, stage |-> s] \in Tasks'
      BY <2>5, <3>1, StagesEffect DEF BuildInput
    <3>3. QED
      BY <3>2 DEF OfStage
  <2>6. ASSUME NEW t \in Tasks, t \notin Tasks', t.step = "stage", t.elm = e, t.stage = s
        PROVE  OfNode("node", e, n)'
    <3>1. t = h /\ LoopOverNodes /\ allocPhase = "build"
      BY <2>4, <2>6 DEF Performed
    <3>2. [step |-> "node", elm |-> e, node |-> n] \in Tasks'
      BY <2>6, <3>1, NodesEffect DEF BuildInput
    <3>3. QED
      BY <3>2 DEF OfNode
  <2>7. ASSUME NEW t \in Tasks, t \notin Tasks', t.step = "node", t.elm = e, t.node = n
        PROVE  built(e, n)
    <3>1. t = h /\ AllocateDataPath
      BY <2>4, <2>7 DEF Performed
    <3>2. /\ TaskOf("alloc", e, n) \in Tasks'
          /\ net.kind[n] = "io" => TaskOf("io", e, n) \in Tasks'
      BY <2>7, <3>1, NodeEffect DEF BuildInput, Replaced
    <3>3. /\ TaskOf("alloc", e, n).step = "alloc" /\ TaskOf("alloc", e, n).elm = e
               /\ TaskOf("alloc", e, n).node = n
          /\ TaskOf("io", e, n).step = "io" /\ TaskOf("io", e, n).elm = e
               /\ TaskOf("io", e, n).node = n
      BY DEF TaskOf
    <3>4. QED
      BY <3>2, <3>3 DEF BuiltIn, BuiltOperator, BuiltAccess, BuiltWrite
  <2>8. OfElement(e) => OfElement(e)' \/ OfStage(e, s)'
    BY <2>5 DEF OfElement
  <2>9. OfStage(e, s) => OfStage(e, s)' \/ OfNode("node", e, n)'
    BY <2>6 DEF OfStage
  <2>10. OfNode("node", e, n) => OfNode("node", e, n)' \/ built(e, n)
    BY <2>7 DEF OfNode
  <2> HIDE DEF built
  <2>11. QED
    BY <2>2, <2>3, <2>8, <2>9, <2>10
<1>6. QED
  BY <1>1, <1>4, <1>5

-----------------------------------------------------------------------------
\* An element allocates what its nodes need.

\* An element allocates its nodes, and with a node all it needs, but for a value
\* which comes from another element.
LEMMA AllocatesFacts ==
  /\ \A e, n : n \in Node /\ IsOwner(e, n) => Allocates(e, n)
  /\ \A e, m, d : /\ Allocates(e, m) /\ <<e, m>> \notin Crossings
                  /\ d \in (IF IsRead(m) THEN Deps(m) ELSE net.dataDeps[m])
                  => Allocates(e, d)
<1>1. ASSUME NEW e, NEW n \in Node, IsOwner(e, n)
      PROVE  Allocates(e, n)
  BY <1>1 DEF Allocates, IsOwner
<1>2. ASSUME NEW e, NEW m, NEW d, Allocates(e, m), <<e, m>> \notin Crossings,
             d \in (IF IsRead(m) THEN Deps(m) ELSE net.dataDeps[m])
      PROVE  Allocates(e, d)
  <2> HIDE DEF Crossings
  <2>1. SUFFICES ASSUME NEW S \in SUBSET Node, NodesOf(archElements[e]) \subseteq S,
                        \A k \in S : <<e, k>> \notin Crossings =>
                            (IF IsRead(k) THEN Deps(k) ELSE net.dataDeps[k]) \subseteq S
                 PROVE  d \in S
    BY DEF Allocates
  <2>2. m \in S
    BY <1>2, <2>1 DEF Allocates
  <2>3. QED
    BY <1>2, <2>1, <2>2
<1>3. QED
  BY <1>1, <1>2

\* What an element allocates does not change after the split.
LEMMA StaticAllocates ==
  ASSUME UNCHANGED StaticVars
  PROVE  \A e, n : Allocates(e, n)' <=> Allocates(e, n)
<1>1. /\ archElements' = archElements /\ net' = net
      /\ \A n : IsRead(n)' = IsRead(n) /\ Deps(n)' = Deps(n)
  BY StaticNet DEF StaticVars
<1>2. \A e : NodesOf(archElements[e])' = NodesOf(archElements[e])
  BY <1>1 DEF NodesOf
<1>3. \A m : (IF IsRead(m) THEN Deps(m) ELSE net.dataDeps[m])'
      = (IF IsRead(m) THEN Deps(m) ELSE net.dataDeps[m])
  BY <1>1
<1>4. Crossings' = Crossings
  BY StaticCrossings
<1>5. QED
  BY <1>2, <1>3, <1>4 DEF Allocates

\* The recursion never leaves what the nodes of the element depend on.
LEMMA AllocatedNext ==
  BuildInput /\ ResourcesOK /\ AllocatedOK /\ [HlsNext]_hlsVars => AllocatedOK'
<1> SUFFICES ASSUME BuildInput, ResourcesOK, AllocatedOK, [HlsNext]_hlsVars, Building'
             PROVE  AllocatedOK'
  BY DEF AllocatedOK
<1>1. UNCHANGED StaticVars /\ ~ AllocFailed' /\ (Declare \/ BuildStep)
  BY BuildingStep DEF BuildInput
<1>2. \A e, n : Allocates(e, n)' <=> Allocates(e, n)
  BY <1>1, StaticAllocates
<1>3. ASSUME \A t \in Tasks' : t.step \in {"node", "alloc", "operand", "drive"}
             => Allocates(t.elm, t.node),
             \A x \in drives' : Allocates(x[1], x[2])
      PROVE  AllocatedOK'
  BY <1>2, <1>3 DEF AllocatedOK
<1>4. CASE Declare
  BY <1>3, <1>4, DeclareEffect DEF BuildInput
<1>5. CASE BuildStep
  <2> DEFINE h == Head(todo)
  <2>1. /\ \A t \in Tasks : t.step \in {"node", "alloc", "operand", "drive"}
             => Allocates(t.elm, t.node)
        /\ \A x \in drives : Allocates(x[1], x[2])
    BY <1>5 DEF AllocatedOK, BuildStep
  <2>2. ASSUME NEW t \in Tasks', t.step \in {"node", "alloc", "operand", "drive"}
        PROVE  Allocates(t.elm, t.node)
    <3>1. CASE t \notin Tasks
      <4>1. h \in Tasks /\ PartOf(t, h)
        BY <1>1, <1>5, <3>1, TaskNew DEF BuildInput
      <4>2. h.step \in {"node", "alloc", "operand", "drive"} => Allocates(h.elm, h.node)
        BY <2>1, <4>1
      <4>3. CASE t.step = "node"
        <5>1. IsOwner(t.elm, t.node)
          BY <4>1, <4>3, HandOverFacts DEF PartOf, TaskOf, GetCall, OperandTasks
        <5>2. t.node \in Node
          <6>1. AllocOK'
            BY AllocNext DEF BuildInput
          <6>2. TaskOK(t, archElements')
            BY <6>1 DEF AllocOK, TodoOK
          <6>3. QED
            BY <4>3, <6>2 DEF TaskOK
        <5>3. QED
          BY <5>1, <5>2, AllocatesFacts
      <4>4. CASE t.step # "node"
        <5>1. \/ t.elm = h.elm /\ t.node = h.node /\ h.step \in {"node", "alloc", "operand"}
              \/ h.step = "alloc" /\ t.elm = h.elm /\ ~ HasRtl(h.elm, h.node)
                   /\ t.node \in (IF IsRead(h.node) THEN Deps(h.node)
                                                    ELSE net.dataDeps[h.node])
          BY <2>2, <4>1, <4>4, HandOverFacts DEF PartOf, TaskOf, GetCall, OperandTasks
        <5>2. HasRtl(h.elm, h.node) \/ <<h.elm, h.node>> \notin Crossings
          BY <1>5 DEF ResourcesOK, BuildStep, HasRtl
        <5>3. QED
          BY <4>2, <5>1, <5>2, AllocatesFacts
      <4>5. QED
        BY <4>3, <4>4
    <3>2. QED
      BY <2>1, <2>2, <3>1
  <2>3. ASSUME NEW x \in drives'
        PROVE  Allocates(x[1], x[2])
    <3>1. x \in drives \/ (h \in Tasks /\ h.step = "drive" /\ x = <<h.elm, h.node>>)
      BY <1>1, <1>5, RecordGrows DEF BuildInput
    <3>2. QED
      BY <2>1, <3>1
  <2>4. QED
    BY <1>3, <2>2, <2>3
<1>6. QED
  BY <1>1, <1>4, <1>5

-----------------------------------------------------------------------------
\* The invariant of allocate(), and what follows from it at the end.

\* The inductive invariant of allocate()
AllocInv ==
  /\ AllocOK /\ NodesCovered /\ ConnectionsSound /\ ConnectionsComplete /\ NothingBuilt
  /\ ResourcesOK /\ HandedOK /\ SyncOK
  /\ UsesOK /\ OperatorsServed /\ NodesBuilt /\ AllocatedOK

\* The invariant holds before allocate() starts.
LEMMA AllocInvInit == HlsInit => AllocInv
<1> SUFFICES ASSUME HlsInit
             PROVE  AllocInv
  OBVIOUS
<1>1. /\ allocPhase = "idle" /\ connections = <<>>
      /\ uses = {} /\ drives = {} /\ syncAdded = {}
  BY DEF HlsInit, InitAllocator
<1>2. AllocOK
  BY AllocInit
<1>3. NodesCovered /\ ConnectionsSound /\ ConnectionsComplete /\ NothingBuilt
  BY <1>1 DEF NodesCovered, Split, ConnectionsSound, Analyzed, ConnectionsComplete,
     NothingBuilt
<1>4. /\ ResourcesOK /\ HandedOK /\ SyncOK
      /\ UsesOK /\ OperatorsServed /\ NodesBuilt /\ AllocatedOK
  BY <1>1 DEF ResourcesOK, HandedOK, SyncOK, UsesOK, OperatorsServed, NodesBuilt,
     AllocatedOK, Building
<1>5. QED
  BY <1>2, <1>3, <1>4 DEF AllocInv

\* Every step preserves it.
LEMMA AllocInvNext == AllocInput /\ AllocInv /\ [HlsNext]_hlsVars => AllocInv'
<1> SUFFICES ASSUME AllocInput, AllocInv, [HlsNext]_hlsVars
             PROVE  AllocInv'
  OBVIOUS
<1>1. BuildInput
  BY DEF AllocInv, BuildInput
<1>2. AllocOK' /\ NodesCovered' /\ ConnectionsSound' /\ ConnectionsComplete' /\ NothingBuilt'
  BY AllocNext, CoveredNext, SoundNext, CompleteNext, NothingNext DEF AllocInv
<1>3. ResourcesOK' /\ HandedOK' /\ SyncOK'
  BY <1>1, ResourcesNext, HandedNext, SyncNext DEF AllocInv
<1>4. UsesOK' /\ OperatorsServed' /\ NodesBuilt' /\ AllocatedOK'
  BY <1>1, UsesNext, OperatorsNext, NodesNext, AllocatedNext DEF AllocInv
<1>5. QED
  BY <1>2, <1>3, <1>4 DEF AllocInv

\* The invariant of allocate() holds, together with what schedule() handed over.
LEMMA AllocInvariant == HlsSpec => [](AllocInput /\ AllocInv)
<1>1. HlsSpec => HlsInit /\ [][HlsNext]_hlsVars
  BY DEF HlsSpec
<1>2. QED
  BY <1>1, AllocInvInit, AllocInvNext, ScheduleHandedOver, PTL

\* At the end all tasks are done.
LEMMA NothingLeft ==
  ASSUME AllocInv, allocPhase = "done"
  PROVE  Tasks = {} /\ Building /\ Analyzed /\ Split
<1>1. \A t \in Tasks : t.step \in StepsIn("done")
  BY DEF AllocInv, AllocOK, TodoOK, AllocFailed
<1>2. StepsIn("done") = {}
  BY DEF StepsIn
<1>3. QED
  BY <1>1, <1>2 DEF Building, Analyzed, Split

\* A value that crosses elements was handed over, at the time it was declared for.
LEMMA HandedAtEnd ==
  ASSUME AllocInput, AllocInv, allocPhase = "done", NEW c \in ToSet(connections)
  PROVE  LET o == c[1]
             dst == Owner(c[2])
         IN  /\ HandedIndexes(o, dst) # {}
             /\ \A i \in HandedIndexes(o, dst) :
                  i = HandedAt(o, dst) - start_clk(TirTime(Owner(o), o))
             /\ ~ NeedsBuffer(o, dst)
             /\ <<HandedAt(o, dst), {Owner(o), dst}>> \in syncAdded
<1> DEFINE o == c[1]
           dst == Owner(c[2])
           user == <<"element", dst>>
           U == UsesOf(Owner(o), o, user)
<1>1. Tasks = {} /\ Building
  BY NothingLeft
<1>2. U # {}
  BY <1>1 DEF AllocInv, HandedOK, OfInput, GetPending, IsConnected
<1>3. \A u \in U : u \in uses /\ u.user[1] = "element" /\ u.user[2] = dst /\ u.value = o
      /\ u.elm = Owner(o)
  BY DEF UsesOf
<1>4. HandedIndexes(o, dst) = {u.index : u \in U}
  BY DEF HandedIndexes
<1> HIDE DEF U
<1>5. \A u \in U : u.index = HandedAt(o, dst) - start_clk(TirTime(Owner(o), o))
      /\ Synced(o, dst)
  BY <1>1, <1>3 DEF AllocInv, SyncOK
<1>6. Synced(o, dst)
  BY <1>2, <1>5
<1>7. QED
  BY <1>1, <1>2, <1>4, <1>5, <1>6 DEF Synced

\* What the invariant says of the crossing values when no task is left
LEMMA CrossedAtEnd == AllocInput /\ AllocInv => CrossedWithHandshake
<1> SUFFICES ASSUME AllocInput, AllocInv, allocPhase = "done", NEW x \in Crossings
             PROVE  LET src   == Owner(x[2])
                        clk_i == start_clk(UseTime(x[2], x[1]))
                    IN  /\ ~ NeedsBuffer(x[2], x[1])
                        /\ <<clk_i, {src, x[1]}>> \in syncAdded
                        /\ {<<src, clk_i>>, <<x[1], clk_i>>} \subseteq DOMAIN stageSignals
                        /\ \A h \in HandedIndexes(x[2], x[1]) :
                             start_clk(netNodeToRtl[<<src, x[2]>>].timeOffset) + h = clk_i
  BY DEF CrossedWithHandshake
<1>1. PICK c \in ToSet(connections) : x = <<Owner(c[2]), c[1]>>
  BY DEF Crossings
<1> DEFINE o == c[1]
           dst == Owner(c[2])
           src == Owner(o)
           k == HandedAt(o, dst)
           y == <<src, o>>
<1>2. BuildInput /\ ResourcesOK /\ SyncOK /\ HandedOK /\ Building /\ Analyzed
  BY NothingLeft DEF AllocInv, BuildInput
<1>3. UseTime(o, dst) = FirstUseTime(o, dst)
  <2>1. <<dst, o>> \in DOMAIN netNodeToRtl
        /\ netNodeToRtl[<<dst, o>>].timeOffset = TirTime(dst, o)
    BY <1>1, <1>2 DEF ResourcesOK
  <2>2. QED
    BY <1>1, <2>1 DEF UseTime, TirTime
<1>4. start_clk(UseTime(o, dst)) = k
  BY <1>3 DEF HandedAt
<1>5. /\ HandedIndexes(o, dst) # {}
      /\ \A i \in HandedIndexes(o, dst) : i = k - start_clk(TirTime(src, o))
      /\ ~ NeedsBuffer(o, dst)
      /\ <<k, {src, dst}>> \in syncAdded
  BY HandedAtEnd
<1>6. {<<src, k>>, <<dst, k>>} \subseteq DOMAIN stageSignals
  <2> DEFINE s == <<k, {src, dst}>>
  <2>1. s \in syncAdded /\ s[1] = k /\ s[2] = {src, dst}
    BY <1>5
  <2> HIDE DEF s
  <2>2. \A e \in {src, dst} : <<e, k>> \in DOMAIN stageSignals
    BY <1>2, <2>1 DEF SyncOK
  <2>3. QED
    BY <2>2
<1>7. y \in DOMAIN netNodeToRtl
  <2>1. PICK u \in uses : u.elm = src /\ u.value = o
    BY <1>5 DEF HandedIndexes, UsesOf
  <2>2. QED
    BY <1>2, <2>1 DEF ResourcesOK
<1>8. netNodeToRtl[y].timeOffset = TirTime(src, o)
  BY <1>2, <1>7 DEF ResourcesOK
<1>9. k \in Int
  <2>1. HandedAt(x[2], x[1]) \in Int
    BY <1>2, FirstUseTimeTyped DEF BuildInput
  <2>2. QED
    BY <1>1, <2>1
<1>10. start_clk(TirTime(src, o)) \in Int
  <2>1. o \in Node
    BY <1>2, ConnectionFacts DEF BuildInput
  <2>2. QED
    BY <1>2, <2>1, TirTimeTyped, ClkBounds DEF BuildInput
<1>11. \A i \in HandedIndexes(o, dst) : start_clk(netNodeToRtl[y].timeOffset) + i = k
  BY <1>5, <1>8, <1>9, <1>10
<1> HIDE DEF k
<1>12. x[2] = o /\ x[1] = dst
  BY <1>1
<1> HIDE DEF o, dst
<1>13. QED
  BY <1>4, <1>5, <1>6, <1>11, <1>12

\* What the invariant says of the writes when no task is left
LEMMA WritesAtEnd == AllocInput /\ AllocInv => WritesDrivenOnce
<1> SUFFICES ASSUME AllocInput, AllocInv, allocPhase = "done", NEW w \in Node, IsWrite(w)
             PROVE  /\ <<Owner(w), w>> \in drives
                    /\ ~ ReadAfterElsewhere(w) =>
                         \A e \in DOMAIN archElements : <<e, w>> \in drives => e = Owner(w)
  BY DEF WritesDrivenOnce
<1>1. Tasks = {} /\ Building /\ Split
  BY NothingLeft
<1>2. PICK s \in DOMAIN archElements[Owner(w)].nodes :
      w \in ToSet(archElements[Owner(w)].nodes[s])
  BY <1>1, OwnerFacts DEF AllocInv, AllocOK
<1>3. Owner(w) \in DOMAIN archElements
  BY <1>1, OwnerFacts DEF AllocInv, AllocOK
<1>4. Built(Owner(w), w)
  BY <1>1, <1>2, <1>3 DEF AllocInv, NodesBuilt, OfElement, OfStage, OfNode
<1>5. <<Owner(w), w>> \in drives
  BY <1>1, <1>4 DEF Built, OfNode
<1>6. ASSUME NEW e \in DOMAIN archElements, <<e, w>> \in drives, e # Owner(w)
      PROVE  ReadAfterElsewhere(w)
  <2> DEFINE x == <<e, w>>
  <2>1. Allocates(x[1], x[2])
    BY <1>1, <1>6 DEF AllocInv, AllocatedOK
  <2>2. QED
    BY <1>6, <2>1 DEF ReadAfterElsewhere
<1>7. QED
  BY <1>5, <1>6

\* What the invariant says of the operands when no task is left: the registers
\* before the boundary and those behind it add up to the distance of the clks.
LEMMA ValueAtEnd == AllocInput /\ AllocInv => ValueOfItsClk
<1> SUFFICES ASSUME AllocInput, AllocInv, allocPhase = "done",
                    NEW m \in Node, NEW d \in net.dataDeps[m],
                    net.kind[m] # "gate", ~ IsConst(d),
                    AwayFromNextClk(scheduledIn[m]), AwayFromNextClk(scheduledOut[d])
             PROVE  \E u \in UsesOf(Owner(m), d, <<"node", m>>) :
                      \E h \in IF Owner(d) = Owner(m) THEN {0}
                          ELSE HandedIndexes(d, Owner(m)) :
                        u.index + h = InClk(m) - OutClk(d)
  BY DEF ValueOfItsClk
<1> DEFINE e == Owner(m)
<1>1. Tasks = {} /\ Building /\ Split /\ Analyzed
  BY NothingLeft
<1>2. BuildInput
  BY DEF AllocInv, BuildInput
<1>3. /\ d \in Node /\ d \in Deps(m) /\ ~ IsWrite(d)
      /\ net.kind[m] \in {"op", "io"}
      /\ scheduledIn[m] \in Int /\ scheduledOut[d] \in Int /\ OutClk(d) \in Int
  <2>1. net.kind[m] \in Kind /\ net.kind[m] # "const"
    BY NetFacts
  <2>2. QED
    BY <2>1, NetFacts DEF Kind
<1>4. InClk(m) = start_clk(scheduledIn[m]) /\ InClk(m) \in Int
  BY <1>3, NetFacts DEF InClk
<1>5. Served(e, d, m)
  <2>1. e \in DOMAIN archElements
    BY <1>1, OwnerFacts DEF AllocInv, AllocOK
  <2>2. Built(e, m)
    <3>1. PICK s \in DOMAIN archElements[e].nodes : m \in ToSet(archElements[e].nodes[s])
      BY <1>1, OwnerFacts DEF AllocInv, AllocOK
    <3>2. QED
      BY <1>1, <2>1, <3>1 DEF AllocInv, NodesBuilt, OfElement, OfStage, OfNode
  <2>3. CASE net.kind[m] = "io"
    BY <1>1, <2>2, <2>3 DEF Built, OfNode
  <2>4. CASE net.kind[m] = "op"
    <3>1. HasRtl(e, m)
      BY <1>1, <2>2, <2>4 DEF Built, OfNode
    <3>2. <<e, m>> \notin Crossings
      BY <1>1, <1>2, OwnIsNoCrossing DEF BuildInput
    <3>3. QED
      BY <1>1, <2>1, <2>4, <3>1, <3>2 DEF AllocInv, OperatorsServed
  <2>5. QED
    BY <1>3, <2>3, <2>4
<1>6. PICK u \in UsesOf(e, d, <<"node", m>>) : TRUE
  BY <1>1, <1>5 DEF Served, GetPending
<1>7. u \in uses /\ u.elm = e /\ u.value = d /\ u.user[1] = "node" /\ u.user[2] = m
  BY <1>6 DEF UsesOf
<1>8. TirTime(e, d) \in Int /\ start_clk(TirTime(e, d)) \in Int
  BY <1>1, <1>2, <1>3, TirTimeTyped, ClkBounds DEF BuildInput
<1>9. u.index = InClk(m) - start_clk(TirTime(e, d))
  <2>1. u.index = NodeIndex(e, d, m)
    BY <1>1, <1>7 DEF AllocInv, UsesOK
  <2>2. NodeIndex(e, d, m) = start_clk(scheduledIn[m] + Eps) - start_clk(TirTime(e, d))
    <3> DEFINE tir == [timeOffset |-> TirTime(e, d), len |-> 1]
    <3>1. tir.timeOffset = TirTime(e, d)
      OBVIOUS
    <3>2. NodeIndex(e, d, m) = IndexFor(tir, scheduledIn[m])
      BY DEF NodeIndex
    <3> HIDE DEF tir
    <3>3. QED
      BY <1>3, <1>8, <3>1, <3>2, IndexIsDistance
  <2>3. QED
    BY <1>4, <2>1, <2>2 DEF AwayFromNextClk
<1>10. ASSUME NEW f, <<f, d>> \notin Crossings
       PROVE  start_clk(TirTime(f, d)) = OutClk(d)
  BY <1>10 DEF TirTime, AwayFromNextClk, OutClk
<1>11. CASE Owner(d) = e
  <2>1. start_clk(TirTime(e, d)) = OutClk(d)
    BY <1>1, <1>2, <1>10, <1>11, OwnIsNoCrossing DEF BuildInput
  <2>2. u.index + 0 = InClk(m) - OutClk(d)
    BY <1>3, <1>4, <1>9, <2>1
  <2>3. QED
    BY <1>6, <1>11, <2>2
<1>12. CASE Owner(d) # e
  <2> DEFINE c == <<d, m>>
             k == HandedAt(d, e)
             o == c[1]
             dst == Owner(c[2])
  <2>1. c \in ToSet(connections)
    BY <1>1, <1>12 DEF AllocInv, ConnectionsComplete, Crosses
  <2>2. o = d /\ dst = e
    OBVIOUS
  <2>3. /\ HandedIndexes(o, dst) # {}
        /\ \A i \in HandedIndexes(o, dst) :
             i = HandedAt(o, dst) - start_clk(TirTime(Owner(o), o))
    <3> HIDE DEF c
    <3>1. QED
      BY <2>1, HandedAtEnd
  <2>4. PICK h \in HandedIndexes(d, e) : h = k - start_clk(TirTime(Owner(d), d))
    BY <2>2, <2>3
  <2>5. start_clk(TirTime(Owner(d), d)) = OutClk(d)
    BY <1>1, <1>2, <1>10, OwnIsNoCrossing DEF BuildInput
  <2>6. <<e, d>> \in Crossings
    BY <2>1, <2>2, CrossingOfConnection
  <2>7. TirTime(e, d) = FirstUseTime(d, e) /\ start_clk(TirTime(e, d)) = k
    BY <2>6 DEF TirTime, HandedAt
  <2>8. u.index + h = InClk(m) - OutClk(d)
    BY <1>3, <1>4, <1>8, <1>9, <2>4, <2>5, <2>7
  <2>9. QED
    BY <1>6, <1>12, <2>4, <2>8
<1>13. QED
  BY <1>11, <1>12

-----------------------------------------------------------------------------
\* _finalizeInterElementsConnections: for every netlist, every schedule and
\* every split of it, allocate() ends with each crossing value handed over in a
\* clk in which both elements have a stage or a state and are connected by a
\* handshake; the value taken there is that of this clk, and no value which would
\* need a buffer between two FSMs is overlooked.
THEOREM HandedOverInOneClk == HlsSpec => []CrossedWithHandshake
  BY AllocInvariant, CrossedAtEnd, PTL

\* allocateDataPath of the elements, with the recursion through the nodes: every
\* write assigns its interface in its own element; another element assigns it only
\* if it allocates a read that is ordered after the write.
THEOREM OutputsHaveOneDriver == HlsSpec => []WritesDrivenOnce
  BY AllocInvariant, WritesAtEnd, PTL

\* TimeIndependentRtlResource.get, the declaration of crossing values and their
\* connection together: every operand passes exactly one register for each clk
\* between its definition and its use, although the time of the first use that
\* decides where it is handed over may have been moved, and epsilon is added to
\* some of the times and not to others.
THEOREM OperandsOfTheirClk == HlsSpec => []ValueOfItsClk
  BY AllocInvariant, ValueAtEnd, PTL

=============================================================================
