---------------------------- MODULE RtlDatapath ----------------------------
(***************************************************************************)
(* The RTL objects an architectural element builds for its nodes           *)
(* (allocator/time_independent_rtl_resource.py, architecturalElement.py,   *)
(* the allocateDataPath methods of both containers and the                 *)
(* allocateRtlInstance methods of the nodes).                              *)
(*                                                                         *)
(* The code is recursive through the dependencies of a node: the steps     *)
(* below take a call from todo and put the calls it makes in its place.    *)
(* Left out: the expression built from the operands, and nodes whose       *)
(* operands are all constant.                                              *)
(***************************************************************************)
EXTENDS ArchElements

VARIABLES
  netNodeToRtl,  \* <<element, node>> -> the TimeIndependentRtlResource of the
                 \* value of the node in the element: the time its first signal
                 \* is for, and the length of the chain of registers behind it
  stageSignals,  \* <<element, clk>> -> the nodes whose value is registered in
                 \* the stage or state of that clk (SignalsOfStages); its domain
                 \* is the set of stages and states which exist
  uses,          \* which register of a chain each user got
  drives         \* <<element, write>> of the assignments to output interfaces

rtlVars == <<netNodeToRtl, stageSignals, uses, drives>>

DataDeps(n) == Listed[net.dataDeps[n]]
HasRtl(e, n) == <<e, n>> \in DOMAIN netNodeToRtl

IsConst(n) == net.kind[n] = "const"

NewTir(e, n, time) ==
  netNodeToRtl' = [x \in {<<e, n>>} \cup DOMAIN netNodeToRtl |->
                     IF x = <<e, n>> THEN [timeOffset |-> time, len |-> 1] ELSE netNodeToRtl[x]]

\* A call of step on each of the nodes.
OnEach(nodes, step, e) == [i \in DOMAIN nodes |-> [step |-> step, elm |-> e, node |-> nodes[i]]]

-----------------------------------------------------------------------------
\* TimeIndependentRtlResource.get

\* Mutation: the last register of the chain, whatever the time.
LatestIndex(tir, time) == tir.len - 1

IndexFor(tir, time) ==
  IF tir.timeOffset = time + Eps THEN 0
  ELSE start_clk(time + Eps) - start_clk(tir.timeOffset)

Extended(tir, index) == [tir EXCEPT !.len = IF index < @ THEN @ ELSE index + 1]

GetCall(e, d, time, user) ==
  [step |-> "get", elm |-> e, node |-> d, time |-> time, user |-> user]

\* The user gets the value of a node in an element for a time.
Get ==
  /\ NextIs("get")
  /\ LET x     == <<Head(todo).elm, Head(todo).node>>
         index == IndexFor(netNodeToRtl[x], Head(todo).time)
     IN  IF x \notin DOMAIN netNodeToRtl \/ index < 0
         THEN Fail("AssertionError") /\ UNCHANGED <<netNodeToRtl, uses>>
         ELSE /\ Continue(<<>>)
              /\ netNodeToRtl' = [netNodeToRtl EXCEPT ![x] = Extended(@, index)]
              /\ uses' = uses \cup {[elm |-> x[1], value |-> x[2], user |-> Head(todo).user,
                                     index |-> index]}
  /\ UNCHANGED <<stageSignals, drives>>

-----------------------------------------------------------------------------
\* AllocatorArchitecturalElement._afterOutputUsed

\* The stage of the k-th value from the end of the chain.
StageFromEnd(tir, e, k) == <<e, start_clk(tir.timeOffset + Eps) + tir.len - 1 - k>>

\* Mutation: only the stage of the use is registered, not the ones before.
NotRegisteredInItsStage(e, d) ==
  {0} \cap {k \in 0..(netNodeToRtl[<<e, d>>].len - 1) :
     \A j \in 0..k : LET stage == StageFromEnd(netNodeToRtl[<<e, d>>], e, j)
                     IN  stage \in DOMAIN stageSignals => d \notin stageSignals[stage]}

\* From the end of the chain, until the value is already registered.
NotRegisteredYet(e, d) ==
  {k \in 0..(netNodeToRtl[<<e, d>>].len - 1) :
     \A j \in 0..k : LET stage == StageFromEnd(netNodeToRtl[<<e, d>>], e, j)
                     IN  stage \in DOMAIN stageSignals => d \notin stageSignals[stage]}

Register(d, stages, tasks) ==
  IF stages \subseteq DOMAIN stageSignals
  THEN /\ Continue(tasks)
       /\ stageSignals' = [s \in DOMAIN stageSignals |->
                             IF s \in stages THEN stageSignals[s] \cup {d} ELSE stageSignals[s]]
  ELSE Fail("IndexError") /\ UNCHANGED stageSignals

AfterOutputUsed ==
  /\ NextIs("used")
  /\ LET e == Head(todo).elm
         d == Head(todo).node
     IN  Register(d, IF HasRtl(e, d)
                     THEN {StageFromEnd(netNodeToRtl[<<e, d>>], e, k) : k \in NotRegisteredYet(e, d)}
                     ELSE {},
                  <<>>)
  /\ UNCHANGED <<netNodeToRtl, uses, drives>>

\* _afterNodeInstantiated of the containers
AfterNodeInstantiated ==
  /\ NextIs("after")
  /\ LET e    == Head(todo).elm
         n    == Head(todo).node
         tir  == netNodeToRtl[<<e, n>>]
         deps == OnEach(DataDeps(n), "used", e)
     IN  IF ~ HasRtl(e, n)
         THEN Continue(deps) /\ UNCHANGED stageSignals
         ELSE IF archElements[e].fsm /\ tir.len # 1
         THEN Fail("AssertionError") /\ UNCHANGED stageSignals
         ELSE Register(n, {<<e, start_clk(tir.timeOffset)>>}, deps)
  /\ UNCHANGED <<netNodeToRtl, uses, drives>>

-----------------------------------------------------------------------------
\* instantiateHlsNetNodeOutInTime; a constant is the same at any time.
InstantiateOutInTime ==
  /\ NextIs("operand")
  /\ LET e   == Head(todo).elm
         d   == Head(todo).node
         n   == Head(todo).user
         get == IF IsConst(d) THEN <<>> ELSE <<GetCall(e, d, scheduledIn[n], <<"node", n>>)>>
     IN  IF HasRtl(e, d) THEN Continue(get)
         ELSE IF <<e, OutClk(d)>> \notin DOMAIN stageSignals THEN Fail("AssertionError")
         ELSE Continue(OnEach(<<d>>, "alloc", e) \o OnEach(<<d>>, "after", e) \o get)
  /\ UNCHANGED rtlVars

-----------------------------------------------------------------------------
\* allocateRtlInstance of the nodes

Operands(e, n) ==
  [i \in DOMAIN DataDeps(n) |->
     [step |-> "operand", elm |-> e, node |-> DataDeps(n)[i], user |-> n]]

(***************************************************************************)
(* A read allocates everything it depends on, through the ordering too,    *)
(* and without _afterNodeInstantiated.  An operator or a write needs its   *)
(* operands first.                                                         *)
(***************************************************************************)
AllocateRead(e, n) ==
  /\ NewTir(e, n, scheduledOut[n])
  /\ Continue(OnEach(Listed[Deps(n)], "alloc", e))

AllocateOperator(e, n) ==
  /\ Continue(Operands(e, n) \o OnEach(<<n>>, "create", e))
  /\ UNCHANGED netNodeToRtl

\* Mutation: a write which some element has allocated is left out.
AllocateWriteOnce(e, n) ==
  /\ Continue(IF \E d \in drives : d[2] = n THEN <<>>
              ELSE Operands(e, n) \o OnEach(<<n>>, "drive", e))
  /\ UNCHANGED netNodeToRtl

AllocateWrite(e, n) ==
  /\ Continue(Operands(e, n) \o OnEach(<<n>>, "drive", e))
  /\ UNCHANGED netNodeToRtl

AllocateRtlInstance ==
  /\ NextIs("alloc")
  /\ LET e == Head(todo).elm
         n == Head(todo).node
     IN  IF HasRtl(e, n) THEN Continue(<<>>) /\ UNCHANGED netNodeToRtl
         ELSE IF IsRead(n) THEN AllocateRead(e, n)
         ELSE IF IsWrite(n) THEN AllocateWrite(e, n)
         ELSE IF net.kind[n] = "op" THEN AllocateOperator(e, n)
         ELSE Continue(<<>>) /\ UNCHANGED netNodeToRtl
  /\ UNCHANGED <<stageSignals, uses, drives>>

CreateOutput ==
  /\ NextIs("create")
  /\ NewTir(Head(todo).elm, Head(todo).node, scheduledOut[Head(todo).node] + Eps)
  /\ Continue(<<>>)
  /\ UNCHANGED <<stageSignals, uses, drives>>

Drive ==
  /\ NextIs("drive")
  /\ drives' = drives \cup {<<Head(todo).elm, Head(todo).node>>}
  /\ Continue(<<>>)
  /\ UNCHANGED <<netNodeToRtl, stageSignals, uses>>

-----------------------------------------------------------------------------
\* The body of the loop of allocateDataPath over the nodes of a stage

\* A loop gate has no output.
wasInstantiated(e, n) == net.kind[n] # "gate" /\ ~ HasRtl(e, n)

AllocateDataPath ==
  /\ NextIs("node")
  /\ LET e == Head(todo).elm
         n == Head(todo).node
     IN  Continue(OnEach(<<n>>, "alloc", e)
                    \o (IF wasInstantiated(e, n) THEN OnEach(<<n>>, "after", e) ELSE <<>>)
                    \o (IF net.kind[n] = "io" THEN OnEach(<<n>>, "io", e) ELSE <<>>))
  /\ UNCHANGED rtlVars

(***************************************************************************)
(* _copyChannelSyncAll: the conditions of an access (and the data of a     *)
(* write, which it already has) are taken at the time of the access.       *)
(***************************************************************************)
CopyChannelSync ==
  /\ NextIs("io")
  /\ LET e     == Head(todo).elm
         n     == Head(todo).node
         conds == Listed[{d \in net.dataDeps[n] : ~ IsConst(d)}]
     IN  Continue([i \in DOMAIN conds |-> GetCall(e, conds[i], scheduledOut[n], <<"node", n>>)])
  /\ UNCHANGED rtlVars

NextDatapath ==
  \/ Get \/ AfterOutputUsed \/ AfterNodeInstantiated
  \/ InstantiateOutInTime \/ AllocateRtlInstance \/ CreateOutput \/ Drive
  \/ AllocateDataPath \/ CopyChannelSync

=============================================================================
