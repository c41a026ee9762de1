---------------------------- MODULE HlsAllocator ----------------------------
(***************************************************************************)
(* HlsAllocator.allocate() (allocator/allocator.py with                    *)
(* interArchElementNodeSharingAnalysis.py), run by HlsPipeline after       *)
(* schedule() of module HlsScheduler.                                      *)
(*                                                                         *)
(*   "fsms", "pipelines", "elements"                                       *)
(*               the netlist is split (ArchElements)                       *)
(*   "analyze"   the values which cross elements are found, and declared   *)
(*               in the elements which use them, for the time of their     *)
(*               first use there                                           *)
(*   "build"     the elements build their nodes one by one (RtlDatapath),  *)
(*               then the crossing values are connected one by one, and    *)
(*               every clk in which two elements exchange something gets a *)
(*               handshake                                                 *)
(*                                                                         *)
(* Port synonyms belong to parts of nodes, which do not appear.            *)
(***************************************************************************)
EXTENDS RtlDatapath

VARIABLES
  connections,    \* InterArchElementNodeSharingAnalysis.interElemConnections
  syncAdded       \* the handshakes between elements: <<clk, {element, element}>>

allocVars == <<allocPhase, todo, elementVars, rtlVars, connections, syncAdded>>
hlsVars == <<vars, allocVars>>

AllocFailed == allocPhase \in {"AssertionError", "IndexError", "NotImplementedError"}

InitAllocator ==
  /\ allocPhase = "idle"
  /\ todo = <<>>
  /\ archElements = <<>>
  /\ element = NoElement
  /\ alreadyUsed = {}
  /\ netNodeToRtl = <<>>
  /\ stageSignals = <<>>
  /\ uses = {}
  /\ drives = {}
  /\ connections = <<>>
  /\ syncAdded = {}

-----------------------------------------------------------------------------
\* InterArchElementNodeSharingAnalysis._analyzeInterElementsNodeSharing

Owner(n) == CHOOSE e \in DOMAIN archElements : IsOwner(e, n)

EachNodeInOneElement ==
  \A n \in Node : \A e, f \in DOMAIN archElements : IsOwner(e, n) /\ IsOwner(f, n) => e = f

AnalyzeSharing ==
  /\ allocPhase = "elements"
  /\ IF EachNodeInOneElement
     THEN allocPhase' = "analyze" /\ todo' = OfElements
     ELSE Fail("AssertionError")
  /\ UNCHANGED <<elementVars, rtlVars, connections, syncAdded>>

CheckInputs ==
  /\ NextIs("inputs")
  /\ LET m == Head(todo).node
     IN  Continue([i \in DOMAIN DataDeps(m) |->
                     [step |-> "input", node |-> DataDeps(m)[i], user |-> m]])
  /\ UNCHANGED <<elementVars, rtlVars, connections, syncAdded>>

IsState(e, clk_i) == clk_i \in ToSet(archElements[e].clks)

\* _analyzeInterElementsNodeSharingCheckInputDriver
CheckInputDriver ==
  /\ NextIs("input")
  /\ LET o   == Head(todo).node
         m   == Head(todo).user
         dst == Owner(m)
     IN  IF IsConst(o) \/ Owner(o) = dst
         THEN Continue(<<>>) /\ UNCHANGED connections
         ELSE IF archElements[dst].fsm /\ ~ IsState(dst, start_clk(scheduledIn[m]))
         THEN Fail("AssertionError") /\ UNCHANGED connections
         ELSE Continue(<<>>) /\ connections' = Append(connections, <<o, m>>)
  /\ UNCHANGED <<elementVars, rtlVars, syncAdded>>

-----------------------------------------------------------------------------
\* HlsAllocator._getFirstUseTime

\* firstUseTimeOfOutInElem, before anything moves it
FirstUse(o, dst) ==
  LET times == {scheduledIn[c[2]] : c \in {k \in ToSet(connections) :
                                             k[1] = o /\ Owner(k[2]) = dst}}
  IN  CHOOSE t \in times : IsMin(t, times)

\* The value leaves an FSM in a clk in which the FSM is in no state.
MissingState(o, useT) ==
  /\ archElements[Owner(o)].fsm
  /\ OutClk(o) # start_clk(useT)
  /\ ~ IsState(Owner(o), start_clk(useT))

ClosestClkWithState(o, useT) ==
  Largest({OutClk(o)} \cup {c \in ToSet(archElements[Owner(o)].clks) :
                              OutClk(o) <= c /\ c <= start_clk(useT)})

\* Mutation: the pipeline takes the value where it uses it.
UseTimeNotMoved(o, dst) == FirstUse(o, dst)

\* The first use in a pipeline moves to the last state which can provide it.
FirstUseTime(o, dst) ==
  IF MissingState(o, FirstUse(o, dst)) /\ ~ archElements[dst].fsm
  THEN ClosestClkWithState(o, FirstUse(o, dst)) * Clk + Eps
  ELSE FirstUse(o, dst)

\* The explicitPathSpec: between two FSMs a buffer would be necessary.
NeedsBuffer(o, dst) == MissingState(o, FirstUse(o, dst)) /\ archElements[dst].fsm

\* The elements a value comes to from outside, as <<element, value>>.
Crossings == {<<Owner(c[2]), c[1]>> : c \in ToSet(connections)}

ConnectionCalls ==
  [i \in DOMAIN connections |->
     [step |-> "connect", node |-> connections[i][1], user |-> connections[i][2]]]

\* _declareInterElemenetBoundarySignals
Declare ==
  /\ allocPhase = "analyze"
  /\ todo = <<>>
  /\ allocPhase' = "build"
  /\ todo' = OfElements \o ConnectionCalls
  /\ netNodeToRtl' = [x \in Crossings |-> [timeOffset |-> FirstUseTime(x[2], x[1]), len |-> 1]]
  /\ stageSignals' = [s \in UNION {{e} \X ToSet(archElements[e].clks) : e \in DOMAIN archElements}
                        |-> {}]
  /\ UNCHANGED <<elementVars, uses, drives, connections, syncAdded>>

-----------------------------------------------------------------------------
\* HlsAllocator._finalizeInterElementsConnections

UsesOf(e, d, user) == {u \in uses : u.elm = e /\ u.value = d /\ u.user = user}

\* tirsConnected: the value of another use in the same element is there.
IsConnected(o, dst) == UsesOf(Owner(o), o, <<"element", dst>>) # {}

UseTime(o, dst) == netNodeToRtl[<<dst, o>>].timeOffset

\* The calls for one connection.
HandOver(o, dst) ==
  << [step |-> "makeValid", elm |-> Owner(o), node |-> o, endTime |-> UseTime(o, dst)],
     GetCall(Owner(o), o, start_clk(UseTime(o, dst)) * Clk, <<"element", dst>>),
     [step |-> "used", elm |-> Owner(o), node |-> o],
     [step |-> "sync", clk |-> start_clk(UseTime(o, dst)), src |-> Owner(o), dst |-> dst] >>

Connect ==
  /\ NextIs("connect")
  /\ LET o   == Head(todo).node
         dst == Owner(Head(todo).user)
     IN  IF IsConnected(o, dst) THEN Continue(<<>>)
         ELSE IF NeedsBuffer(o, dst) THEN Fail("NotImplementedError")
         ELSE Continue(HandOver(o, dst))
  /\ UNCHANGED <<elementVars, rtlVars, connections, syncAdded>>

-----------------------------------------------------------------------------
\* AllocatorPipelineContainer.extendValidityOfRtlResource

EndOfChain(tir) == tir.timeOffset + (tir.len - 1) * Clk + Eps

\* The times the loop goes through.
ExtensionTimes(tir, endTime) ==
  {EndOfChain(tir) + k * Clk : k \in 1..((endTime - EndOfChain(tir)) \div Clk + 1)}

ExtendValidity(e, d, endTime) ==
  LET tir    == netNodeToRtl[<<e, d>>]
      times  == ExtensionTimes(tir, endTime)
      stages == {<<e, start_clk(t)>> : t \in times}
      old(s) == IF s \in DOMAIN stageSignals THEN stageSignals[s] ELSE {}
  IN  IF EndOfChain(tir) >= endTime \/ \E s \in stages : d \in old(s)
      THEN Fail("AssertionError") /\ UNCHANGED <<netNodeToRtl, stageSignals>>
      ELSE /\ Continue(<<>>)
           /\ netNodeToRtl' =
                [netNodeToRtl EXCEPT ![<<e, d>>] = Extended(@, IndexFor(@, Largest(times)))]
           /\ stageSignals' = [s \in stages \cup DOMAIN stageSignals |->
                                 IF s \in stages THEN old(s) \cup {d} ELSE old(s)]

\* The chain of the value is made to last until another element needs it.
MakeValid ==
  /\ NextIs("makeValid")
  /\ LET src     == Head(todo).elm
         o       == Head(todo).node
         endTime == Head(todo).endTime
         tir     == netNodeToRtl[<<src, o>>]
         offset  == start_clk(endTime) - start_clk(tir.timeOffset)
     IN  IF ~ HasRtl(src, o) \/ offset < 0
         THEN Fail("AssertionError") /\ UNCHANGED <<netNodeToRtl, stageSignals>>
         ELSE IF offset < tir.len
         THEN Continue(<<>>) /\ UNCHANGED <<netNodeToRtl, stageSignals>>
         ELSE IF ~ archElements[src].fsm THEN ExtendValidity(src, o, endTime)
         ELSE /\ IF IsState(src, start_clk(endTime)) THEN Continue(<<>>) ELSE Fail("AssertionError")
              /\ UNCHANGED <<netNodeToRtl, stageSignals>>
  /\ UNCHANGED <<elementVars, uses, drives, connections, syncAdded>>

-----------------------------------------------------------------------------
\* Mutation: one handshake for a pair of elements is thought to be enough.
SyncOncePerPair(clk_i, src, dst) ==
  IF \E s \in syncAdded : s[2] = {src, dst} THEN {} ELSE {<<clk_i, {src, dst}>>}

Sync(clk_i, src, dst) == {<<clk_i, {src, dst}>>}

\* connectSync of both elements, each in its stage or state of the clk
ConnectSync ==
  /\ NextIs("sync")
  /\ LET clk_i   == Head(todo).clk
         ends    == {Head(todo).src, Head(todo).dst}
         without == {e \in ends : <<e, clk_i>> \notin DOMAIN stageSignals}
     IN  IF without # {}
         THEN /\ Fail(IF \E e \in without : archElements[e].fsm THEN "AssertionError" ELSE "IndexError")
              /\ UNCHANGED syncAdded
         ELSE /\ Continue(<<>>)
              /\ syncAdded' = syncAdded \cup Sync(clk_i, Head(todo).src, Head(todo).dst)
  /\ UNCHANGED <<elementVars, rtlVars, connections>>

\* allocateSync of the elements writes down the equations of PipelineSync and
\* FsmSync; nothing is left to do.
AllocateSync ==
  /\ allocPhase = "build"
  /\ todo = <<>>
  /\ allocPhase' = "done"
  /\ UNCHANGED <<todo, elementVars, rtlVars, connections, syncAdded>>

NextSharing ==
  \/ AnalyzeSharing \/ CheckInputs \/ CheckInputDriver \/ Declare
  \/ Connect \/ MakeValid \/ ConnectSync \/ AllocateSync

NextAllocator ==
  \/ NextElements /\ UNCHANGED <<rtlVars, connections, syncAdded>>
  \/ NextDatapath /\ UNCHANGED <<elementVars, connections, syncAdded>>
  \/ NextSharing

-----------------------------------------------------------------------------
\* HlsPipeline: schedule(), then allocate()

HlsInit == Init /\ InitAllocator

HlsTerminated ==
  /\ Finished
  /\ phase = "done" => allocPhase = "done" \/ AllocFailed
  /\ UNCHANGED hlsVars

Scheduling == (NextAsap \/ NextAlap) /\ UNCHANGED allocVars

HlsNext ==
  \/ Scheduling
  \/ NextAllocator /\ UNCHANGED vars
  \/ HlsTerminated

HlsSpec == HlsInit /\ [][HlsNext]_hlsVars

\* Fairness of schedule() only, as in HlsScheduler.
HlsFairSpec == HlsSpec /\ WF_vars(Scheduling)

-----------------------------------------------------------------------------
\* What the registers must give

\* The registers the value of d passes before it comes to another element.
HandedIndexes(d, e) == {u.index : u \in UsesOf(Owner(d), d, <<"element", e>>)}

\* Epsilon is added to the time of a use, and to that of the value of an
\* operator: at the last instant of a clk the sum is in the next clk.
AwayFromNextClk(t) == start_clk(t + Eps) = start_clk(t)

\* Every operand of an operator, read or write is the value of exactly the clk
\* for which the node was scheduled: on its way from its driver, through the
\* chain of the element of the driver and the chain of the element of the
\* node, it passes one register for each clk in between.  The time of the
\* first use, which decides where it is handed over, may have been moved.
ValueOfItsClk ==
  allocPhase = "done" =>
    \A m \in Node : \A d \in net.dataDeps[m] :
      /\ net.kind[m] # "gate" /\ ~ IsConst(d)
      /\ AwayFromNextClk(scheduledIn[m]) /\ AwayFromNextClk(scheduledOut[d])
      => \E u \in UsesOf(Owner(m), d, <<"node", m>>) :
           \E h \in IF Owner(d) = Owner(m) THEN {0} ELSE HandedIndexes(d, Owner(m)) :
             u.index + h = InClk(m) - OutClk(d)

-----------------------------------------------------------------------------
\* The registers the synchronization of a pipeline knows of

\* A read allocates what it depends on without _afterNodeInstantiated.
AllocatedForRead(n) == \E r \in Node : IsRead(r) /\ n \in Deps(r)

\* These take their operands without _afterOutputUsed behind it, in an element:
\* a read, for its condition, and what is allocated for a read (but a write of the
\* element is instantiated once more).
Untold(e, m) ==
  \/ IsRead(m)
  \/ AllocatedForRead(m) /\ ~ (IsWrite(m) /\ IsOwner(e, m))

\* The chain was brought to its k-th register, or up to it, by such a use.  The
\* first register belongs to the stage of the value, which knows its own values.
UntoldUse(e, d, k) ==
  /\ k > 1 \/ ~ IsOwner(e, d)
  /\ \E u \in uses : /\ u.elm = e /\ u.value = d /\ u.index >= k - 1
                     /\ u.user[1] = "node" /\ Untold(e, u.user[2])

\* The stages extendValidityOfRtlResource appends have two lists of signals.
IsAppended(e, clk_i) == ~ IsState(e, clk_i)

\* In a pipeline each register of a chain is listed in the stage that loads
\* it, so that it keeps its value while the stage is stalled.  Four kinds are
\* not: the first register of a value which a read allocated, registers on the way
\* to, or behind, the clk in which such a value or a read took an operand,
\* registers loaded in a stage that was appended for another element, and those
\* of a chain that starts at the last instant of a clk.
RegistersLoaded ==
  allocPhase = "done" =>
    \A x \in DOMAIN netNodeToRtl : \A k \in 1..(netNodeToRtl[x].len - 1) :
      LET clk_i == start_clk(netNodeToRtl[x].timeOffset) + k - 1
      IN  ~ archElements[x[1]].fsm =>
            \/ IsAppended(x[1], clk_i)
            \/ x[2] \in stageSignals[<<x[1], clk_i>>]
            \/ k = 1 /\ AllocatedForRead(x[2]) /\ x \notin Crossings
            \/ UntoldUse(x[1], x[2], k)
            \/ ~ AwayFromNextClk(netNodeToRtl[x].timeOffset)

-----------------------------------------------------------------------------
\* What an element allocates: its own nodes, for each of them the operands, and
\* all a read depends on; but values which come from another element are there.
Allocates(e, n) ==
  \A S \in SUBSET Node :
    /\ NodesOf(archElements[e]) \subseteq S
    /\ \A m \in S : <<e, m>> \notin Crossings =>
         (IF IsRead(m) THEN Deps(m) ELSE net.dataDeps[m]) \subseteq S
    => n \in S

\* A read that an element allocates is ordered after a write of another one.
ReadAfterElsewhere(w) ==
  \E e \in DOMAIN archElements : e # Owner(w) /\ Allocates(e, w)

\* Every write assigns its interface in its own element, and only there unless
\* another element allocates a read that is ordered after it.
WritesDrivenOnce ==
  allocPhase = "done" =>
    \A w \in Node : IsWrite(w) =>
      /\ <<Owner(w), w>> \in drives
      /\ ~ ReadAfterElsewhere(w) =>
           \A e \in DOMAIN archElements : <<e, w>> \in drives => e = Owner(w)

-----------------------------------------------------------------------------
\* Every value that crosses elements is handed over in a clk in which both of
\* them have a stage or a state, and a handshake of that clk holds them; no
\* value that would need a buffer between two FSMs is overlooked.
CrossedWithHandshake ==
  allocPhase = "done" =>
    \A x \in Crossings :
      LET src   == Owner(x[2])
          clk_i == start_clk(UseTime(x[2], x[1]))
      IN  /\ ~ NeedsBuffer(x[2], x[1])
          /\ <<clk_i, {src, x[1]}>> \in syncAdded
          /\ {<<src, clk_i>>, <<x[1], clk_i>>} \subseteq DOMAIN stageSignals
          /\ \A h \in HandedIndexes(x[2], x[1]) :
               start_clk(netNodeToRtl[<<src, x[2]>>].timeOffset) + h = clk_i

-----------------------------------------------------------------------------
\* The scheduled netlists allocate() cannot build.

\* An FSM holds a value over a clk in which it has no state.  A pipeline takes
\* the value of an FSM in the last state before it needs it.
HandedClk(d, e) ==
  IF archElements[Owner(d)].fsm /\ ~ archElements[e].fsm
  THEN ClosestClkWithState(d, FirstUse(d, e))
  ELSE start_clk(FirstUse(d, e))
HasGap(e, from, to) ==
  archElements[e].fsm /\ ~ \A clk_i \in from..to : IsState(e, clk_i)
AcrossGap ==
  \E n \in Node : \E d \in {k \in net.dataDeps[n] : ~ IsConst(k)} :
    IF Owner(d) = Owner(n) THEN HasGap(Owner(n), OutClk(d), InClk(n))
    ELSE \/ HasGap(Owner(d), OutClk(d), HandedClk(d, Owner(n)))
         \/ HasGap(Owner(n), HandedClk(d, Owner(n)), InClk(n))

\* Only operators and writes instantiate their constants.
EarlierConst ==
  \E n \in Node : \E d \in net.dataDeps[n] :
    /\ IsConst(d) /\ (net.kind[n] = "op" \/ IsWrite(n))
    /\ archElements[Owner(n)].fsm /\ ~ IsState(Owner(n), OutClk(d))

\* A read is ordered after an access of another element, which needs operands.
OrderedAfterForeignAccess ==
  \E e \in DOMAIN archElements : \E n \in Node :
    /\ net.kind[n] = "io" /\ net.dataDeps[n] # {}
    /\ Owner(n) # e /\ <<e, n>> \notin Crossings /\ Allocates(e, n)

\* Epsilon is added to the time of the value of an operator, to the end of a chain
\* and to the time get() is asked for: close to the next clk the chain is too long.
CloseToNextClk == \E n \in Node : start_clk(scheduledOut[n] + 3 * Eps) # OutClk(n)

\* allocate() fails only on a netlist in which an FSM has to hold a value over
\* a clk in which it has no state, in which it uses a constant that was placed
\* in such a clk, in which a read follows an access of another element, or in
\* which a value is there just before the end of its clk.  It does not overlook
\* such a constant.
AllocationRejected ==
  /\ AllocFailed =>
       AcrossGap \/ EarlierConst \/ OrderedAfterForeignAccess \/ CloseToNextClk
  /\ allocPhase = "done" => ~ EarlierConst

=============================================================================
