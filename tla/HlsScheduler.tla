---------------------------- MODULE HlsScheduler ----------------------------
(***************************************************************************)
(* The scheduler of the HLS netlist (scheduler/scheduler.py with the       *)
(* scheduling methods of netlist/nodes/node.py and netlist/nodes/io.py).   *)
(*                                                                         *)
(* HlsScheduler.schedule() assigns a time to every input and output of     *)
(* every node, in integer units of the scheduler resolution:               *)
(*                                                                         *)
(*   "asap"      As Soon As Possible, from the inputs of the netlist       *)
(*   "alap"      compaction As Late As Possible, from the outputs          *)
(*   "offset"    the whole schedule is moved so that it starts in clk 0    *)
(*   "check"     the final assertion pass                                  *)
(*                                                                         *)
(* The code is a memoised depth first search; here a node is scheduled by  *)
(* one step once everything the recursion would visit first is scheduled,  *)
(* so every visiting order of the recursion is a behaviour.                *)
(*                                                                         *)
(* Abstractions.  All outputs of a node share one time (latency_post is 0  *)
(* on every platform of the repository) and all inputs share one time      *)
(* (latency_pre is one number per node), so a node has one scheduledIn and *)
(* one scheduledOut.  cycles_latency and in_cycles_offset are 0 for every  *)
(* node that reaches the scheduler.                                        *)
(***************************************************************************)
EXTENDS Integers, FiniteSets

CONSTANTS
  Node,      \* the nodes of the netlist
  Intf,      \* the interfaces the IO nodes access
  Clk,       \* HlsPipeline.normalizedClkPeriod
  FF,        \* platform.get_ff_store_time()
  Netlists   \* the netlists a behaviour may start with

Eps == 1          \* HlsScheduler.epsilon
maxIosPerClk == 1 \* HlsNetNodeRead / HlsNetNodeWrite.maxIosPerClk
Kind == {"op", "io", "const", "gate"}

(***************************************************************************)
(* A netlist.  "io" nodes are HlsNetNodeRead and HlsNetNodeWrite, "gate"   *)
(* is HlsLoopGate (it has no output), "const" is HlsNetNodeConst, "op" is  *)
(* every other node.  ordDeps are the dependencies through the ordering    *)
(* ports, dataDeps all the other ones.                                     *)
(***************************************************************************)
NetlistType ==
  [ kind     : [Node -> Kind],
    delay    : [Node -> Nat],             \* latency_pre
    intf     : [Node -> Intf],
    dataDeps : [Node -> SUBSET Node],
    ordDeps  : [Node -> SUBSET Node] ]

DepsOf(g, n)  == g.dataDeps[n] \cup g.ordDeps[n]
UsersOf(g, n) == {u \in Node : n \in DepsOf(g, u)}

WellFormed(g) ==
  /\ g \in NetlistType
  /\ \A n \in Node :
       /\ DepsOf(g, n) = {}    => g.delay[n] = 0
       /\ g.kind[n] = "const"  => DepsOf(g, n) = {} /\ UsersOf(g, n) # {}
       /\ g.kind[n] = "gate"   => UsersOf(g, n) = {} /\ g.delay[n] = 0
       /\ g.kind[n] = "io"     => g.delay[n] = 0
       /\ \A d \in g.ordDeps[n] : g.kind[n] = "io" /\ g.kind[d] = "io"

ASSUME SchedulerAssumption ==
  /\ Clk \in Nat \ {0}
  /\ FF \in Nat \ {0}
  /\ FF + Eps < Clk
  /\ IsFiniteSet(Node)
  /\ \A g \in Netlists : WellFormed(g)

VARIABLES
  net,            \* the netlist, chosen initially and never changed
  phase,          \* how far schedule() is
  scheduled,      \* the nodes whose scheduledIn / scheduledOut is not None
  scheduledIn,
  scheduledOut,
  asapSchedule    \* the copy _copyAndResetScheduling makes

vars == <<net, phase, scheduled, scheduledIn, scheduledOut, asapSchedule>>

Phase == {"asap", "alap", "offset", "check", "done",
          "TimeConstraintError", "AssertionError", "CycleInGraph"}

Deps(n)  == DepsOf(net, n)
Users(n) == UsersOf(net, n)
OfKind(k) == {n \in Node : net.kind[n] = k}

IsMax(t, S) == t \in S /\ \A s \in S : s <= t
IsMin(t, S) == t \in S /\ \A s \in S : t <= s
Largest(S)  == CHOOSE t \in S : IsMax(t, S)

-----------------------------------------------------------------------------
\* clk_math.py

start_clk(t) == t \div Clk
start_of_clk_period(t) == start_clk(t) * Clk
start_of_next_clk_period(t) == (start_clk(t) + 1) * Clk
\* the last time in the clk period of t from which a register can be loaded
end_of_clk_before_ff(t) == start_of_next_clk_period(t) - FF - Eps

\* Mutation: only the direct neighbour is looked at, not the chain behind it.
DirectNeighboursOnly(n, t, next) ==
  Cardinality({k \in next[n] : /\ start_clk(scheduledOut[k]) = start_clk(t)
                               /\ net.intf[k] = net.intf[n]}) + 1

(***************************************************************************)
(* HlsNetNodeRead._getNumberOfIoInThisClkPeriod: the length of the longest *)
(* chain of accesses to one interface along the ordering edges next (the   *)
(* ordering inputs or the users of the ordering output) which stays in one *)
(* clk period; of every scheduled node, and of an IO node n that would be  *)
(* at time t.  The recursion comes only to scheduled nodes.                *)
(***************************************************************************)
NextInClk(n, t, next) == {k \in next[n] : start_clk(scheduledOut[k]) = start_clk(t)}

LongestOf(cnt, nodes) == Largest({0} \cup {cnt[k] : k \in nodes})

IoCounts(intf, next) ==
  LET cnt[m \in scheduled] ==
        LongestOf(cnt, NextInClk(m, scheduledOut[m], next)) + IF net.intf[m] = intf THEN 1 ELSE 0
  IN  cnt

NumberOfIoInThisClkPeriod(n, t, next) ==
  LongestOf(IoCounts(net.intf[n], next), NextInClk(n, t, next)) + 1

OrderingInputs == net.ordDeps
OrderingUsers  == [n \in Node |-> {u \in Node : n \in net.ordDeps[u]}]

TooManyIos(n, t, next) ==
  /\ net.kind[n] = "io"
  /\ NumberOfIoInThisClkPeriod(n, t, next) > maxIosPerClk

SetTime(n, t) ==
  /\ scheduledIn'  = [scheduledIn  EXCEPT ![n] = t - net.delay[n]]
  /\ scheduledOut' = [scheduledOut EXCEPT ![n] = t]
  /\ scheduled' = scheduled \cup {n}

Raise(error) ==
  /\ phase' = error
  /\ UNCHANGED <<net, scheduled, scheduledIn, scheduledOut, asapSchedule>>

-----------------------------------------------------------------------------
\* HlsNetNode.scheduleAsap, HlsNetNodeRead.scheduleAsap

AsapReady(n) ==
  /\ phase = "asap"
  /\ n \in Node \ scheduled
  /\ Deps(n) \subseteq scheduled

\* Mutations: the delay is left out; the boundary of the clk is off by one;
\* the time a register needs is reserved in ASAP too.
InputTimeNoDelay(n, d) == scheduledOut[d]
InputTimeOffByOne(n, d) ==
  LET available == scheduledOut[d]
      next_clk  == start_of_next_clk_period(available)
  IN  net.delay[n] + IF net.delay[n] > next_clk - available THEN next_clk ELSE available
InputTimeWithFF(n, d) ==
  LET available == scheduledOut[d]
      next_clk  == start_of_next_clk_period(available)
  IN  net.delay[n] + IF net.delay[n] + FF >= next_clk - available THEN next_clk ELSE available

\* When n would have consumed the value its dependency d provides.
InputTime(n, d) ==
  LET available == scheduledOut[d]
      next_clk  == start_of_next_clk_period(available)
  IN  net.delay[n] + IF net.delay[n] >= next_clk - available
                     THEN next_clk ELSE available

\* The delay is looked at as soon as the first dependency is scheduled.
AsapTimeConstraintError(n) ==
  /\ phase = "asap"
  /\ n \in Node \ scheduled
  /\ Deps(n) \cap scheduled # {}
  /\ net.delay[n] >= Clk
  /\ Raise("TimeConstraintError")

ScheduleAsap(n) ==
  /\ AsapReady(n)
  /\ Deps(n) # {} => net.delay[n] < Clk
  /\ \E t \in {0} \cup {InputTime(n, d) : d \in Deps(n)} :
       /\ IsMax(t, {0} \cup {InputTime(n, d) : d \in Deps(n)})
       /\ SetTime(n, IF TooManyIos(n, t, OrderingInputs)
                     THEN start_of_next_clk_period(t) ELSE t)
  /\ UNCHANGED <<net, phase, asapSchedule>>

\* Mutation: any node that still waits counts as a cycle.
CycleWhenWaiting ==
  /\ phase = "asap"
  /\ \E n \in Node \ scheduled : ~ AsapReady(n)
  /\ Raise("CycleInGraph")

\* The recursion never ends on a cycle; the debug run then reports it.  (The
\* recursion is not limited here: a RecursionError comes only from a cycle.)
CycleInGraph ==
  /\ phase = "asap"
  /\ scheduled # Node
  /\ \A n \in Node \ scheduled : ~ AsapReady(n)
  /\ Raise("CycleInGraph")

-----------------------------------------------------------------------------
\* HlsScheduler._checkAllNodesScheduled

AllNodesScheduled ==
  /\ scheduled = Node
  /\ \A n \in Node : \A d \in Deps(n) : scheduledIn[n] >= scheduledOut[d]

(***************************************************************************)
(* The check after ASAP, _copyAndResetScheduling and the first loop of     *)
(* _scheduleAlapCompaction: a loop gate keeps its ASAP times.              *)
(***************************************************************************)
StartAlap ==
  /\ asapSchedule' = [in |-> scheduledIn, out |-> scheduledOut]
  /\ scheduled' = OfKind("gate")
  /\ scheduledIn'  = [n \in Node |-> IF n \in OfKind("gate") THEN scheduledIn[n] ELSE 0]
  /\ scheduledOut' = [n \in Node |-> IF n \in OfKind("gate") THEN scheduledOut[n] ELSE 0]

CheckAsapSchedule ==
  /\ phase = "asap"
  /\ scheduled = Node
  /\ phase' = IF AllNodesScheduled THEN "alap" ELSE "AssertionError"
  /\ IF AllNodesScheduled
     THEN StartAlap
     ELSE UNCHANGED <<scheduled, scheduledIn, scheduledOut, asapSchedule>>
  /\ UNCHANGED net

-----------------------------------------------------------------------------
\* HlsNetNode.scheduleAlapCompaction, HlsNetNodeRead.scheduleAlapCompaction

AlapReady(n) ==
  /\ phase = "alap"
  /\ n \in Node \ (scheduled \cup OfKind("const"))
  /\ Users(n) \subseteq scheduled

NumberOfInputs(n) == Cardinality(net.dataDeps[n]) + Cardinality(net.ordDeps[n])

\* Mutations: moved to the end of the same clk; moved without the register time.
TimeForInputsLater(n, t) ==
  IF Deps(n) = {} \/ t - net.delay[n] > start_of_clk_period(t) THEN t
  ELSE end_of_clk_before_ff(t)
TimeForInputsNoFF(n, t) ==
  IF Deps(n) = {} \/ t - net.delay[n] > start_of_clk_period(t) THEN t
  ELSE start_of_clk_period(t) - Eps

(***************************************************************************)
(* The loop over the inputs of n: every input that would fall before the   *)
(* clk period n is in moves n to the end of the previous one.  All inputs  *)
(* have the same delay, so either none moves n, or only the first, or,     *)
(* when the delay fills the whole usable clk period, every one of them.    *)
(***************************************************************************)
TimeForInputs(n, t) ==
  LET moves == IF net.dataDeps[n] = {} /\ net.ordDeps[n] = {} THEN 0
               ELSE IF t - net.delay[n] > start_of_clk_period(t) THEN 0
               ELSE IF net.delay[n] + FF + Eps < Clk THEN 1
               ELSE NumberOfInputs(n)
  IN  IF moves = 0 THEN t
      ELSE start_of_clk_period(t) - (moves - 1) * Clk - FF - Eps

\* Mutation: moved to the start of its clk, without the register time.
IoTimeNoFF(t, k) == IF k = 0 THEN t ELSE start_of_clk_period(t)

\* The time after the k-th iteration of the while loop of an IO node.
IoTime(t, k) ==
  IF k = 0 THEN t ELSE start_of_clk_period(t) - (k - 1) * Clk - FF

AlapTimeConstraintError(n) ==
  /\ AlapReady(n)
  /\ Deps(n) # {}
  /\ net.delay[n] + FF >= Clk
  /\ Raise("TimeConstraintError")

ScheduleAlapCompaction(n) ==
  /\ AlapReady(n)
  /\ Deps(n) # {} => net.delay[n] + FF < Clk
  /\ LET required == IF Users(n) = {}
                     THEN {end_of_clk_before_ff(asapSchedule.out[n])}
                     ELSE {scheduledIn[u] : u \in Users(n)}
     IN  \E r \in required, k \in 0..Cardinality(Node) :
           /\ IsMin(r, required)
           /\ ~ TooManyIos(n, IoTime(TimeForInputs(n, r), k), OrderingUsers)
           /\ \A j \in 0..(k - 1) :
                TooManyIos(n, IoTime(TimeForInputs(n, r), j), OrderingUsers)
           /\ SetTime(n, IoTime(TimeForInputs(n, r), k))
  /\ UNCHANGED <<net, phase, asapSchedule>>

\* The constants are placed after all the other nodes, next to their use.
ScheduleConst(c) ==
  /\ phase = "alap"
  /\ Node \ OfKind("const") \subseteq scheduled
  /\ c \in OfKind("const") \ scheduled
  /\ \E t \in {scheduledIn[u] : u \in Users(c)} :
       /\ IsMin(t, {scheduledIn[u] : u \in Users(c)})
       /\ SetTime(c, t)
  /\ UNCHANGED <<net, phase, asapSchedule>>

AlapScheduled ==
  /\ phase = "alap"
  /\ scheduled = Node
  /\ phase' = "offset"
  /\ UNCHANGED <<net, scheduled, scheduledIn, scheduledOut, asapSchedule>>

-----------------------------------------------------------------------------
\* The end of HlsScheduler._scheduleAlapCompaction

Ceil(t) == - ((- t) \div Clk)   \* math.ceil(t / Clk)

OffsetFor(minTime) ==
  IF minTime < 0 THEN - Ceil(minTime) * Clk
  ELSE IF minTime >= Clk THEN - (minTime \div Clk) * Clk
  ELSE 0

\* Mutation: the schedule is moved but not cut at 0.
NotClamped(t) == t

Clamped(t) == IF t < 0 THEN 0 ELSE t

Times == {scheduledIn[n] : n \in Node} \cup {scheduledOut[n] : n \in Node}

MoveToFirstClk ==
  /\ phase = "offset"
  /\ \E minTime \in Times :
       /\ IsMin(minTime, Times)
       /\ IF 0 <= minTime /\ minTime < Clk
          THEN UNCHANGED <<scheduledIn, scheduledOut>>
          ELSE /\ scheduledIn'  = [n \in Node |-> Clamped(scheduledIn[n]  + OffsetFor(minTime))]
               /\ scheduledOut' = [n \in Node |-> Clamped(scheduledOut[n] + OffsetFor(minTime))]
  /\ phase' = "check"
  /\ UNCHANGED <<net, scheduled, asapSchedule>>

CheckSchedule ==
  /\ phase = "check"
  /\ phase' = IF AllNodesScheduled THEN "done" ELSE "AssertionError"
  /\ UNCHANGED <<net, scheduled, scheduledIn, scheduledOut, asapSchedule>>

-----------------------------------------------------------------------------
Init ==
  /\ net \in Netlists
  /\ phase = "asap"
  /\ scheduled = {}
  /\ scheduledIn  = [n \in Node |-> 0]
  /\ scheduledOut = [n \in Node |-> 0]
  /\ asapSchedule = [in |-> [n \in Node |-> 0], out |-> [n \in Node |-> 0]]

NextAsap ==
  \/ \E n \in Node : AsapTimeConstraintError(n) \/ ScheduleAsap(n)
  \/ CycleInGraph
  \/ CheckAsapSchedule

NextAlap ==
  \/ \E n \in Node : AlapTimeConstraintError(n) \/ ScheduleAlapCompaction(n)
  \/ \E c \in Node : ScheduleConst(c)
  \/ AlapScheduled
  \/ MoveToFirstClk
  \/ CheckSchedule

Finished == phase \in {"done", "TimeConstraintError", "AssertionError", "CycleInGraph"}

Terminated == Finished /\ UNCHANGED vars

Next == NextAsap \/ NextAlap \/ Terminated

Spec == Init /\ [][Next]_vars

\* schedule() is one thread that nothing can block.
FairSpec == Spec /\ WF_vars(NextAsap \/ NextAlap)

-----------------------------------------------------------------------------
TypeOK ==
  /\ net \in NetlistType
  /\ phase \in Phase
  /\ scheduled \subseteq Node
  /\ scheduledIn  \in [Node -> IF phase = "asap" THEN Nat ELSE Int]
  /\ scheduledOut \in [Node -> IF phase = "asap" THEN Nat ELSE Int]
  /\ asapSchedule \in [in : [Node -> Int], out : [Node -> Nat]]

\* _checkAllNodesScheduled never fails, neither after ASAP nor after the
\* compaction and the move to clk 0: no input is read before the time its
\* driver provides the value, whatever was shifted for an IO limit, for a clk
\* boundary or for the offset.
ChecksNeverFail == phase # "AssertionError"

\* a comes before b along the ordering edges: what they lead to from b is not
\* closed without a.
OrderedBefore(a, b) ==
  ~ \E S \in SUBSET (Node \ {a}) :
      /\ net.ordDeps[b] \subseteq S
      /\ \A m \in S : net.ordDeps[m] \subseteq S

SharedClk(a, b, out) == net.intf[a] = net.intf[b] /\ start_clk(out[a]) = start_clk(out[b])

OneIoPerClk(nodes, out) ==
  \A a, b \in nodes \cap OfKind("io") : SharedClk(a, b, out) => ~ OrderedBefore(a, b)

\* Ordered accesses meet only at the start: the first one is at time 0, where
\* the schedule is cut, and just one follows it in the clk.
OnlyCutAccessesMeet(out) ==
  \A a, b \in OfKind("io") :
    SharedClk(a, b, out) /\ OrderedBefore(a, b) =>
      /\ out[a] = 0
      /\ \A c \in OfKind("io") : SharedClk(b, c, out) => ~ OrderedBefore(b, c)

\* Two ordered accesses to one interface are never in the same clk of the ASAP
\* schedule nor of the compaction, although scheduleAsap looks only at chains
\* that stay in the clk it starts from and moves a node once, and the
\* compaction counts in the other direction.  In the final schedule, after the
\* move to clk 0, two of them (never three) may share a clk, and only if the
\* first one is at time 0, as the cut at 0 leaves it.
IoLimitKept ==
  /\ phase \in {"asap", "alap", "offset"} => OneIoPerClk(scheduled, scheduledOut)
  /\ phase \in {"check", "done"} => OnlyCutAccessesMeet(scheduledOut)

FitsInClk(n) == start_clk(scheduledIn[n]) = start_clk(scheduledOut[n])

\* No combinational path of a node crosses a clk boundary (there is no
\* register inside of a node): in both schedules, and after the move to clk 0,
\* which cuts the times at 0.  The split into elements relies on it.
NodesFitInClk == \A n \in scheduled : FitsInClk(n)

\* ASAP means it: a scheduled node has no earlier time at which its inputs
\* are available, it fits in one clk and the IO limit holds.
AsapIsEarliest ==
  phase = "asap" =>
    \A n \in scheduled : \A t \in 0..(scheduledOut[n] - 1) :
      ~ /\ \A d \in Deps(n) : scheduledOut[d] <= t - net.delay[n]
        /\ start_clk(t - net.delay[n]) = start_clk(t)
        /\ ~ TooManyIos(n, t, OrderingInputs)

\* The nodes on which no loop gate depends, neither directly nor through others.
AwayFromGates ==
  UNION {S \in SUBSET (Node \ OfKind("gate")) : \A n \in S : Users(n) \subseteq S}

\* There is time for a register (FF) between the output of a node and the end
\* of its clk, also for a node which is moved only by the needs of its users or
\* the IO limit.  Loop gates are out of this: they keep ASAP times, and so do
\* the values they read.
SetupTimeMet(t) == t <= start_of_next_clk_period(t) - FF

SetupTimeKept ==
  phase = "offset" => \A n \in AwayFromGates : SetupTimeMet(scheduledOut[n])

\* The final schedule starts in clk 0 and has no negative time, although the
\* compaction went below 0 or left the first clks empty.
ScheduleStartsInFirstClk ==
  phase \in {"check", "done"} =>
    /\ \A t \in Times : t >= 0
    /\ Node # {} => \E t \in Times : start_clk(t) = 0

\* The error about a cycle is raised for netlists with a cycle and only for
\* them: otherwise the scheduling finishes or fails on a timing constraint.
Acyclic == \A S \in SUBSET Node : S # {} => \E n \in S : Deps(n) \cap S = {}
CycleIffReported ==
  /\ phase = "CycleInGraph" => ~ Acyclic
  /\ phase \in {"alap", "offset", "check", "done"} => Acyclic

\* schedule() returns or raises; the while loop of the IO nodes ends.
Terminates == <>Finished

(***************************************************************************)
(* What comments of the code promise of the final schedule.                *)
(***************************************************************************)

\* node.py: "latency_pre: combinational latency before first register in
\* compoent for this operation (for each input)".
LatencyKept ==
  phase = "done" =>
    \A n \in Node : Deps(n) # {} => scheduledOut[n] - scheduledIn[n] = net.delay[n]

\* io.py: "move to next clock cycle if IO constraint requires it".  The
\* constraint is maxIosPerClk accesses, one after the other, in a clk.
IoLimitOfSchedule == phase = "done" => OneIoPerClk(Node, scheduledOut)

=============================================================================
