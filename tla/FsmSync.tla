------------------------------- MODULE FsmSync -------------------------------
(***************************************************************************)
(* A finite state machine of the generated circuit (AllocatorFsmContainer  *)
(* in allocator/fsmContainer.py with netlist/analysis/fsm.py,              *)
(* netlist/nodes/backwardEdge.py and the registers of                      *)
(* allocator/time_independent_rtl_resource.py), as the RTL it generates    *)
(* behaves: one Clock step is one rising edge.                             *)
(*                                                                         *)
(* The FSM exists because one interface is accessed several times in one   *)
(* iteration of a loop: each clk of the schedule with such an access is a  *)
(* state.  A value which is used in a later state than the one it comes    *)
(* from (a read, or the read side of a backward edge) is kept in one       *)
(* register.  A backward edge whose both sides are in the FSM, a channel,  *)
(* is one bit stored in a register; it also makes a transition.            *)
(*                                                                         *)
(* Abstractions.  A value read is the number of the item on its interface; *)
(* what conditions see of it is one bit.  The conditions of the accesses   *)
(* and the values written to channels are any boolean functions, given as  *)
(* the set of the sets of the values that are 1.  All interfaces are       *)
(* Handshaked (the other kinds have one of its signals constant).  Values  *)
(* from other elements of the architecture are left out.                   *)
(*                                                                         *)
(* Bound: MaxItems, the number of transfers of each interface.             *)
(***************************************************************************)
EXTENDS Integers, FiniteSets, Sequences

CONSTANTS
  clkOf,     \* IoFsm.stateClkI: the clk of the schedule each state is from
  Input, Output,
  Access,    \* the HlsNetNodeRead / HlsNetNodeWrite nodes in the states
  access,    \* for each its interface, state, condition and operands
  Channel,   \* HlsNetNodeReadBackwardEdge with the associated write in the FSM
  channel,   \* for each the states it is read and written in, the initial
             \* value and the value written
  MaxItems

State == DOMAIN clkOf
NumStates == Cardinality(State)
Io == Input \cup Output

intfOf(a)     == access[a].intf
stateOf(a)    == access[a].state
guardOf(a)    == access[a].guard       \* extraCond, and ~skipWhen
operandsOf(a) == access[a].operands    \* reads whose values a write writes
readState(c)  == channel[c].read
writeState(c) == channel[c].write

Read  == {a \in Access : intfOf(a) \in Input}
Value == Read \cup Channel
defState(v) == IF v \in Channel THEN readState(v) ELSE stateOf(v)

Always == SUBSET Value
Conditional == {a \in Access : guardOf(a) # Always}

DependsOn(f, v) == \E S \in SUBSET Value : (S \in f) # (S \ {v} \in f)

\* The states in which the value of v is used.
UsedIn ==
  [v \in Value |->
     {stateOf(a) : a \in {b \in Access : v \in operandsOf(b) \/ DependsOn(guardOf(b), v)}}
       \cup {writeState(c) : c \in {d \in Channel : DependsOn(channel[d].src, v)}}]

Stored == {v \in Value : \E s \in UsedIn[v] : s > defState(v)}

AccessesIn(s)  == {a \in Access : stateOf(a) = s}
AccessOf(s, io) == {a \in AccessesIn(s) : intfOf(a) = io}
IoOf(s) == {intfOf(a) : a \in AccessesIn(s)}

AccessType ==
  [intf : Io, state : State, guard : SUBSET SUBSET Value, operands : SUBSET Read]
ChannelType ==
  [read : State, write : State, init : 0..1, src : SUBSET SUBSET Value]

ASSUME FsmAssumption ==
  /\ MaxItems \in Nat /\ MaxItems > 0
  /\ Input \cap Output = {} /\ Access \cap Channel = {}
  /\ IsFiniteSet(Io) /\ IsFiniteSet(Access) /\ IsFiniteSet(Channel)
  /\ NumStates \in Nat \ {0, 1} /\ clkOf \in [0..(NumStates - 1) -> Nat]
  /\ \A s, t \in State : s < t => clkOf[s] < clkOf[t]
  /\ \A s \in State : AccessesIn(s) # {}
  /\ \A a \in Access  : access[a] \in AccessType
  /\ \A c \in Channel : channel[c] \in ChannelType /\ readState(c) <= writeState(c)
  \* a use is not before the definition, and there is a state for each clk in
  \* between (SignalsOfStages.getForTime raises an IndexError otherwise)
  /\ \A v \in Value : \A s \in UsedIn[v] :
       /\ defState(v) <= s
       /\ clkOf[s] - clkOf[defState(v)] = s - defState(v)
       /\ v \in Conditional => guardOf(v) = Always
  \* accesses to one interface in one state are in exclusive branches
  /\ \A a, b \in Access : a # b /\ intfOf(a) = intfOf(b) /\ stateOf(a) = stateOf(b) =>
       /\ guardOf(a) \cap guardOf(b) = {}
       /\ a \in Conditional

VARIABLES
  bit,        \* what conditions see of the items of an input, chosen initially
              \* (of item 0: of the data while there is no valid item)
  st,         \* the state register
  chan,       \* the registers of the channels
  reg,        \* the registers of the values which are used in later states
  offered,    \* inputs whose vld is 1
  accepting,  \* outputs whose rd is 1
  count,      \* transfers so far on each interface
  written,    \* what was written to each output
  last,       \* history: the value v had when the FSM last left defState(v)
  sent        \* history: the value of a channel when it last left writeState(c)

vars == <<bit, st, chan, reg, offered, accepting, count, written, last, sent>>

-----------------------------------------------------------------------------
(***************************************************************************)
(* The values in the current state.                                        *)
(***************************************************************************)

\* Data without a valid is any data, here item 0.
Bus(io) == IF io \in offered THEN count[io] + 1 ELSE 0

\* TimeIndependentRtlResource.valuesInTime[0]
Source(v) == IF v \in Channel THEN chan[v] ELSE Bus(intfOf(v))

\* TimeIndependentRtlResource.get in the clk of the current state
Current(v) == IF defState(v) = st THEN Source(v) ELSE reg[v]

IsOne(v, x) == IF v \in Channel THEN x = 1 ELSE bit[intfOf(v)][x]

Ones == {v \in Value : IsOne(v, Current(v))}

Enabled(a) == Ones \in guardOf(a)

Src(c) == IF Ones \in channel[c].src THEN 1 ELSE 0

-----------------------------------------------------------------------------
(***************************************************************************)
(* The StreamNode of the state: _makeSyncNode with the merged conditions.  *)
(***************************************************************************)

ConditionalOf(io) == AccessOf(st, io) \cap Conditional

SkipWhen(io)  == ConditionalOf(io) # {} /\ \A a \in ConditionalOf(io) : ~ Enabled(a)
ExtraCond(io) == ConditionalOf(io) # {} => \E a \in ConditionalOf(io) : Enabled(a)

\* What the other side of the interface drives.
Partner(io) == io \in offered \cup accepting

\* Mutation: an interface that is skipped is waited for.
SatisfiedIfUsed(io) == Partner(io) /\ ExtraCond(io)

Satisfied(io) == SkipWhen(io) \/ (Partner(io) /\ ExtraCond(io))

Ack == \A io \in IoOf(st) : Satisfied(io)

\* Mutation: the interface is driven without regard to the other ones.
TransferAlone(io) == io \in IoOf(st) /\ ~ SkipWhen(io) /\ Satisfied(io)

\* sync.sync(): in the case of the state; elsewhere rd and vld are 0.
Transfer(io) ==
  /\ io \in IoOf(st)
  /\ ~ SkipWhen(io)
  /\ Satisfied(io)
  /\ \A other \in IoOf(st) \ {io} : Satisfied(other)

\* _allocateIoMux: the first write whose condition holds.
Written(io) ==
  LET a == CHOOSE b \in AccessOf(st, io) : Enabled(b)
  IN  [access |-> a, values |-> [v \in operandsOf(a) |-> Current(v)]]

-----------------------------------------------------------------------------
(***************************************************************************)
(* allocateSync                                                            *)
(***************************************************************************)

Smallest(S) == CHOOSE s \in S : \A t \in S : s <= t
Largest(S)  == CHOOSE s \in S : \A t \in S : t <= s

\* The states whose con.signals has v and for which the value in the clk
\* fsmBeginClk_i + stI + 1 is the register (valuesInTime[1], or a later item of
\* the list, which is the same register because of the persistence ranges).
LoadCandidates(v) ==
  {s \in State : \E use \in UsedIn[v] :
     LET index == clkOf[0] + s + 1 - clkOf[defState(v)]
     IN  /\ defState(v) <= s /\ s <= use
         /\ 1 <= index /\ index <= clkOf[use] - clkOf[defState(v)]}

\* Mutation: registers which already were seen are loaded in the later state.
LoadsInLastCandidate(v) ==
  st = Largest(LoadCandidates(v))

\* The register of v is loaded in the first of them (seenRegs), in each clk.
Loads(v) ==
  LoadCandidates(v) # {} => st = Smallest(LoadCandidates(v))

\* Mutation: the last state does not go back to the first one.
TransitionsWithoutWrap ==
  {st + 1}
    \cup {readState(c) : c \in {d \in Channel : writeState(d) = st /\ Src(d) = 1}}

\* transitionTable[st] with the conditions which hold: the next state (the
\* condition is 1) and the states of the channels which are written with 1.
Transitions ==
  {(st + 1) % NumStates}
    \cup {readState(c) : c \in {d \in Channel : writeState(d) = st /\ Src(d) = 1}}

\* Mutation: the transitions are not sorted, the unconditional one comes first.
NextWithoutJump == IF Ack THEN (st + 1) % NumStates ELSE st

\* SwitchLogic(inStateTrans), sorted by the destination
NextState == IF Ack THEN Smallest(Transitions) ELSE st

\* Mutation: the channel is written in each state from the read to the write.
ChannelWrittenInRange(c) ==
  IF readState(c) <= st /\ st <= writeState(c) THEN Src(c) ELSE chan[c]

\* stDependentDrives has the write of the channel; it has no other condition.
NextChannel(c) == IF writeState(c) = st THEN Src(c) ELSE chan[c]

Clock ==
  LET done == {io \in Io : Transfer(io)}
  IN  /\ st' = NextState
      /\ chan' = [c \in Channel |-> NextChannel(c)]
      /\ reg' = [v \in Value |-> IF v \in Stored /\ Loads(v) THEN Source(v) ELSE reg[v]]
      /\ count' = [io \in Io |-> IF io \in done THEN count[io] + 1 ELSE count[io]]
      /\ written' = [io \in Output |-> IF io \in done
                       THEN Append(written[io], Written(io)) ELSE written[io]]
      /\ offered'   = offered \ done
      /\ accepting' = accepting \ done
      /\ last' = [v \in Value |-> IF Ack /\ defState(v) = st /\ v \notin Conditional
                                THEN Source(v) ELSE last[v]]
      /\ sent' = [c \in Channel |-> IF Ack /\ writeState(c) = st THEN Src(c) ELSE sent[c]]
      /\ UNCHANGED bit

-----------------------------------------------------------------------------
(***************************************************************************)
(* The environment.  vld stays until the transfer; rd may be withdrawn.    *)
(***************************************************************************)

Offer(io) ==
  /\ io \in Input \ offered
  /\ count[io] < MaxItems
  /\ offered' = offered \cup {io}
  /\ UNCHANGED <<bit, st, chan, reg, accepting, count, written, last, sent>>

Accept(io) ==
  /\ io \in Output \ accepting
  /\ count[io] < MaxItems
  /\ accepting' = accepting \cup {io}
  /\ UNCHANGED <<bit, st, chan, reg, offered, count, written, last, sent>>

Withdraw(io) ==
  /\ io \in accepting
  /\ accepting' = accepting \ {io}
  /\ UNCHANGED <<bit, st, chan, reg, offered, count, written, last, sent>>

Init ==
  /\ bit \in [Input -> [0..MaxItems -> BOOLEAN]]
  /\ st = 0
  /\ chan = [c \in Channel |-> channel[c].init]
  /\ reg = [v \in Value |-> 0]
  /\ offered = {}
  /\ accepting = {}
  /\ count = [io \in Io |-> 0]
  /\ written = [io \in Output |-> << >>]
  /\ last = [v \in Value |-> 0]
  /\ sent = chan

Serve == Clock \/ \E io \in Io : Offer(io) \/ Accept(io)

Next == Serve \/ \E io \in Io : Withdraw(io)

Spec == Init /\ [][Next]_vars

\* The clock runs, each producer offers its items and each consumer accepts,
\* and from some time on does not withdraw before the transfer.
FairSpec ==
  /\ Spec
  /\ WF_vars(Clock)
  /\ \A io \in Io : WF_vars(Offer(io)) /\ WF_vars(Accept(io))
  /\ <>[][Serve]_vars

-----------------------------------------------------------------------------
TypeOK ==
  /\ bit \in [Input -> [0..MaxItems -> BOOLEAN]]
  /\ st \in State
  /\ chan \in [Channel -> 0..1]
  /\ reg \in [Value -> 0..MaxItems]
  /\ offered \subseteq Input
  /\ accepting \subseteq Output
  /\ count \in [Io -> 0..MaxItems]
  /\ \A io \in offered \cup accepting : count[io] < MaxItems
  /\ \A io \in Output : Len(written[io]) = count[io]
  /\ last \in [Value -> 0..MaxItems]
  /\ sent \in [Channel -> 0..1]

\* fsmContainer.py: "write will set this bit to a value specified in write src
\* if all write conditions are meet", "read will just read this bit".  However
\* long a state is stalled, the state a channel is read in sees what the state
\* it is written in wrote when it was left.
ReadsWhatWasSent ==
  \A c \in Channel : st = readState(c) => chan[c] = sent[c]

\* fsmContainer.py: "value for the first clock behind this clock period and the
\* rest is persistent in this register".  The states behind the definition of a
\* value see what it was when that state was left, although the register is
\* loaded in each clk of it and is the same one in all the later states.
PersistentUntilEnd ==
  \A v \in Stored : \A s \in UsedIn[v] :
    (st = s /\ s > defState(v)) => reg[v] = last[v]

\* fsmContainer.py: "if the value writen to channel is 1 it means that fsm jump
\* to state where associated read is".
JumpTaken ==
  [][ Clock /\ Ack =>
        \A c \in Channel : st = writeState(c) /\ sent'[c] = 1 =>
          \E d \in Channel : writeState(d) = st /\ sent'[d] = 1 /\ st' = readState(d) ]_vars

\* The FSM performs the accesses of the program: state by state, those of one
\* state at once, with the values of this iteration, however it is stalled.
Program == INSTANCE FsmProgram
ProgramSpec == Program!Spec

\* The FSM never stops by itself: it goes on until an interface is used up.
RunsUntilUsedUp == <>(\E io \in Io : count[io] = MaxItems)

=============================================================================
