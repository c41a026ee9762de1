---------------------------- MODULE FsmSyncProofs ----------------------------
(***************************************************************************)
(* Proofs about FsmSync for every number of states, every program and any  *)
(* conditions: the state register stays in the table of states, a channel  *)
(* and the register of a value survive every stall.  The last two need an  *)
(* assumption on the program each, without which the runs FsmSync_stall    *)
(* and FsmSync_gap violate them.                                           *)
(***************************************************************************)
EXTENDS FsmSync, SequenceTheorems, WellFoundedInduction, TLAPS

\* What a transfer on an output is.
Item == [access : Access, values : UNION {[W -> 0..MaxItems] : W \in SUBSET Value}]

WrittenOK == \A io \in Output : written[io] \in Seq(Item)

\* The inductive invariant of the types.
TypeInv == TypeOK /\ WrittenOK

-----------------------------------------------------------------------------
\* The states are an interval of natural numbers.
LEMMA StatesAreNumbers ==
  /\ NumStates \in Nat /\ NumStates > 1
  /\ State = 0..(NumStates - 1)
BY FsmAssumption DEF State

\* A nonempty set of natural numbers has a smallest element.
LEMMA SmallestExists ==
  ASSUME NEW S \in SUBSET Nat, S # {}
  PROVE  Smallest(S) \in S /\ \A t \in S : Smallest(S) <= t
<1>1. PICK R : /\ IsWellFoundedOn(R, Nat)
               /\ \A x, y \in Nat : x < y => <<x, y>> \in R
  <2>1. \A x, y \in Nat : x < y => <<x, y>> \in OpToRel(<, Nat)
    BY DEF OpToRel
  <2>2. QED
    BY <2>1, NatLessThanWellFounded
<1>2. PICK s \in S : \A t \in S : ~ (<<t, s>> \in R)
  <2>1. IsWellFoundedOn(R, Nat)
    BY <1>1
  <2>2. S \subseteq Nat
    OBVIOUS
  <2>3. QED
    BY <2>1, <2>2, WFMin, Zenon
<1>3. ASSUME NEW t \in S
      PROVE  s <= t
  <2>1. s \in Nat /\ t \in Nat /\ ~ (<<t, s>> \in R)
    BY <1>2
  <2>2. ~ (t < s)
    BY <1>1, <2>1
  <2>3. QED
    BY <2>1, <2>2
<1>4. QED
  BY <1>3 DEF Smallest

-----------------------------------------------------------------------------
\* Accesses, channels and values have a state each.
LEMMA ProgramFacts ==
  /\ \A a \in Access : intfOf(a) \in Io /\ stateOf(a) \in State
  /\ \A c \in Channel : readState(c) \in State /\ writeState(c) \in State
  /\ \A v \in Value : defState(v) \in State
<1>1. \A a \in Access : intfOf(a) \in Io /\ stateOf(a) \in State
  BY FsmAssumption DEF AccessType, intfOf, stateOf
<1>2. \A c \in Channel : readState(c) \in State /\ writeState(c) \in State
  BY FsmAssumption DEF ChannelType, readState, writeState
<1>3. \A v \in Value : defState(v) \in State
  BY <1>1, <1>2 DEF Value, Read, defState
<1>4. QED
  BY <1>1, <1>2, <1>3

\* The state register stays in the table of states and never skips a state.
LEMMA NextStateFacts ==
  ASSUME st \in State
  PROVE  /\ NextState \in State
         /\ NextState <= st + 1
         /\ ~ Ack => NextState = st
<1>1. /\ NumStates \in Nat /\ NumStates > 1
      /\ State = 0..(NumStates - 1)
      /\ st \in Nat
  BY StatesAreNumbers
<1>2. (st + 1) % NumStates \in State /\ (st + 1) % NumStates <= st + 1
  <2>1. CASE st = NumStates - 1
    <3>1. (st + 1) % NumStates = 0
      BY <1>1, <2>1
    <3>2. QED
      BY <1>1, <3>1
  <2>2. CASE st # NumStates - 1
    <3>1. st + 1 < NumStates
      BY <1>1, <2>2
    <3>2. (st + 1) % NumStates = st + 1
      BY <1>1, <3>1
    <3>3. QED
      BY <1>1, <3>1, <3>2
  <2>3. QED
    BY <2>1, <2>2
<1>3. Transitions \subseteq State /\ (st + 1) % NumStates \in Transitions
  BY <1>2, ProgramFacts DEF Transitions
<1>4. Smallest(Transitions) \in Transitions /\ Smallest(Transitions) <= (st + 1) % NumStates
  BY <1>1, <1>3, SmallestExists
<1>5. Smallest(Transitions) \in State /\ Smallest(Transitions) <= st + 1
  <2>1. Smallest(Transitions) \in State
    BY <1>3, <1>4
  <2>2. Smallest(Transitions) \in Nat /\ (st + 1) % NumStates \in Nat
    BY <1>1, <1>2, <2>1
  <2>3. QED
    BY <1>1, <1>2, <1>4, <2>1, <2>2
<1>6. QED
  BY <1>1, <1>5 DEF NextState

-----------------------------------------------------------------------------
\* The values have their types, and so does what is written.
LEMMA ValueFacts ==
  ASSUME TypeOK
  PROVE  /\ \A v \in Value : Source(v) \in 0..MaxItems /\ Current(v) \in 0..MaxItems
         /\ \A c \in Channel : Src(c) \in 0..1
<1>1. MaxItems \in Nat /\ MaxItems > 0
  BY FsmAssumption
<1>2. \A io \in Io : Bus(io) \in 0..MaxItems
  BY <1>1 DEF TypeOK, Bus
<1>3. \A v \in Value : Source(v) \in 0..MaxItems
  BY <1>1, <1>2, ProgramFacts DEF TypeOK, Source, Value, Read
<1>4. \A v \in Value : Current(v) \in 0..MaxItems
  BY <1>3 DEF TypeOK, Current
<1>5. QED
  BY <1>3, <1>4 DEF Src

\* A transfer has a partner, and a write one of the accesses of the state.
LEMMA TransferFacts ==
  ASSUME TypeOK, NEW io \in Io, Transfer(io)
  PROVE  /\ Partner(io)
         /\ count[io] \in 0..MaxItems /\ count[io] + 1 \in 0..MaxItems
         /\ Written(io) \in Item
<1>1. Partner(io) /\ ExtraCond(io)
  BY DEF Transfer, Satisfied
<1>2. count[io] \in 0..MaxItems /\ count[io] + 1 \in 0..MaxItems
  BY <1>1, FsmAssumption DEF TypeOK, Partner
<1>3. \E b \in AccessOf(st, io) : Enabled(b)
  <2>1. CASE ConditionalOf(io) = {}
    <3>1. PICK b \in AccessOf(st, io) : b \notin Conditional
      BY <2>1 DEF Transfer, IoOf, AccessOf, ConditionalOf
    <3>2. guardOf(b) = Always
      BY <3>1 DEF Conditional, AccessOf, AccessesIn
    <3>3. QED
      BY <3>1, <3>2 DEF Always, Enabled, Ones
  <2>2. CASE ConditionalOf(io) # {}
    BY <1>1, <2>2 DEF ExtraCond, ConditionalOf
  <2>3. QED
    BY <2>1, <2>2
<1>4. PICK a \in AccessOf(st, io) :
        Written(io) = [access |-> a, values |-> [v \in operandsOf(a) |-> Current(v)]]
  BY <1>3 DEF Written
<1>5. a \in Access /\ operandsOf(a) \in SUBSET Value
  BY <1>4, FsmAssumption DEF AccessOf, AccessesIn, AccessType, operandsOf, Value
<1>6. [v \in operandsOf(a) |-> Current(v)] \in [operandsOf(a) -> 0..MaxItems]
  BY <1>5, ValueFacts
<1>7. QED
  BY <1>1, <1>2, <1>4, <1>5, <1>6 DEF Item

-----------------------------------------------------------------------------
LEMMA InitTypeInv == Init => TypeInv
<1>1. MaxItems \in Nat /\ MaxItems > 0
  BY FsmAssumption
<1>2. 0 \in State
  BY StatesAreNumbers
<1>3. ASSUME Init
      PROVE  TypeOK
  <2>1. [c \in Channel |-> channel[c].init] \in [Channel -> 0..1]
    BY FsmAssumption DEF ChannelType
  <2>2. QED
    BY <1>1, <1>2, <1>3, <2>1 DEF Init, TypeOK, Io
<1>4. ASSUME Init
      PROVE  WrittenOK
  BY <1>4 DEF Init, WrittenOK
<1>5. QED
  BY <1>3, <1>4 DEF TypeInv

\* A rising edge: every transfer has a partner, which is served only once.
LEMMA ClockTypeInv ==
  ASSUME TypeInv, Clock
  PROVE  TypeInv'
<1>. DEFINE done == {io \in Io : Transfer(io)}
<1>1. TypeOK /\ WrittenOK
  BY DEF TypeInv
<1>2. \A io \in done : io \in Io /\ count[io] + 1 \in 0..MaxItems /\ Written(io) \in Item
  BY <1>1, TransferFacts
<1>3. bit' \in [Input -> [0..MaxItems -> BOOLEAN]]
  BY <1>1 DEF Clock, TypeOK
<1>4. st' \in State
  BY <1>1, NextStateFacts DEF Clock, TypeOK
<1>5. chan' \in [Channel -> 0..1] /\ sent' \in [Channel -> 0..1]
  BY <1>1, ValueFacts DEF Clock, TypeOK, NextChannel
<1>6. reg' \in [Value -> 0..MaxItems] /\ last' \in [Value -> 0..MaxItems]
  BY <1>1, ValueFacts DEF Clock, TypeOK
<1>7. offered' = offered \ done /\ accepting' = accepting \ done
  BY DEF Clock
<1>8. count' = [io \in Io |-> IF io \in done THEN count[io] + 1 ELSE count[io]]
  BY DEF Clock
<1>9. count' \in [Io -> 0..MaxItems]
  BY <1>1, <1>2, <1>8 DEF TypeOK
<1>10. \A io \in (offered \cup accepting)' : count'[io] < MaxItems
  BY <1>1, <1>7, <1>8 DEF TypeOK, Io
<1>11. ASSUME NEW io \in Output
       PROVE  written'[io] \in Seq(Item) /\ Len(written'[io]) = count'[io]
  <2>1. io \in Io /\ written[io] \in Seq(Item) /\ Len(written[io]) = count[io]
    BY <1>1 DEF TypeOK, WrittenOK, Io
  <2>2. written'[io] = IF io \in done THEN Append(written[io], Written(io)) ELSE written[io]
    BY DEF Clock
  <2>3. CASE io \in done
    BY <1>2, <1>8, <2>1, <2>2, <2>3, AppendProperties
  <2>4. CASE io \notin done
    BY <1>8, <2>1, <2>2, <2>4
  <2>5. QED
    BY <2>3, <2>4
<1>12. QED
  BY <1>1, <1>3, <1>4, <1>5, <1>6, <1>7, <1>9, <1>10, <1>11 DEF TypeInv, TypeOK, WrittenOK

LEMMA NextTypeInv == TypeInv /\ [Next]_vars => TypeInv'
<1>. SUFFICES ASSUME TypeInv, [Next]_vars
              PROVE  TypeInv'
  OBVIOUS
<1>1. CASE Clock
  BY <1>1, ClockTypeInv
<1>2. ASSUME NEW io \in Io, Offer(io)
      PROVE  TypeInv'
  BY <1>2 DEF Offer, TypeInv, TypeOK, WrittenOK
<1>3. ASSUME NEW io \in Io, Accept(io)
      PROVE  TypeInv'
  BY <1>3 DEF Accept, TypeInv, TypeOK, WrittenOK
<1>4. ASSUME NEW io \in Io, Withdraw(io)
      PROVE  TypeInv'
  BY <1>4 DEF Withdraw, TypeInv, TypeOK, WrittenOK
<1>5. CASE UNCHANGED vars
  BY <1>5 DEF vars, TypeInv, TypeOK, WrittenOK
<1>6. QED
  BY <1>1, <1>2, <1>3, <1>4, <1>5 DEF Next, Serve

\* The variables of an FSM keep their types, whatever its program: the state
\* register is in the table of states, and no interface makes a transfer
\* without its partner.
THEOREM TypeCorrect == Spec => []TypeOK
<1>1. Spec => []TypeInv
  BY InitTypeInv, NextTypeInv, PTL DEF Spec
<1>2. TypeInv => TypeOK
  BY DEF TypeInv
<1>3. QED
  BY <1>1, <1>2, PTL

-----------------------------------------------------------------------------
\* Each channel is read in an earlier state than it is written in, so that
\* the FSM leaves the state of the write before the value is read.
SeparateEnds == \A c \in Channel : readState(c) < writeState(c)

\* Outside of the state of its write a channel has what the write sent.
ChannelsKeepValue == \A c \in Channel : st # writeState(c) => chan[c] = sent[c]

\* Each read of a channel sees what was sent when the state of its write was
\* left, however long that state and the state of the read are stalled.
THEOREM ChannelsSurviveStalls ==
  ASSUME SeparateEnds
  PROVE  Spec => []ReadsWhatWasSent
<1>1. Init => ChannelsKeepValue
  BY DEF Init, ChannelsKeepValue
<1>2. ChannelsKeepValue /\ [Next]_vars => ChannelsKeepValue'
  <2>. SUFFICES ASSUME ChannelsKeepValue, [Next]_vars
                PROVE  ChannelsKeepValue'
    OBVIOUS
  <2>1. ASSUME Clock, NEW c \in Channel, st' # writeState(c)
        PROVE  chan'[c] = sent'[c]
    <3>1. chan'[c] = NextChannel(c)
      BY <2>1 DEF Clock
    <3>2. sent'[c] = IF Ack /\ writeState(c) = st THEN Src(c) ELSE sent[c]
      BY <2>1 DEF Clock
    <3>3. CASE writeState(c) = st
      <4>1. Ack
        BY <2>1, <3>3 DEF Clock, NextState
      <4>2. QED
        BY <3>1, <3>2, <3>3, <4>1 DEF NextChannel
    <3>4. CASE writeState(c) # st
      BY <3>1, <3>2, <3>4 DEF NextChannel, ChannelsKeepValue
    <3>5. QED
      BY <3>3, <3>4
  <2>2. CASE UNCHANGED <<st, chan, sent>>
    BY <2>2 DEF ChannelsKeepValue
  <2>3. Clock \/ UNCHANGED <<st, chan, sent>>
    BY DEF Next, Serve, Offer, Accept, Withdraw, vars
  <2>4. QED
    BY <2>1, <2>2, <2>3 DEF ChannelsKeepValue
<1>3. ChannelsKeepValue => ReadsWhatWasSent
  <2>1. \A c \in Channel : readState(c) # writeState(c)
    BY StatesAreNumbers, ProgramFacts DEF SeparateEnds
  <2>2. QED
    BY <2>1 DEF ChannelsKeepValue, ReadsWhatWasSent
<1>4. QED
  BY <1>1, <1>2, <1>3, PTL DEF Spec

-----------------------------------------------------------------------------
\* The states are scheduled in consecutive clks.
Contiguous == \A s \in State : clkOf[s] = clkOf[0] + s

\* Behind the state of its definition a register has what was last there.
RegistersKeepValue == \A v \in Stored : st > defState(v) => reg[v] = last[v]

\* The register of a value is loaded in the state of its definition only.
LEMMA LoadedInDefinition ==
  ASSUME Contiguous, NEW v \in Stored
  PROVE  /\ v \in Value /\ defState(v) \in State
         /\ v \notin Conditional
         /\ Loads(v) <=> st = defState(v)
<1>. DEFINE def == defState(v)
<1>1. v \in Value /\ def \in State
  BY ProgramFacts DEF Stored
<1>2. PICK use \in UsedIn[v] : use > def
  BY DEF Stored
<1>3. v \notin Conditional
  BY <1>1, <1>2, FsmAssumption DEF Conditional
<1>4. State \subseteq Nat /\ clkOf[0] \in Nat /\ UsedIn[v] \subseteq State
  <2>1. UsedIn[v] \subseteq State
    BY <1>1, ProgramFacts DEF UsedIn
  <2>2. State \subseteq Nat /\ 0 \in State
    BY StatesAreNumbers
  <2>3. clkOf[0] \in Nat
    BY <2>2, StatesAreNumbers, FsmAssumption
  <2>4. QED
    BY <2>1, <2>2, <2>3
<1>5. clkOf[def] = clkOf[0] + def /\ clkOf[use] = clkOf[0] + use
  BY <1>1, <1>2, <1>4 DEF Contiguous
<1>6. def \in LoadCandidates(v)
  <2>1. def \in Nat /\ use \in Nat /\ clkOf[0] \in Nat
    BY <1>1, <1>2, <1>4
  <2>2. clkOf[0] + def + 1 - clkOf[def] = 1 /\ clkOf[use] - clkOf[def] = use - def
    BY <1>5, <2>1
  <2>3. /\ def <= def /\ def <= use
        /\ 1 <= clkOf[0] + def + 1 - clkOf[def]
        /\ clkOf[0] + def + 1 - clkOf[def] <= clkOf[use] - clkOf[def]
    BY <1>2, <2>1, <2>2
  <2>4. QED
    BY <1>1, <1>2, <2>3 DEF LoadCandidates
<1>7. LoadCandidates(v) \subseteq State /\ \A s \in LoadCandidates(v) : def <= s
  BY DEF LoadCandidates
<1>8. Smallest(LoadCandidates(v)) = def
  <2>1. LoadCandidates(v) \in SUBSET Nat /\ LoadCandidates(v) # {}
    BY <1>4, <1>6, <1>7
  <2>2. /\ Smallest(LoadCandidates(v)) \in LoadCandidates(v)
        /\ \A t \in LoadCandidates(v) : Smallest(LoadCandidates(v)) <= t
    BY <2>1, SmallestExists
  <2>3. Smallest(LoadCandidates(v)) <= def /\ def <= Smallest(LoadCandidates(v))
    BY <1>6, <1>7, <2>2
  <2>4. Smallest(LoadCandidates(v)) \in Nat /\ def \in Nat
    BY <1>1, <1>4, <2>1, <2>2
  <2>5. QED
    BY <2>3, <2>4
<1>9. QED
  BY <1>1, <1>3, <1>6, <1>8 DEF Loads

LEMMA RegistersHold ==
  ASSUME Contiguous
  PROVE  Spec => []RegistersKeepValue
<1>1. Init => RegistersKeepValue
  BY DEF Init, RegistersKeepValue, Stored
<1>2. TypeOK /\ RegistersKeepValue /\ [Next]_vars => RegistersKeepValue'
  <2>. SUFFICES ASSUME TypeOK, RegistersKeepValue, [Next]_vars
                PROVE  RegistersKeepValue'
    OBVIOUS
  <2>1. ASSUME Clock, NEW v \in Stored, st' > defState(v)
        PROVE  reg'[v] = last'[v]
    <3>1. /\ v \in Value /\ defState(v) \in State
          /\ v \notin Conditional
          /\ Loads(v) <=> st = defState(v)
      BY LoadedInDefinition
    <3>2. reg'[v] = IF Loads(v) THEN Source(v) ELSE reg[v]
      BY <2>1, <3>1 DEF Clock
    <3>3. last'[v] = IF Ack /\ defState(v) = st THEN Source(v) ELSE last[v]
      BY <2>1, <3>1 DEF Clock
    <3>4. st' <= st + 1 /\ (~ Ack => st' = st) /\ st \in Nat /\ st' \in Nat /\ defState(v) \in Nat
      BY <2>1, <3>1, NextStateFacts, StatesAreNumbers DEF Clock, TypeOK
    <3>5. CASE st = defState(v)
      <4>1. Ack
        BY <2>1, <3>4, <3>5
      <4>2. QED
        BY <3>1, <3>2, <3>3, <3>5, <4>1
    <3>6. CASE st > defState(v)
      BY <3>1, <3>2, <3>3, <3>4, <3>6 DEF RegistersKeepValue
    <3>7. CASE st < defState(v)
      BY <2>1, <3>4, <3>7
    <3>8. QED
      BY <3>4, <3>5, <3>6, <3>7
  <2>2. CASE UNCHANGED <<st, reg, last>>
    BY <2>2 DEF RegistersKeepValue
  <2>3. Clock \/ UNCHANGED <<st, reg, last>>
    BY DEF Next, Serve, Offer, Accept, Withdraw, vars
  <2>4. QED
    BY <2>1, <2>2, <2>3 DEF RegistersKeepValue
<1>3. QED
  BY <1>1, <1>2, TypeCorrect, PTL DEF Spec

\* Each later state sees the value of a read or of a channel as it was when
\* the state it is from was left, however long any of the states is stalled.
THEOREM RegistersSurviveStalls ==
  ASSUME Contiguous
  PROVE  Spec => []PersistentUntilEnd
<1>1. RegistersKeepValue => PersistentUntilEnd
  BY DEF RegistersKeepValue, PersistentUntilEnd
<1>2. QED
  BY <1>1, RegistersHold, PTL

=============================================================================
