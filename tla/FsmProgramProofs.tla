--------------------------- MODULE FsmProgramProofs ---------------------------
(***************************************************************************)
(* FsmSync implements FsmProgram for every program whose channels have     *)
(* separate ends, whose states are contiguous, and whose jumps out of the  *)
(* last state go to the first one.  Each of the assumptions excludes one   *)
(* of the violated runs.                                                   *)
(***************************************************************************)
EXTENDS FsmSyncProofs, FiniteSetTheorems

\* The transition which closes the loop of the FSM is the only one that leaves
\* its last state.
JumpsFromLastToFirst ==
  \A c \in Channel : writeState(c) = NumStates - 1 => readState(c) = 0

JumpSources == {c \in Channel : writeState(c) = st /\ Src(c) = 1}

\* The next state is one to which a 1 was sent, or else the following state.
LEMMA NextStateIsJump ==
  ASSUME JumpsFromLastToFirst, st \in State
  PROVE  Smallest(Transitions)
           \in IF JumpSources = {} THEN {(st + 1) % NumStates}
               ELSE {readState(c) : c \in JumpSources}
<1> DEFINE jumps == {readState(c) : c \in JumpSources}
<1>1. /\ NumStates \in Nat /\ NumStates > 1
      /\ State = 0..(NumStates - 1)
      /\ st \in Nat /\ st <= NumStates - 1
  BY StatesAreNumbers
<1>2. Transitions = {(st + 1) % NumStates} \cup jumps
  BY DEF Transitions, JumpSources
<1>3. /\ jumps \subseteq Nat
      /\ \A c \in JumpSources : readState(c) <= st
  BY <1>1, ProgramFacts, FsmAssumption DEF JumpSources
<1>4. (st + 1) % NumStates \in Nat
  BY <1>1
<1>5. /\ Smallest(Transitions) \in Transitions
      /\ \A t \in Transitions : Smallest(Transitions) <= t
  <2>1. Transitions \in SUBSET Nat /\ Transitions # {}
    BY <1>2, <1>3, <1>4
  <2>2. QED
    BY <2>1, SmallestExists
<1>6. CASE JumpSources = {}
  BY <1>2, <1>5, <1>6
<1>7. CASE JumpSources # {}
  <2>1. PICK c \in JumpSources : TRUE
    BY <1>7
  <2>2. readState(c) \in jumps /\ readState(c) \in Nat /\ readState(c) <= st
    BY <1>3, <2>1
  <2>3. CASE st = NumStates - 1
    <3>1. (st + 1) % NumStates = 0
      BY <1>1, <2>3
    <3>2. readState(c) = 0
      BY <2>1, <2>3 DEF JumpSources, JumpsFromLastToFirst
    <3>3. Transitions = jumps
      BY <1>2, <2>2, <3>1, <3>2
    <3>4. QED
      BY <1>5, <1>7, <3>3
  <2>4. CASE st # NumStates - 1
    <3>1. (st + 1) % NumStates = st + 1
      BY <1>1, <2>4
    <3>2. Smallest(Transitions) <= readState(c)
      BY <1>2, <1>5, <2>2
    <3>3. Smallest(Transitions) # st + 1
      <4>1. Smallest(Transitions) \in Nat
        BY <1>2, <1>3, <1>4, <1>5
      <4>2. QED
        BY <1>1, <2>2, <3>2, <4>1
    <3>4. QED
      BY <1>2, <1>5, <1>7, <3>1, <3>3
  <2>5. QED
    BY <2>3, <2>4
<1>8. QED
  BY <1>6, <1>7

\* If a 1 is sent when a state is left, the FSM continues where it is received,
\* for any number of states and channels.
THEOREM JumpsAreTaken ==
  ASSUME JumpsFromLastToFirst
  PROVE  Spec => JumpTaken
<1>1. ASSUME TypeOK, Clock, Ack, NEW c \in Channel, st = writeState(c), sent'[c] = 1
      PROVE  \E d \in Channel : writeState(d) = st /\ sent'[d] = 1 /\ st' = readState(d)
  <2>1. st' = Smallest(Transitions)
    BY <1>1 DEF Clock, NextState
  <2>2. \A d \in Channel : writeState(d) = st => sent'[d] = Src(d)
    BY <1>1 DEF Clock
  <2>3. c \in JumpSources
    BY <1>1, <2>2 DEF JumpSources
  <2>4. st' \in {readState(d) : d \in JumpSources}
    BY <1>1, <2>1, <2>3, NextStateIsJump DEF TypeOK
  <2>5. QED
    BY <2>2, <2>4 DEF JumpSources
<1>2. TypeOK /\ [Next]_vars =>
        [Clock /\ Ack =>
           \A c \in Channel : st = writeState(c) /\ sent'[c] = 1 =>
             \E d \in Channel : writeState(d) = st /\ sent'[d] = 1 /\ st' = readState(d)]_vars
  BY <1>1
<1>3. QED
  BY <1>2, TypeCorrect, PTL DEF Spec, JumpTaken

-----------------------------------------------------------------------------
\* The values are finitely many.
LEMMA ValueIsFinite == IsFiniteSet(Value)
<1>1. Read \in SUBSET Access
  BY DEF Read
<1>2. IsFiniteSet(Access) /\ IsFiniteSet(Channel)
  BY FsmAssumption
<1>3. IsFiniteSet(Read)
  BY <1>1, <1>2, FS_Subset
<1>4. QED
  BY <1>2, <1>3, FS_Union DEF Value

\* A condition does not change when values it does not depend on become 0 ...
LEMMA WithoutOthers ==
  ASSUME NEW f, NEW S \in SUBSET Value, NEW U \in SUBSET S,
         \A v \in S \ U : ~ DependsOn(f, v)
  PROVE  S \in f <=> U \in f
<1> DEFINE Between == {X \in SUBSET S : U \subseteq X /\ (X \in f <=> S \in f)}
           Sizes == {Cardinality(X) : X \in Between}
<1>1. \A X \in SUBSET Value : IsFiniteSet(X) /\ Cardinality(X) \in Nat
  BY ValueIsFinite, FS_Subset, FS_CardinalityType
<1>2. Sizes \in SUBSET Nat /\ Sizes # {}
  BY <1>1
<1>3. PICK X \in Between : \A Y \in Between : Cardinality(X) <= Cardinality(Y)
  <2>1. PICK n \in Sizes : \A m \in Sizes : n <= m
    <3> HIDE DEF Sizes
    <3>1. QED
      BY <1>2, SmallestExists
  <2>2. QED
    BY <2>1
<1>4. X = U
  <2> SUFFICES ASSUME NEW v \in X \ U
               PROVE  FALSE
    BY <1>3
  <2>1. ~ DependsOn(f, v) /\ X \in SUBSET Value
    BY <1>3
  <2>2. X \in f <=> X \ {v} \in f
    BY <2>1 DEF DependsOn
  <2>3. X \ {v} \in Between
    BY <1>3, <2>2
  <2>4. Cardinality(X \ {v}) = Cardinality(X) - 1 /\ Cardinality(X) \in Nat
    BY <1>1, <2>1, FS_RemoveElement
  <2>5. QED
    BY <1>3, <2>3, <2>4
<1>5. QED
  BY <1>3, <1>4

\* ... so it is the same for values which agree where it depends on them.
LEMMA SameOnDependencies ==
  ASSUME NEW f, NEW S \in SUBSET Value, NEW T \in SUBSET Value,
         \A v \in Value : DependsOn(f, v) => (v \in S <=> v \in T)
  PROVE  S \in f <=> T \in f
<1>1. S \in f <=> S \cap T \in f
  BY WithoutOthers
<1>2. T \in f <=> S \cap T \in f
  BY WithoutOthers
<1>3. QED
  BY <1>1, <1>2

-----------------------------------------------------------------------------
\* An unconditional access is alone on its interface in its state, and takes
\* part in each transaction of the state.
LEMMA UnconditionalAccess ==
  ASSUME TypeOK, Ack, NEW a \in Access, stateOf(a) = st, a \notin Conditional
  PROVE  /\ \A b \in AccessOf(st, intfOf(a)) : b = a
         /\ Partner(intfOf(a))
         /\ intfOf(a) \in Input => intfOf(a) \in offered
<1>1. \A b \in AccessOf(st, intfOf(a)) : b = a
  BY FsmAssumption DEF AccessOf, AccessesIn
<1>2. intfOf(a) \in IoOf(st)
  BY DEF IoOf, AccessesIn
<1>3. ~ SkipWhen(intfOf(a))
  BY <1>1 DEF SkipWhen, ConditionalOf
<1>4. Partner(intfOf(a))
  BY <1>2, <1>3 DEF Ack, Satisfied
<1>5. QED
  BY <1>1, <1>4, FsmAssumption DEF Partner, TypeOK

\* What both levels agree on whenever a state is left.
Agree == TypeInv /\ ReadsWhatWasSent /\ RegistersKeepValue /\ Ack

\* The values of this state are those of the program ...
LEMMA ValuesOfState ==
  ASSUME Agree, NEW v \in Value, defState(v) = st, v \notin Conditional
  PROVE  Source(v) = Program!Now(v) /\ Program!Now(v) \in 0..MaxItems
<1>1. MaxItems \in Nat /\ MaxItems > 0 /\ TypeOK
  BY FsmAssumption DEF Agree, TypeInv
<1>2. CASE v \in Channel
  <2>1. readState(v) = st /\ chan[v] = sent[v] /\ sent[v] \in 0..1
    BY <1>1, <1>2 DEF defState, Agree, ReadsWhatWasSent, TypeOK
  <2>2. Source(v) = sent[v] /\ Program!Now(v) = sent[v]
    BY <1>2, <2>1 DEF Source, Program!Now, Program!defState, readState
  <2>3. QED
    BY <1>1, <2>1, <2>2
<1>3. CASE v \notin Channel
  <2>1. v \in Read /\ v \in Access /\ stateOf(v) = st /\ intfOf(v) \in Input
    BY <1>3 DEF Value, Read, defState
  <2>2. intfOf(v) \in offered
    BY <1>1, <2>1, UnconditionalAccess DEF Agree
  <2>3. count[intfOf(v)] < MaxItems /\ count[intfOf(v)] \in 0..MaxItems
    BY <1>1, <2>1, <2>2 DEF TypeOK, Io
  <2>4. Source(v) = count[intfOf(v)] + 1 /\ Program!Now(v) = count[intfOf(v)] + 1
    BY <1>3, <2>1, <2>2 DEF Source, Bus, Program!Now, Program!defState, stateOf, intfOf
  <2>5. QED
    BY <1>1, <2>3, <2>4
<1>4. QED
  BY <1>2, <1>3

\* ... and so are those of earlier states which are used in this one.
LEMMA ValuesUsed ==
  ASSUME Agree, NEW v \in Value, st \in UsedIn[v]
  PROVE  /\ defState(v) <= st
         /\ Current(v) = Program!Now(v)
         /\ Program!Now(v) \in 0..MaxItems
<1>1. /\ defState(v) <= st
      /\ v \notin Conditional
  BY FsmAssumption DEF Conditional
<1>2. CASE defState(v) = st
  BY <1>1, <1>2, ValuesOfState DEF Current
<1>3. CASE defState(v) # st
  <2>1. defState(v) \in Nat /\ st \in Nat
    BY StatesAreNumbers, ProgramFacts DEF Agree, TypeInv, TypeOK
  <2>2. st > defState(v) /\ v \in Stored
    BY <1>1, <1>3, <2>1 DEF Stored
  <2>3. reg[v] = last[v] /\ last[v] \in 0..MaxItems
    BY <2>2 DEF Agree, RegistersKeepValue, TypeInv, TypeOK
  <2>4. Program!defState(v) = defState(v)
    BY DEF Program!defState, defState, readState, stateOf
  <2>5. QED
    BY <1>1, <1>3, <2>3, <2>4 DEF Current, Program!Now
<1>4. QED
  BY <1>2, <1>3

\* A condition which is used in the state has the same value in both.
LEMMA SameConditions ==
  ASSUME Agree, NEW f, \A v \in Value : DependsOn(f, v) => st \in UsedIn[v]
  PROVE  Ones \in f <=> Program!Holds(f)
<1>1. Program!Value = Value
  BY DEF Program!Value, Program!Read, Value, Read, intfOf
<1>2. Ones \in SUBSET Value /\ Program!Ones \in SUBSET Value
  BY <1>1 DEF Ones, Program!Ones
<1>3. ASSUME NEW v \in Value, DependsOn(f, v)
      PROVE  v \in Ones <=> v \in Program!Ones
  <2>1. /\ defState(v) <= st
        /\ Current(v) = Program!Now(v)
        /\ Program!Now(v) \in 0..MaxItems
    BY <1>3, ValuesUsed
  <2>2. Program!defState(v) = defState(v)
    BY DEF Program!defState, defState, readState, stateOf
  <2>3. Program!Now(v) <= MaxItems
    BY <2>1, FsmAssumption
  <2>4. v \in Ones <=> IF v \in Channel THEN Program!Now(v) = 1
                       ELSE bit[access[v].intf][Program!Now(v)]
    BY <2>1 DEF Ones, IsOne, intfOf
  <2>5. v \in Program!Ones <=> IF v \in Channel THEN Program!Now(v) = 1
                               ELSE bit[access[v].intf][Program!Now(v)]
    BY <1>1, <2>1, <2>2, <2>3 DEF Program!Ones
  <2>6. QED
    BY <2>4, <2>5
<1>4. QED
  BY <1>2, <1>3, SameOnDependencies DEF Program!Holds

\* The state performs the accesses of the program and sends its values.
LEMMA SamePerformed ==
  ASSUME Agree
  PROVE  /\ Program!Performed = {a \in AccessesIn(st) : Enabled(a)}
         /\ \A c \in Channel : writeState(c) = st => Src(c) = Program!ToSend(c)
<1>1. ASSUME NEW a \in AccessesIn(st)
      PROVE  Enabled(a) <=> Program!Holds(access[a].guard)
  <2>1. \A v \in Value : DependsOn(guardOf(a), v) => st \in UsedIn[v]
    BY DEF UsedIn, AccessesIn
  <2>2. QED
    BY <2>1, SameConditions DEF Enabled, guardOf
<1>2. ASSUME NEW c \in Channel, writeState(c) = st
      PROVE  Src(c) = Program!ToSend(c)
  <2>1. \A v \in Value : DependsOn(channel[c].src, v) => st \in UsedIn[v]
    BY <1>2 DEF UsedIn
  <2>2. QED
    BY <2>1, SameConditions DEF Src, Program!ToSend
<1>3. QED
  BY <1>1, <1>2 DEF Program!Performed, AccessesIn, stateOf

\* Each interface makes the transfer of its one performed access, if there is one.
LEMMA SameTransfers ==
  ASSUME Agree, NEW io \in Io
  PROVE  /\ \A a, b \in Program!Performed :
              access[a].intf = io /\ access[b].intf = io => a = b
         /\ Transfer(io) <=> \E a \in Program!Performed : access[a].intf = io
         /\ Transfer(io) => Partner(io)
         /\ Transfer(io) =>
              {b \in AccessOf(st, io) : Enabled(b)}
                = {b \in Program!Performed : access[b].intf = io}
<1> DEFINE performed == {b \in Program!Performed : access[b].intf = io}
<1>1. performed = {b \in AccessOf(st, io) : Enabled(b)}
  BY SamePerformed DEF AccessOf, AccessesIn, intfOf
<1>2. \A a, b \in performed : a = b
  <2>1. \A a, b \in performed : /\ Ones \in guardOf(a) /\ Ones \in guardOf(b)
                                /\ a \in Access /\ b \in Access
                                /\ intfOf(a) = intfOf(b) /\ stateOf(a) = stateOf(b)
    BY <1>1 DEF AccessOf, AccessesIn, Enabled
  <2>2. QED
    BY <2>1, FsmAssumption
<1>3. Transfer(io) <=> io \in IoOf(st) /\ ~ SkipWhen(io)
  BY DEF Agree, Ack, Transfer
<1>4. io \in IoOf(st) <=> AccessOf(st, io) # {}
  BY DEF IoOf, AccessOf
<1>5. \A a \in AccessOf(st, io) : a \in Access /\ a \notin Conditional => Enabled(a)
  <2>1. Ones \in Always
    BY DEF Ones, Always
  <2>2. QED
    BY <2>1 DEF Conditional, Enabled
<1>6. ASSUME NEW a \in AccessOf(st, io), Enabled(a)
      PROVE  ~ SkipWhen(io)
  <2>1. a \in Access /\ intfOf(a) = io /\ stateOf(a) = st
    BY <1>6 DEF AccessOf, AccessesIn
  <2>2. CASE a \in Conditional
    BY <1>6, <2>2 DEF SkipWhen, ConditionalOf
  <2>3. CASE a \notin Conditional
    <3>1. \A b \in AccessOf(st, io) : b = a
      BY <2>1, <2>3, UnconditionalAccess DEF Agree, TypeInv
    <3>2. QED
      BY <2>3, <3>1 DEF SkipWhen, ConditionalOf
  <2>4. QED
    BY <2>2, <2>3
<1>7. ASSUME AccessOf(st, io) # {}, ~ SkipWhen(io)
      PROVE  \E a \in AccessOf(st, io) : Enabled(a)
  <2>1. CASE ConditionalOf(io) = {}
    <3>1. PICK a \in AccessOf(st, io) : a \notin Conditional /\ a \in Access
      BY <1>7, <2>1 DEF ConditionalOf, AccessOf, AccessesIn
    <3>2. QED
      BY <1>5, <3>1
  <2>2. CASE ConditionalOf(io) # {}
    BY <1>7, <2>2 DEF SkipWhen, ConditionalOf
  <2>3. QED
    BY <2>1, <2>2
<1>8. Transfer(io) <=> \E a \in AccessOf(st, io) : Enabled(a)
  BY <1>3, <1>4, <1>6, <1>7
<1>9. Transfer(io) => Partner(io)
  BY DEF Transfer, Satisfied
<1>10. QED
  BY <1>1, <1>2, <1>8, <1>9

-----------------------------------------------------------------------------
\* Each output has what was written to it.
WrittenIsFunction == written = [io \in Output |-> written[io]]

programVars == <<bit, st, count, written, last, sent>>

\* A state that is not left changes nothing the program knows.
LEMMA StallIsStutter ==
  ASSUME TypeInv, WrittenIsFunction, Clock, ~ Ack
  PROVE  UNCHANGED programVars
<1>1. \A io \in Io : ~ Transfer(io)
  BY DEF Ack, Transfer
<1>2. {io \in Io : Transfer(io)} = {}
  BY <1>1
<1>3. st' = st /\ UNCHANGED bit
  BY DEF Clock, NextState
<1>4. count' = count
  BY <1>2 DEF Clock, TypeInv, TypeOK
<1>5. /\ written' = [io \in Output |-> written[io]]
      /\ last' = [v \in Value |-> last[v]]
      /\ sent' = [c \in Channel |-> sent[c]]
  BY <1>2 DEF Clock
<1>6. last' = last /\ sent' = sent
  BY <1>5 DEF TypeInv, TypeOK
<1>7. written' = written
  BY <1>5 DEF WrittenIsFunction
<1>8. QED
  BY <1>3, <1>4, <1>6, <1>7 DEF programVars

\* Leaving a state is a step of the program.
LEMMA LeaveIsProgramStep ==
  ASSUME JumpsFromLastToFirst, Agree, WrittenOK, WrittenIsFunction, Clock
  PROVE  Program!Next
<1> DEFINE done == {io \in Io : Transfer(io)}
           performed(io) == {a \in Program!Performed : access[a].intf = io}
<1>1. /\ TypeOK /\ Ack /\ MaxItems \in Nat
      /\ Program!Io = Io /\ Program!Value = Value
  BY FsmAssumption
     DEF Agree, TypeInv, Program!Io, Io, Program!Value, Program!Read, Value, Read, intfOf
<1>2. \A a \in Program!Performed : count[access[a].intf] < MaxItems
  <2> SUFFICES ASSUME NEW a \in Program!Performed
               PROVE  count[access[a].intf] < MaxItems
    OBVIOUS
  <2>1. a \in Access /\ access[a].intf \in Io
    BY ProgramFacts DEF Program!Performed, intfOf
  <2>2. Partner(access[a].intf)
    BY <2>1, SameTransfers
  <2>3. QED
    BY <1>1, <2>2 DEF Partner, TypeOK
<1>3. count' = [io \in Program!Io |-> IF \E a \in Program!Performed : access[a].intf = io
                                      THEN count[io] + 1 ELSE count[io]]
  <2>1. count' = [io \in Io |-> IF Transfer(io) THEN count[io] + 1 ELSE count[io]]
    BY DEF Clock
  <2>2. QED
    BY <1>1, <2>1, SameTransfers
<1>4. written' =
        [io \in Output |->
           written[io] \o
             IF \E a \in Program!Performed : access[a].intf = io
             THEN LET a == CHOOSE b \in Program!Performed : access[b].intf = io
                  IN  << [access |-> a,
                          values |-> [v \in access[a].operands |-> Program!Now(v)]] >>
             ELSE << >>]
  <2> DEFINE item(io) ==
               LET a == CHOOSE b \in Program!Performed : access[b].intf = io
               IN  [access |-> a,
                    values |-> [v \in access[a].operands |-> Program!Now(v)]]
             more(io) == IF \E a \in Program!Performed : access[a].intf = io
                         THEN << item(io) >> ELSE << >>
  <2>1. ASSUME NEW io \in Output, io \in done
        PROVE  Written(io) = item(io)
    <3>1. PICK a \in performed(io) : \A b \in performed(io) : b = a
      BY <2>1, SameTransfers
    <3>2. (CHOOSE b \in Program!Performed : access[b].intf = io) = a
      BY <3>1
    <3>3. {b \in AccessOf(st, io) : Enabled(b)} = performed(io)
      BY <2>1, SameTransfers
    <3>4. (CHOOSE b \in AccessOf(st, io) : Enabled(b)) = a
      BY <3>1, <3>3
    <3>5. a \in AccessesIn(st)
      BY <3>1, SamePerformed
    <3>6. operandsOf(a) \subseteq Value /\ operandsOf(a) = access[a].operands
      BY <3>5, FsmAssumption DEF AccessesIn, AccessType, operandsOf, Value
    <3>7. \A v \in operandsOf(a) : Current(v) = Program!Now(v)
      <4>1. \A v \in operandsOf(a) : st \in UsedIn[v]
        BY <3>5, <3>6 DEF UsedIn, AccessesIn
      <4>2. QED
        BY <3>6, <4>1, ValuesUsed
    <3>8. Written(io) = [access |-> a, values |-> [v \in operandsOf(a) |-> Current(v)]]
      BY <3>4 DEF Written
    <3>9. item(io) = [access |-> a, values |-> [v \in access[a].operands |-> Program!Now(v)]]
      BY <3>2
    <3>10. QED
      BY <3>6, <3>7, <3>8, <3>9
  <2>2. ASSUME NEW io \in Output
        PROVE  (IF io \in done THEN Append(written[io], Written(io)) ELSE written[io])
                 = written[io] \o more(io)
    <3>1. io \in Io /\ written[io] \in Seq(Item)
      BY DEF Io, WrittenOK
    <3>2. CASE io \in done
      <4>1. more(io) = << Written(io) >>
        BY <2>1, <3>1, <3>2, SameTransfers
      <4>2. Written(io) \in Item
        BY <1>1, <3>1, <3>2, TransferFacts
      <4> HIDE DEF more
      <4>3. Append(written[io], Written(io)) = written[io] \o << Written(io) >>
        BY <3>1, <4>2, AppendIsConcat
      <4>4. QED
        BY <3>2, <4>1, <4>3
    <3>3. CASE io \notin done
      <4>1. more(io) = << >>
        BY <3>1, <3>3, SameTransfers
      <4>2. QED
        BY <3>1, <3>3, <4>1, ConcatEmptySeq
    <3>4. QED
      BY <3>2, <3>3
  <2>3. written' = [io \in Output |-> IF io \in done
                                      THEN Append(written[io], Written(io)) ELSE written[io]]
    BY DEF Clock
  <2> HIDE DEF more, done
  <2>4. written' = [io \in Output |-> written[io] \o more(io)]
    BY <2>2, <2>3
  <2>5. QED
    BY <2>4 DEF more
<1>5. last' = [v \in Program!Value |->
                 IF Program!defState(v) = st /\ (v \in Channel \/ Program!Unconditional(v))
                 THEN Program!Now(v) ELSE last[v]]
  <2>1. ASSUME NEW v \in Value
        PROVE  (IF Ack /\ defState(v) = st /\ v \notin Conditional THEN Source(v) ELSE last[v])
                 = IF Program!defState(v) = st /\ (v \in Channel \/ Program!Unconditional(v))
                   THEN Program!Now(v) ELSE last[v]
    <3>1. Program!defState(v) = defState(v)
      BY DEF Program!defState, defState, readState, stateOf
    <3>2. v \in Channel \/ Program!Unconditional(v) <=> v \notin Conditional
      BY <1>1, FsmAssumption
         DEF Conditional, Program!Unconditional, Always, Value, Read, guardOf
    <3>3. QED
      BY <1>1, <3>1, <3>2, ValuesOfState
  <2>2. last' = [v \in Value |-> IF Ack /\ defState(v) = st /\ v \notin Conditional
                                 THEN Source(v) ELSE last[v]]
    BY DEF Clock
  <2>3. QED
    BY <1>1, <2>1, <2>2
<1>6. sent' = [c \in Channel |-> IF Program!Sends(c) THEN Program!ToSend(c) ELSE sent[c]]
  <2>1. sent' = [c \in Channel |-> IF Ack /\ writeState(c) = st THEN Src(c) ELSE sent[c]]
    BY DEF Clock
  <2>2. \A c \in Channel : Program!Sends(c) <=> writeState(c) = st
    BY DEF Program!Sends, writeState
  <2>3. QED
    BY <1>1, <2>1, <2>2, SamePerformed
<1>7. LET received == {channel[c].read :
                         c \in {d \in Channel : Program!Sends(d) /\ Program!ToSend(d) = 1}}
      IN  st' \in IF received = {} THEN {(st + 1) % NumStates} ELSE received
  <2>1. st' = Smallest(Transitions)
    BY <1>1 DEF Clock, NextState
  <2>2. {d \in Channel : Program!Sends(d) /\ Program!ToSend(d) = 1} = JumpSources
    BY SamePerformed DEF Program!Sends, JumpSources, writeState
  <2>3. st' \in IF JumpSources = {} THEN {(st + 1) % NumStates}
                ELSE {readState(c) : c \in JumpSources}
    BY <1>1, <2>1, NextStateIsJump DEF TypeOK
  <2>4. QED
    BY <2>2, <2>3 DEF readState
<1>8. bit' = bit
  BY DEF Clock
<1>9. QED
  BY <1>2, <1>3, <1>4, <1>5, <1>6, <1>7, <1>8, Zenon DEF Program!Next

-----------------------------------------------------------------------------
\* The IO of the FSM is that of the sequential program: for every program whose
\* channels are not read and written in one state, whose states are in
\* consecutive clks and whose last state goes back only to the first one, under
\* every stall of every interface.
THEOREM FsmImplementsProgram ==
  ASSUME SeparateEnds, Contiguous, JumpsFromLastToFirst
  PROVE  Spec => ProgramSpec
<1>1. Init => Program!Init /\ WrittenIsFunction
  BY DEF Init, Program!Init, Program!Io, Io, WrittenIsFunction,
         Program!Value, Program!Read, Value, Read, intfOf
<1>2. WrittenIsFunction /\ [Next]_vars => WrittenIsFunction'
  <2>1. Clock => WrittenIsFunction'
    BY DEF Clock, WrittenIsFunction
  <2>2. written' = written /\ WrittenIsFunction => WrittenIsFunction'
    BY DEF WrittenIsFunction
  <2>3. QED
    BY <2>1, <2>2 DEF Next, Serve, Offer, Accept, Withdraw, vars
<1>3. TypeInv /\ ReadsWhatWasSent /\ RegistersKeepValue /\ WrittenIsFunction /\ [Next]_vars
        => [Program!Next]_programVars
  <2> SUFFICES ASSUME TypeInv, ReadsWhatWasSent, RegistersKeepValue, WrittenIsFunction,
                      [Next]_vars
               PROVE  Program!Next \/ UNCHANGED programVars
    OBVIOUS
  <2>1. CASE Clock /\ Ack
    BY <2>1, LeaveIsProgramStep DEF Agree, TypeInv
  <2>2. CASE Clock /\ ~ Ack
    BY <2>2, StallIsStutter
  <2>3. Clock \/ UNCHANGED programVars
    BY DEF Next, Serve, Offer, Accept, Withdraw, vars, programVars
  <2>4. QED
    BY <2>1, <2>2, <2>3
<1>4. Spec => []TypeInv
  BY InitTypeInv, NextTypeInv, PTL DEF Spec
<1>5. Spec => []ReadsWhatWasSent
  BY ChannelsSurviveStalls
<1>6. Spec => []RegistersKeepValue
  BY RegistersHold
<1>7. QED
  BY <1>1, <1>2, <1>3, <1>4, <1>5, <1>6, PTL
     DEF Spec, ProgramSpec, Program!Spec, programVars

=============================================================================
