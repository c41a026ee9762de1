------------------------- MODULE PipelineSyncProofs -------------------------
(***************************************************************************)
(* Proofs about PipelineSync for every number of stages and tokens and     *)
(* every distribution of IO: the registers hold the tokens in their order, *)
(* no stage makes a part of its transfers, and the pipeline implements     *)
(* PipelinedLoop.                                                          *)
(***************************************************************************)
EXTENDS PipelineSync, FiniteSetTheorems, TLAPS

\* The conditions are those of a legal iteration; needed with TypeOK, which
\* only says that they are sets of accesses.
PlansOK == \A i \in 0..MaxTokens : IsPlan(plan[i])

\* The inductive invariant.
IInv == TypeOK /\ PlansOK /\ TokensInOrder /\ StageIsAtomic

-----------------------------------------------------------------------------
\* The stages are an interval that ends with Last and has all synchronized IO.
LEMMA StageFacts ==
  /\ First \in Int /\ Last \in Int /\ First <= Last
  /\ Stage = First..Last
  /\ \A s \in Stage : s # Last => s + 1 \in Stage /\ s + 1 # First
  /\ \A s \in Stage : s # First => s - 1 \in Stage /\ s - 1 # Last
  /\ \A io \in Synced : io \in Io /\ stageOf[io] \in Stage /\ io \in IoOf(stageOf[io])
<1>1. First \in 0..(NumStages - 1) /\ IsFirstSyncedStage(First)
  BY PipelineAssumption DEF First
<1>2. Last \in Int /\ First \in Int /\ First <= Last
  BY <1>1, PipelineAssumption DEF Last
<1>3. \A io \in Synced : io \in Io /\ stageOf[io] \in Stage /\ io \in IoOf(stageOf[io])
  BY <1>1, PipelineAssumption DEF IsFirstSyncedStage, Synced, Stage, Last, IoOf
<1>4. QED
  BY <1>2, <1>3 DEF Stage

-----------------------------------------------------------------------------
\* How many of the first i tokens perform an access: at most all of them.
LEMMA PerformedBound ==
  ASSUME NEW i \in Nat, NEW io
  PROVE  /\ IsFiniteSet(PerformedUpTo(i, io))
         /\ Cardinality(PerformedUpTo(i, io)) \in 0..i
<1>1. IsFiniteSet(1..i) /\ Cardinality(1..i) = i
  BY FS_Interval
<1>2. PerformedUpTo(i, io) \in SUBSET (1..i)
  BY DEF PerformedUpTo
<1>3. IsFiniteSet(PerformedUpTo(i, io)) /\ Cardinality(PerformedUpTo(i, io)) <= i
  BY <1>1, <1>2, FS_Subset
<1>4. Cardinality(PerformedUpTo(i, io)) \in Nat
  BY <1>3, FS_CardinalityType
<1>5. QED
  BY <1>3, <1>4

\* One more token adds one access or none.
LEMMA PerformedNext ==
  ASSUME NEW i \in Nat, NEW io
  PROVE  Cardinality(PerformedUpTo(i + 1, io)) =
           Cardinality(PerformedUpTo(i, io)) + IF Performs(i + 1, io) THEN 1 ELSE 0
<1>1. IsFiniteSet(PerformedUpTo(i, io)) /\ Cardinality(PerformedUpTo(i, io)) \in Nat
  BY PerformedBound
<1>2. i + 1 \notin PerformedUpTo(i, io)
  BY DEF PerformedUpTo
<1>3. CASE Performs(i + 1, io)
  <2>1. PerformedUpTo(i + 1, io) = PerformedUpTo(i, io) \cup {i + 1}
    BY <1>3 DEF PerformedUpTo
  <2>2. QED
    BY <1>1, <1>2, <1>3, <2>1, FS_AddElement
<1>4. CASE ~ Performs(i + 1, io)
  <2>1. PerformedUpTo(i + 1, io) = PerformedUpTo(i, io)
    <3>1. ASSUME NEW j \in 1..(i + 1), Performs(j, io)
          PROVE  j \in 1..i
      BY <1>4, <3>1
    <3>2. QED
      BY <3>1 DEF PerformedUpTo
  <2>2. QED
    BY <1>1, <1>4, <2>1
<1>5. QED
  BY <1>3, <1>4

-----------------------------------------------------------------------------
\* The merged conditions of an interface say exactly if the token accesses it.
LEMMA MergedConditions ==
  ASSUME NEW i, IsPlan(plan[i]), NEW io \in Io
  PROVE  /\ Performs(i, io) <=> ~ SkipWhen(i, io)
         /\ ~ SkipWhen(i, io) => ExtraCond(i, io)
<1>1. PICK a \in Access : intfOf[a] = io
  BY PipelineAssumption DEF AccessOf
<1>2. \A b \in Access : b # a /\ intfOf[b] = io => a \in Conditional /\ b \in Conditional
  BY <1>1, PipelineAssumption
<1>3. Access \ Conditional \subseteq plan[i] /\ plan[i] \subseteq Access
  BY DEF IsPlan
<1>4. ConditionalOf(io) = {b \in Access : intfOf[b] = io /\ b \in Conditional}
  BY DEF ConditionalOf, AccessOf
<1>5. CASE a \in Conditional
  BY <1>1, <1>2, <1>3, <1>4, <1>5 DEF Performs, SkipWhen, ExtraCond
<1>6. CASE a \notin Conditional
  <2>1. ConditionalOf(io) = {}
    BY <1>2, <1>4, <1>6
  <2>2. a \in plan[i]
    BY <1>3, <1>6
  <2>3. QED
    BY <1>1, <2>1, <2>2 DEF Performs, SkipWhen, ExtraCond
<1>7. QED
  BY <1>5, <1>6

\* A stage with valid input works on the token after the last one it finished.
LEMMA EnteringFacts ==
  ASSUME TypeOK, TokensInOrder, NEW s \in Stage, prev_st_valid(s)
  PROVE  /\ Entering(s) \in Values
         /\ TokenIn(s) = reg[s].tok + 1
         /\ TokenIn(s) \in 1..MaxTokens
<1>1. reg \in [Stage -> Values] /\ reg[s] \in Values /\ First \in Stage /\ reg[First] \in Values
  BY StageFacts DEF TypeOK
<1>2. MaxTokens \in Nat
  BY PipelineAssumption
<1>3. CASE s = First
  <2>1. reg[First].tok < MaxTokens
    BY <1>3 DEF prev_st_valid
  <2>2. Entering(s) = [tok |-> reg[First].tok + 1, item |-> [io \in Input |-> 0]]
    BY <1>3 DEF Entering, NoRegister
  <2>3. reg[First].tok \in 0..MaxTokens
    BY <1>1 DEF Values
  <2>4. QED
    BY <1>2, <1>3, <2>1, <2>2, <2>3 DEF Values, TokenIn
<1>4. CASE s # First
  <2>1. valid[s - 1] /\ s - 1 \in Stage \ {Last}
    BY <1>4, StageFacts DEF prev_st_valid
  <2>2. s \in Int /\ (s - 1) + 1 = s
    BY StageFacts
  <2>3. reg[s - 1].tok = reg[s].tok + 1
    BY <2>1, <2>2 DEF TokensInOrder
  <2>4. Entering(s) = reg[s - 1] /\ reg[s - 1] \in Values
    BY <1>1, <1>4, <2>1 DEF Entering
  <2>5. reg[s].tok \in 0..MaxTokens /\ reg[s - 1].tok \in 0..MaxTokens
    BY <1>1, <2>4 DEF Values
  <2>6. QED
    BY <1>2, <2>3, <2>4, <2>5 DEF TokenIn
<1>5. QED
  BY <1>3, <1>4

-----------------------------------------------------------------------------
\* What the equations of the wires say of one stage.
LEMMA WireFacts ==
  ASSUME NEW rd \in [Stage \ {Last} -> BOOLEAN],
         Wires(rd), NEW s \in Stage
  PROVE  /\ LoadEnable(s, rd) => prev_st_valid(s)
         /\ s # Last => (LoadEnable(s, rd) <=> rd[s] /\ Vld(s, rd))
         /\ s # Last => (rd[s] <=> LoadEnable(s + 1, rd) \/ ~ valid[s])
         /\ IoOf(s) # {} =>
              (LoadEnable(s, rd) <=>
                 /\ en(s, rd)
                 /\ s = Last \/ rd[s]
                 /\ \A io \in IoOf(s) : Satisfied(TokenIn(s), io))
<1>1. s # Last => rd[s] = Rd(s, rd)
  BY DEF Wires
<1>2. s # Last => (LoadEnable(s, rd) <=> rd[s] /\ Vld(s, rd))
  BY <1>1 DEF LoadEnable, Ack, Vld, en
<1>3. s # Last => (rd[s] <=> LoadEnable(s + 1, rd) \/ ~ valid[s])
  <2>1. s # Last => s + 1 # First /\ (s + 1) - 1 = s
    BY StageFacts
  <2>2. QED
    BY <1>1, <2>1 DEF Rd, LoadEnable, prev_st_valid
<1>4. QED
  BY <1>1, <1>2, <1>3 DEF LoadEnable, Ack, en

\* An interface has a transfer exactly when its stage loads its registers and
\* the token of the stage accesses it.
LEMMA TransferIffLoad ==
  ASSUME TypeOK, PlansOK, TokensInOrder,
         NEW rd \in [Stage \ {Last} -> BOOLEAN],
         Wires(rd), NEW io \in Synced
  PROVE  LET s == stageOf[io]
         IN  Transfer(io, rd) <=>
               LoadEnable(s, rd) /\ Performs(TokenIn(s), io)
<1> DEFINE s == stageOf[io]
           i == TokenIn(s)
<1>1. s \in Stage /\ io \in IoOf(s) /\ io \in Io
  BY StageFacts
<1>2. LoadEnable(s, rd) <=>
        /\ en(s, rd)
        /\ s = Last \/ rd[s]
        /\ \A other \in IoOf(s) : Satisfied(i, other)
  BY <1>1, WireFacts
<1>3. CASE ~ prev_st_valid(s)
  BY <1>2, <1>3 DEF Transfer, en
<1>4. CASE prev_st_valid(s)
  <2>1. i \in 0..MaxTokens
    BY <1>1, <1>4, EnteringFacts, PipelineAssumption
  <2>2. /\ Performs(i, io) <=> ~ SkipWhen(i, io)
        /\ ~ SkipWhen(i, io) => ExtraCond(i, io)
    BY <1>1, <2>1, MergedConditions DEF PlansOK
  <2>3. Transfer(io, rd) <=>
          /\ en(s, rd)
          /\ Partner(io) /\ ExtraCond(i, io) /\ ~ SkipWhen(i, io)
          /\ s = Last \/ rd[s]
          /\ \A other \in IoOf(s) \ {io} : Satisfied(i, other)
    BY DEF Transfer
  <2>4. Satisfied(i, io) <=> SkipWhen(i, io) \/ (Partner(io) /\ ExtraCond(i, io))
    BY DEF Satisfied
  <2>5. (\A other \in IoOf(s) : Satisfied(i, other)) <=>
          Satisfied(i, io) /\ \A other \in IoOf(s) \ {io} : Satisfied(i, other)
    BY <1>1
  <2>6. CASE SkipWhen(i, io)
    BY <2>2, <2>3, <2>6
  <2>7. CASE ~ SkipWhen(i, io)
    BY <1>2, <2>2, <2>3, <2>4, <2>5, <2>7
  <2>8. QED
    BY <2>6, <2>7
<1>5. QED
  BY <1>3, <1>4

-----------------------------------------------------------------------------
\* The number of accesses to an interface is kept by each finished token.
LEMMA CountNext ==
  ASSUME IInv, NEW io \in Synced, prev_st_valid(stageOf[io])
  PROVE  LET i == TokenIn(stageOf[io])
         IN  /\ count[io] + (IF Performs(i, io) THEN 1 ELSE 0) = Cardinality(PerformedUpTo(i, io))
             /\ Cardinality(PerformedUpTo(i, io)) \in 0..MaxTokens
<1> DEFINE k == reg[stageOf[io]].tok
           i == TokenIn(stageOf[io])
<1>1. stageOf[io] \in Stage
  BY StageFacts
<1>2. k \in 0..MaxTokens /\ MaxTokens \in Nat
  BY <1>1, PipelineAssumption DEF IInv, TypeOK, Values
<1>3. i = k + 1 /\ i \in 1..MaxTokens
  BY <1>1, EnteringFacts DEF IInv
<1>4. count[io] = Cardinality(PerformedUpTo(k, io))
  BY DEF IInv, StageIsAtomic
<1>5. Cardinality(PerformedUpTo(i, io)) =
        Cardinality(PerformedUpTo(k, io)) + IF Performs(i, io) THEN 1 ELSE 0
  BY <1>2, <1>3, PerformedNext
<1>6. Cardinality(PerformedUpTo(i, io)) \in 0..i
  BY <1>2, <1>3, PerformedBound
<1>7. QED
  BY <1>2, <1>3, <1>4, <1>5, <1>6

\* The values a stage loads are those of the token it works on.
LEMMA LeavingFacts ==
  ASSUME IInv, NEW s \in Stage, prev_st_valid(s)
  PROVE  /\ Leaving(s) \in Values
         /\ Leaving(s).tok = TokenIn(s)
<1>1. Entering(s) \in Values
  BY EnteringFacts DEF IInv
<1>2. ASSUME NEW io \in Input, io \in IoOf(s), Performs(TokenIn(s), io)
      PROVE  count[io] + 1 \in 0..MaxTokens
  <2>1. io \in Synced /\ stageOf[io] = s
    BY <1>2 DEF IoOf
  <2>2. QED
    BY <1>2, <2>1, CountNext
<1>3. [io \in Input |-> IF io \in IoOf(s) /\ Performs(TokenIn(s), io)
                        THEN count[io] + 1 ELSE Entering(s).item[io]]
        \in [Input -> 0..MaxTokens]
  BY <1>1, <1>2 DEF Values
<1>4. Leaving(s) =
        [tok  |-> Entering(s).tok,
         item |-> [io \in Input |-> IF io \in IoOf(s) /\ Performs(TokenIn(s), io)
                                    THEN count[io] + 1 ELSE Entering(s).item[io]]]
  BY <1>1 DEF Leaving, Values
<1>5. QED
  BY <1>1, <1>3, <1>4 DEF Values, TokenIn

\* One clock edge keeps the types.
LEMMA ClockTypeOK ==
  ASSUME IInv, Clock
  PROVE  /\ plan' \in [0..MaxTokens -> SUBSET Access]
         /\ valid' \in [Stage -> BOOLEAN]
         /\ reg' \in [Stage -> Values]
         /\ offered' \subseteq Input
         /\ accepting' \subseteq Output
         /\ written' \in [Output -> Seq([access : Access, values : Values])]
<1>1. PICK rd \in [Stage \ {Last} -> BOOLEAN] : Clock!(rd)
  BY DEF Clock
<1>2. plan' \in [0..MaxTokens -> SUBSET Access] /\ offered' \subseteq Input /\ accepting' \subseteq Output
  BY <1>1 DEF IInv, TypeOK
<1>3. valid' \in [Stage -> BOOLEAN]
  <2>1. \A s \in Stage : NextValid(s, rd) \in BOOLEAN
    BY DEF NextValid, Vld, en, prev_st_valid, IInv, TypeOK
  <2>2. QED
    BY <1>1, <2>1
<1>4. reg' \in [Stage -> Values]
  <2>1. \A s \in Stage : LoadEnable(s, rd) => Leaving(s) \in Values
    BY <1>1, WireFacts, LeavingFacts
  <2>2. reg \in [Stage -> Values]
    BY DEF IInv, TypeOK
  <2>3. QED
    BY <1>1, <2>1, <2>2
<1>5. written' \in [Output -> Seq([access : Access, values : Values])]
  <2>1. ASSUME NEW io \in Output, io \in Synced, Transfer(io, rd)
        PROVE  Written(io) \in [access : Access, values : Values]
    <3>1. stageOf[io] \in Stage
      BY <2>1, StageFacts
    <3>2. LoadEnable(stageOf[io], rd) /\ Performs(TokenIn(stageOf[io]), io)
      BY <1>1, <2>1, TransferIffLoad DEF IInv
    <3>3. prev_st_valid(stageOf[io])
      BY <1>1, <3>1, <3>2, WireFacts
    <3>4. Leaving(stageOf[io]) \in Values
      BY <3>1, <3>3, LeavingFacts
    <3>5. TokenIn(stageOf[io]) \in 0..MaxTokens
      BY <3>1, <3>3, EnteringFacts, PipelineAssumption DEF IInv
    <3>6. plan[TokenIn(stageOf[io])] \subseteq Access
      BY <3>5 DEF IInv, TypeOK
    <3>7. \E a \in AccessOf(io) : a \in plan[TokenIn(stageOf[io])]
      BY <3>2, <3>6 DEF Performs, AccessOf
    <3>8. MuxCase(io, TokenIn(stageOf[io])) \in Access
      BY <3>7 DEF MuxCase, AccessOf
    <3>9. QED
      BY <3>4, <3>8 DEF Written
  <2>2. written \in [Output -> Seq([access : Access, values : Values])]
    BY DEF IInv, TypeOK
  <2>3. \A io \in Output : written'[io] \in Seq([access : Access, values : Values])
    <3> SUFFICES ASSUME NEW io \in Output
                 PROVE  written'[io] \in Seq([access : Access, values : Values])
      OBVIOUS
    <3>1. written[io] \in Seq([access : Access, values : Values])
      BY <2>2
    <3>2. CASE io \in Synced /\ Transfer(io, rd)
      <4>1. written'[io] = Append(written[io], Written(io))
        BY <1>1, <3>2
      <4>2. QED
        BY <2>1, <3>1, <3>2, <4>1
    <3>3. CASE ~ (io \in Synced /\ Transfer(io, rd))
      <4>1. written'[io] = written[io]
        BY <1>1, <3>3
      <4>2. QED
        BY <3>1, <4>1
    <3>4. QED
      BY <3>2, <3>3
  <2>4. written' = [io \in Output |-> written'[io]]
    BY <1>1
  <2>5. QED
    BY <2>3, <2>4
<1>6. QED
  BY <1>2, <1>3, <1>4, <1>5

\* One clock edge keeps the order of the tokens, whatever stalls.
LEMMA ClockTokensInOrder ==
  ASSUME IInv, Clock
  PROVE  TokensInOrder'
<1>1. PICK rd \in [Stage \ {Last} -> BOOLEAN] : Clock!(rd)
  BY DEF Clock
<1>2. SUFFICES ASSUME NEW s \in Stage \ {Last}
               PROVE  reg'[s].tok = reg'[s + 1].tok + IF valid'[s] THEN 1 ELSE 0
  BY DEF TokensInOrder
<1>3. s + 1 \in Stage /\ s + 1 # First /\ s \in Stage /\ s # Last /\ (s + 1) - 1 = s
  BY StageFacts
<1>4. ASSUME NEW t \in Stage
      PROVE  /\ LoadEnable(t, rd)   => reg'[t].tok = reg[t].tok + 1
             /\ ~ LoadEnable(t, rd) => reg'[t].tok = reg[t].tok
             /\ reg[t].tok \in Nat
  <2>1. reg'[t] = IF LoadEnable(t, rd) THEN Leaving(t) ELSE reg[t]
    BY <1>1
  <2>2. LoadEnable(t, rd) => prev_st_valid(t)
    BY <1>1, WireFacts
  <2>3. prev_st_valid(t) => Leaving(t).tok = reg[t].tok + 1
    BY LeavingFacts, EnteringFacts DEF IInv
  <2>4. reg[t].tok \in Nat
    BY PipelineAssumption DEF IInv, TypeOK, Values
  <2>5. QED
    BY <2>1, <2>2, <2>3, <2>4
<1>5. /\ LoadEnable(s, rd) <=> rd[s] /\ Vld(s, rd)
      /\ rd[s] <=> LoadEnable(s + 1, rd) \/ ~ valid[s]
      /\ LoadEnable(s + 1, rd) => valid[s]
  <2>1. Wires(rd)
    BY <1>1
  <2>2. LoadEnable(s + 1, rd) => prev_st_valid(s + 1)
    BY <1>3, <2>1, WireFacts
  <2>3. prev_st_valid(s + 1) = valid[s]
    BY <1>3 DEF prev_st_valid
  <2>4. QED
    BY <1>3, <2>1, <2>2, <2>3, WireFacts
<1>6. valid'[s] = IF rd[s] THEN Vld(s, rd) ELSE valid[s]
  BY <1>1, <1>3 DEF NextValid
<1>7. reg[s].tok = reg[s + 1].tok + IF valid[s] THEN 1 ELSE 0
  BY <1>3 DEF IInv, TokensInOrder
<1>8. QED
  BY <1>3, <1>4, <1>5, <1>6, <1>7

\* One clock edge counts exactly the accesses of the tokens that leave a stage.
LEMMA ClockStageIsAtomic ==
  ASSUME IInv, Clock
  PROVE  StageIsAtomic' /\ count' \in [Io -> 0..MaxTokens]
<1>1. PICK rd \in [Stage \ {Last} -> BOOLEAN] : Clock!(rd)
  BY DEF Clock
<1>2. ASSUME NEW io \in Synced
      PROVE  /\ count'[io] = Cardinality(PerformedUpTo(reg'[stageOf[io]].tok, io))
             /\ count'[io] \in 0..MaxTokens
  <2> DEFINE s == stageOf[io]
  <2>1. s \in Stage /\ io \in Io
    BY StageFacts
  <2>2. count'[io] = IF Transfer(io, rd) THEN count[io] + 1 ELSE count[io]
    BY <1>1, <2>1
  <2>3. Transfer(io, rd) <=> LoadEnable(s, rd) /\ Performs(TokenIn(s), io)
    BY <1>1, TransferIffLoad DEF IInv
  <2>4. count[io] \in 0..MaxTokens /\ count[io] = Cardinality(PerformedUpTo(reg[s].tok, io))
    BY <2>1 DEF IInv, TypeOK, StageIsAtomic
  <2>5. CASE LoadEnable(s, rd)
    <3>1. prev_st_valid(s)
      BY <1>1, <2>1, <2>5, WireFacts
    <3>2. reg'[s].tok = TokenIn(s)
      BY <1>1, <2>1, <2>5, <3>1, LeavingFacts
    <3>3. /\ count[io] + (IF Performs(TokenIn(s), io) THEN 1 ELSE 0)
               = Cardinality(PerformedUpTo(TokenIn(s), io))
          /\ Cardinality(PerformedUpTo(TokenIn(s), io)) \in 0..MaxTokens
      BY <3>1, CountNext
    <3>4. count'[io] = count[io] + IF Performs(TokenIn(s), io) THEN 1 ELSE 0
      BY <2>2, <2>3, <2>4, <2>5
    <3>5. QED
      BY <3>2, <3>3, <3>4
  <2>6. CASE ~ LoadEnable(s, rd)
    <3>1. reg'[s] = reg[s]
      BY <1>1, <2>1, <2>6
    <3>2. QED
      BY <2>2, <2>3, <2>4, <2>6, <3>1
  <2>7. QED
    BY <2>5, <2>6
<1>3. ASSUME NEW io \in Io \ Synced
      PROVE  count'[io] \in 0..MaxTokens
  BY <1>1 DEF IInv, TypeOK
<1>4. plan' = plan
  BY <1>1
<1>5. \A i, io : PerformedUpTo(i, io)' = PerformedUpTo(i, io)
  BY <1>4 DEF PerformedUpTo, Performs
<1>6. StageIsAtomic'
  BY <1>2, <1>5 DEF StageIsAtomic
<1>7. count' = [io \in Io |-> count'[io]]
  BY <1>1
<1>8. count' \in [Io -> 0..MaxTokens]
  BY <1>2, <1>3, <1>7
<1>9. QED
  BY <1>6, <1>8

-----------------------------------------------------------------------------
\* A set of natural numbers has a least one: what an induction needs.
LEMMA LeastNat ==
  ASSUME NEW T \in SUBSET Nat, T # {}
  PROVE  \E x \in T : \A y \in T : x <= y
<1> DEFINE R == {p \in Nat \X Nat : p[1] < p[2]}
<1>1. OpToRel(<, Nat) = R
  BY DEF OpToRel
<1>2. IsWellFoundedOn(R, Nat)
  BY NatLessThanWellFounded, <1>1
<1> HIDE DEF R
<1>3. PICK x \in T : \A y \in T : ~ (<<y, x>> \in R)
  BY <1>2, WFMin
<1>4. ASSUME NEW y \in T, y < x
      PROVE  FALSE
  <2>1. y \in Nat /\ x \in Nat /\ <<y, x>> \in Nat \X Nat
    OBVIOUS
  <2>2. <<y, x>>[1] < <<y, x>>[2]
    BY <1>4
  <2>3. <<y, x>> \in R
    BY <2>1, <2>2 DEF R
  <2>4. QED
    BY <1>3, <2>3
<1>5. QED
  BY <1>4

(***************************************************************************)
(* Why a stage stalls.  Of the consecutive stages from s on which have a   *)
(* token and do not load, the last one waits for its own interfaces: the   *)
(* stage behind it would otherwise be one of them.  This holds in every    *)
(* state, reachable or not.                                                *)
(***************************************************************************)
LEMMA StallHasCause == StallsOnlyForIo
<1> SUFFICES ASSUME NEW rd \in [Stage \ {Last} -> BOOLEAN],
                    Wires(rd),
                    NEW s \in Stage, prev_st_valid(s), ~ Ack(s, rd)
             PROVE  \E t \in s..Last : WaitsForIo(t) /\ \A u \in s..t : prev_st_valid(u)
  BY DEF StallsOnlyForIo
<1> DEFINE Stalled == {t \in s..Last : \A u \in s..t : prev_st_valid(u) /\ ~ Ack(u, rd)}
           Distance == {Last - t : t \in Stalled}
<1>1. /\ s \in Int /\ Last \in Int /\ s <= Last
      /\ \A t \in s..Last : t \in Stage
  BY StageFacts
<1>2. s \in Stalled
  BY <1>1
<1>3. PICK t \in Stalled : \A v \in Stalled : v <= t
  <2>1. Distance \in SUBSET Nat /\ Distance # {}
    BY <1>1, <1>2
  <2> HIDE DEF Stalled
  <2>2. PICK x \in Distance : \A y \in Distance : x <= y
    BY <2>1, LeastNat
  <2>3. PICK t \in Stalled : x = Last - t
    BY <2>2
  <2>4. \A v \in Stalled : Last - t <= Last - v
    BY <2>2, <2>3
  <2>5. Stalled \subseteq Int
    BY DEF Stalled
  <2>6. QED
    BY <1>1, <2>3, <2>4, <2>5
<1>4. t \in Int /\ t \in s..Last /\ t \in Stage /\ prev_st_valid(t) /\ ~ Ack(t, rd)
  BY <1>1, <1>3
<1>5. WaitsForIo(t)
  <2> SUFFICES ASSUME \A io \in IoOf(t) : Satisfied(TokenIn(t), io)
               PROVE  FALSE
    BY DEF WaitsForIo
  <2>1. ~ Ack(t, rd)
    BY <1>4 DEF Wires
  <2>2. t # Last
    BY <1>4, <2>1 DEF Ack, en, HasSpace
  <2>3. t + 1 \in Stage /\ t + 1 # First /\ t + 1 \in s..Last
    BY <1>1, <1>4, <2>2, StageFacts
  <2>4. ~ rd[t]
    BY <1>4, <2>1, <2>2 DEF Ack, en, HasSpace
  <2>5. valid[t] /\ ~ Ack(t + 1, rd)
    <3>1. rd[t] = Rd(t, rd)
      BY <1>4, <2>2 DEF Wires
    <3>2. QED
      BY <2>4, <3>1 DEF Rd
  <2>6. prev_st_valid(t + 1)
    <3>1. (t + 1) - 1 = t
      BY <1>4
    <3>2. QED
      BY <2>3, <2>5, <3>1 DEF prev_st_valid
  <2>7. \A u \in s..(t + 1) : u \in s..t \/ u = t + 1
    BY <1>1, <1>4
  <2>8. t + 1 \in Stalled
    BY <1>3, <2>3, <2>5, <2>6, <2>7
  <2>9. QED
    BY <1>3, <1>4, <2>8
<1>6. QED
  BY <1>3, <1>4, <1>5

-----------------------------------------------------------------------------
LEMMA InitInv == Init => IInv
<1> SUFFICES ASSUME Init PROVE IInv
  OBVIOUS
<1> USE DEF Init
<1>1. MaxTokens \in Nat /\ 0 \in 0..MaxTokens
  BY PipelineAssumption
<1>2. PlansOK /\ plan \in [0..MaxTokens -> SUBSET Access]
  BY DEF PlansOK
<1>3. NoRegister \in Values
  BY <1>1 DEF NoRegister, Values
<1>4. TypeOK
  BY <1>1, <1>2, <1>3 DEF TypeOK
<1>5. \A s \in Stage : reg[s].tok = 0
  BY DEF NoRegister
<1>6. TokensInOrder
  <2>1. \A s \in Stage : ~ valid[s]
    OBVIOUS
  <2>2. \A s \in Stage \ {Last} : s + 1 \in Stage
    BY StageFacts
  <2>3. QED
    BY <1>5, <2>1, <2>2 DEF TokensInOrder
<1>7. StageIsAtomic
  <2>1. \A io : Cardinality(PerformedUpTo(0, io)) = 0
    BY PerformedBound
  <2>2. QED
    BY <1>5, <2>1, StageFacts DEF StageIsAtomic
<1>8. QED
  BY <1>2, <1>4, <1>6, <1>7 DEF IInv

LEMMA NextInv == IInv /\ [Next]_vars => IInv'
<1> SUFFICES ASSUME IInv, [Next]_vars PROVE IInv'
  OBVIOUS
<1>1. CASE Clock
  <2>1. PlansOK'
    <3>1. plan' = plan /\ PlansOK
      BY <1>1 DEF Clock, IInv
    <3>2. QED
      BY <3>1 DEF PlansOK, IsPlan
  <2>2. TypeOK'
    BY <1>1, ClockTypeOK, ClockStageIsAtomic DEF TypeOK
  <2>3. QED
    BY <1>1, <2>1, <2>2, ClockTokensInOrder, ClockStageIsAtomic DEF IInv
<1>2. ASSUME UNCHANGED <<plan, valid, reg, count, written>>,
             offered' \subseteq Input, accepting' \subseteq Output
      PROVE  IInv'
  <2>1. TypeOK'
    BY <1>2 DEF IInv, TypeOK
  <2>2. PlansOK'
    BY <1>2 DEF IInv, PlansOK, IsPlan
  <2>3. TokensInOrder'
    BY <1>2 DEF IInv, TokensInOrder
  <2>4. \A i, io : PerformedUpTo(i, io)' = PerformedUpTo(i, io)
    BY <1>2 DEF PerformedUpTo, Performs
  <2>5. StageIsAtomic'
    BY <1>2, <2>4 DEF IInv, StageIsAtomic
  <2>6. QED
    BY <2>1, <2>2, <2>3, <2>5 DEF IInv
<1>3. ASSUME NEW io \in Io, Offer(io)
      PROVE  IInv'
  BY <1>2, <1>3 DEF Offer, IInv, TypeOK
<1>4. ASSUME NEW io \in Io, Accept(io)
      PROVE  IInv'
  BY <1>2, <1>4 DEF Accept, IInv, TypeOK
<1>5. ASSUME NEW io \in Io, Withdraw(io)
      PROVE  IInv'
  BY <1>2, <1>5 DEF Withdraw, IInv, TypeOK
<1>6. CASE UNCHANGED vars
  BY <1>2, <1>6 DEF vars, IInv, TypeOK
<1>7. QED
  BY <1>1, <1>3, <1>4, <1>5, <1>6 DEF Next

\* Every reachable state of every pipeline satisfies the inductive invariant.
THEOREM InvariantHolds == Spec => []IInv
  BY InitInv, NextInv, PTL DEF Spec

\* The registers and counters of the pipeline keep their types; in particular
\* no interface ever makes more transfers than there are tokens.
THEOREM TypeCorrect == Spec => []TypeOK
<1>1. IInv => TypeOK
  BY DEF IInv
<1>2. QED
  BY <1>1, InvariantHolds, PTL

\* allocateSyncForStage: for any number of stages and any interleaving of
\* stalls no token is lost, duplicated or reordered between two stages.
THEOREM NoTokenIsLost == Spec => []TokensInOrder
<1>1. IInv => TokensInOrder
  BY DEF IInv
<1>2. QED
  BY <1>1, InvariantHolds, PTL

\* The StreamNode with the merged skipWhen and extraCond: an interface has made
\* the transfers of the tokens that left its stage, and no other.
THEOREM StagesAreAtomic == Spec => []StageIsAtomic
<1>1. IInv => StageIsAtomic
  BY DEF IInv
<1>2. QED
  BY <1>1, InvariantHolds, PTL

\* The ready chain of allocateSyncForStage: a stage with a token stalls only
\* for its interfaces or those of the stages with the tokens directly ahead,
\* in a pipeline of any length.
THEOREM NoNeedlessStall == Spec => []StallsOnlyForIo
  BY StallHasCause, PTL

-----------------------------------------------------------------------------
\* The synchronized pipeline implements PipelinedLoop: the IO it does is that
\* of the loop, for every pipeline.  Two facts about the registers are needed
\* besides IInv: no stage is ahead of an earlier one, and the values behind a
\* stage are those which the token there has read.
NoOvertaking == \A s, t \in Stage : s <= t => reg[t].tok <= reg[s].tok

ValuesOfToken == \A s \in Stage : reg[s] = Loop!ValuesOf(reg[s].tok, s)

LoopInv == IInv /\ NoOvertaking /\ ValuesOfToken

-----------------------------------------------------------------------------
\* The two modules count the accesses of the tokens in the same way.
LEMMA SameAccesses ==
  ASSUME NEW i, NEW io
  PROVE  /\ Loop!Performs(i, io) <=> Performs(i, io)
         /\ Loop!Accesses(i, io) = Cardinality(PerformedUpTo(i, io))
<1>1. \A j : Loop!Performs(j, io) <=> Performs(j, io)
  BY DEF Loop!Performs, Performs
<1>2. {j \in 1..i : Loop!Performs(j, io)} = PerformedUpTo(i, io)
  BY <1>1 DEF PerformedUpTo
<1>3. Loop!Accesses(i, io) = Cardinality({j \in 1..i : Loop!Performs(j, io)})
  BY Zenon DEF Loop!Accesses, Loop!Cardinality, Cardinality
<1>4. QED
  BY <1>1, <1>2, <1>3

LEMMA AccessesMonotone ==
  ASSUME NEW i \in Nat, NEW k \in Nat, i <= k, NEW io
  PROVE  Loop!Accesses(i, io) <= Loop!Accesses(k, io)
<1>1. PerformedUpTo(i, io) \in SUBSET PerformedUpTo(k, io)
  BY DEF PerformedUpTo
<1>2. IsFiniteSet(PerformedUpTo(k, io))
  BY PerformedBound
<1>3. Cardinality(PerformedUpTo(i, io)) <= Cardinality(PerformedUpTo(k, io))
  BY <1>1, <1>2, FS_Subset
<1>4. QED
  BY <1>3, SameAccesses

\* A stage that loads its registers gives the token the values it has read.
LEMMA LeavingValues ==
  ASSUME LoopInv, NEW s \in Stage, prev_st_valid(s)
  PROVE  Leaving(s) = Loop!ValuesOf(TokenIn(s), s)
<1> DEFINE i == TokenIn(s)
<1>1. IInv /\ Entering(s) \in Values /\ First \in Int /\ s \in Int /\ First <= s
  BY EnteringFacts, StageFacts DEF LoopInv, IInv
<1>2. Leaving(s) =
        [tok  |-> i,
         item |-> [io \in Input |-> IF io \in IoOf(s) /\ Performs(i, io)
                                    THEN count[io] + 1 ELSE Entering(s).item[io]]]
  BY <1>1 DEF Leaving, Values, TokenIn
<1>3. ASSUME NEW io \in Input
      PROVE  (IF io \in IoOf(s) /\ Performs(i, io) THEN count[io] + 1 ELSE Entering(s).item[io])
               = IF io \in Synced /\ stageOf[io] <= s /\ Loop!Performs(i, io)
                 THEN Loop!Accesses(i, io) ELSE 0
  <2>1. CASE io \in IoOf(s) /\ Performs(i, io)
    <3>1. io \in Synced /\ stageOf[io] = s
      BY <2>1 DEF IoOf
    <3>2. count[io] + 1 = Cardinality(PerformedUpTo(i, io))
      BY <1>1, <2>1, <3>1, CountNext
    <3>3. QED
      BY <1>1, <2>1, <3>1, <3>2, SameAccesses
  <2>2. CASE ~ (io \in IoOf(s) /\ Performs(i, io)) /\ s = First
    <3>1. Entering(s).item[io] = 0
      BY <2>2 DEF Entering, NoRegister
    <3>2. io \in Synced => First <= stageOf[io] /\ stageOf[io] \in Int /\ io \in IoOf(stageOf[io])
      BY StageFacts
    <3>3. QED
      BY <1>1, <2>2, <3>1, <3>2, SameAccesses
  <2>3. CASE ~ (io \in IoOf(s) /\ Performs(i, io)) /\ s # First
    <3>1. Entering(s) = reg[s - 1] /\ reg[s - 1].tok = i
      BY <2>3 DEF Entering, TokenIn
    <3>2. s - 1 \in Stage
      BY <2>3, StageFacts
    <3>3. reg[s - 1] = Loop!ValuesOf(i, s - 1)
      BY <3>1, <3>2 DEF LoopInv, ValuesOfToken
    <3>4. Entering(s).item[io] = IF io \in Synced /\ stageOf[io] <= s - 1 /\ Loop!Performs(i, io)
                                 THEN Loop!Accesses(i, io) ELSE 0
      BY <3>1, <3>3 DEF Loop!ValuesOf
    <3>5. io \in Synced => stageOf[io] \in Int /\ io \in IoOf(stageOf[io])
      BY StageFacts
    <3>6. io \in Synced /\ stageOf[io] = s => ~ Loop!Performs(i, io)
      BY <2>3, <3>5, SameAccesses
    <3>7. QED
      BY <1>1, <2>3, <3>4, <3>5, <3>6
  <2>4. QED
    BY <2>1, <2>2, <2>3
<1>4. QED
  BY <1>2, <1>3 DEF Loop!ValuesOf

-----------------------------------------------------------------------------
\* One clock edge keeps the two facts about the registers.
LEMMA ClockLoopInv ==
  ASSUME LoopInv, Clock
  PROVE  NoOvertaking' /\ ValuesOfToken'
<1>1. PICK rd \in [Stage \ {Last} -> BOOLEAN] : Clock!(rd)
  BY DEF Clock
<1>2. Wires(rd) /\ plan' = plan /\ IInv
  BY <1>1 DEF LoopInv
<1>3. ASSUME NEW s \in Stage
      PROVE  /\ reg'[s] = IF LoadEnable(s, rd) THEN Leaving(s) ELSE reg[s]
             /\ LoadEnable(s, rd) => prev_st_valid(s) /\ Leaving(s).tok = TokenIn(s)
             /\ LoadEnable(s, rd) => TokenIn(s) = reg[s].tok + 1
             /\ reg[s].tok \in Nat
  <2>1. reg'[s] = IF LoadEnable(s, rd) THEN Leaving(s) ELSE reg[s]
    BY <1>1
  <2>2. LoadEnable(s, rd) => prev_st_valid(s)
    BY <1>2, WireFacts
  <2>3. prev_st_valid(s) => Leaving(s).tok = TokenIn(s) /\ TokenIn(s) = reg[s].tok + 1
    BY <1>2, LeavingFacts, EnteringFacts DEF IInv
  <2>4. reg[s].tok \in Nat
    BY <1>2, PipelineAssumption DEF IInv, TypeOK, Values
  <2>5. QED
    BY <2>1, <2>2, <2>3, <2>4
<1>4. ValuesOfToken'
  <2>1. SUFFICES ASSUME NEW s \in Stage
                 PROVE  reg'[s] = Loop!ValuesOf(reg'[s].tok, s)
    BY <1>2 DEF ValuesOfToken, Loop!ValuesOf, Loop!Performs, Loop!Accesses
  <2>2. CASE LoadEnable(s, rd)
    BY <1>3, <2>2, LeavingValues
  <2>3. CASE ~ LoadEnable(s, rd)
    BY <1>3, <2>3 DEF LoopInv, ValuesOfToken
  <2>4. QED
    BY <2>2, <2>3
<1>5. NoOvertaking'
  <2>1. SUFFICES ASSUME NEW s \in Stage, NEW t \in Stage, s <= t
                 PROVE  reg'[t].tok <= reg'[s].tok
    BY DEF NoOvertaking
  <2>2. CASE s = t
    BY <1>3, <2>2
  <2>3. CASE s # t
    <3>1. t \in Int /\ s \in Int /\ s <= t - 1 /\ t # First /\ t - 1 \in Stage
      BY <2>1, <2>3, StageFacts
    <3>2. reg[t].tok <= reg[s].tok /\ reg[t - 1].tok <= reg[s].tok
      BY <2>1, <3>1 DEF LoopInv, NoOvertaking
    <3>3. reg[s].tok <= reg'[s].tok
      BY <1>3
    <3>4. CASE LoadEnable(t, rd)
      <4>1. reg'[t].tok = reg[t - 1].tok
        BY <1>3, <3>1, <3>4 DEF TokenIn, Entering
      <4>2. QED
        BY <1>3, <3>1, <3>2, <3>3, <4>1
    <3>5. CASE ~ LoadEnable(t, rd)
      BY <1>3, <3>2, <3>3, <3>5
    <3>6. QED
      BY <3>4, <3>5
  <2>4. QED
    BY <2>2, <2>3
<1>6. QED
  BY <1>4, <1>5

-----------------------------------------------------------------------------
\* A transfer of io is one the loop may make next, together with the other
\* transfers of its stage.
LEMMA TransferIsNext ==
  ASSUME LoopInv, NEW io \in Synced, prev_st_valid(stageOf[io]),
         Performs(TokenIn(stageOf[io]), io)
  PROVE  Loop!IsNext(TokenIn(stageOf[io]), io)
<1>1. count[io] + 1 = Cardinality(PerformedUpTo(TokenIn(stageOf[io]), io))
  BY CountNext DEF LoopInv
<1>2. QED
  BY <1>1, SameAccesses DEF Loop!IsNext

\* A token in stage s has made all its accesses in the earlier stages.
LEMMA EarlierStagesDone ==
  ASSUME LoopInv, NEW s \in Stage, prev_st_valid(s),
         NEW other \in Synced, stageOf[other] < s
  PROVE  Loop!Done(TokenIn(s), other)
<1> DEFINE i == TokenIn(s)
           t == stageOf[other]
<1>1. t \in Stage /\ t \in Int /\ s \in Int /\ First <= t
  BY StageFacts
<1>2. s # First /\ s - 1 \in Stage /\ t <= s - 1
  BY <1>1, StageFacts
<1>3. reg[s - 1].tok <= reg[t].tok
  BY <1>1, <1>2 DEF LoopInv, NoOvertaking
<1>4. i = reg[s - 1].tok
  BY <1>2 DEF TokenIn, Entering
<1>5. i \in Nat /\ reg[t].tok \in Nat
  BY <1>1, <1>2, <1>4, PipelineAssumption DEF LoopInv, IInv, TypeOK, Values
<1>6. count[other] = Loop!Accesses(reg[t].tok, other)
  BY SameAccesses DEF LoopInv, IInv, StageIsAtomic
<1>7. Loop!Accesses(i, other) <= Loop!Accesses(reg[t].tok, other)
  BY <1>3, <1>4, <1>5, AccessesMonotone
<1>8. QED
  BY <1>6, <1>7 DEF Loop!Done

\* The value the write mux selects is the one of the access of the token.
LEMMA WrittenIsWriteOf ==
  ASSUME LoopInv, NEW io \in Output, io \in Synced, prev_st_valid(stageOf[io]),
         Performs(TokenIn(stageOf[io]), io)
  PROVE  Written(io) = Loop!WriteOf(TokenIn(stageOf[io]), io)
<1> DEFINE s == stageOf[io]
           i == TokenIn(s)
<1>1. s \in Stage
  BY StageFacts
<1>2. i \in 0..MaxTokens
  BY <1>1, EnteringFacts, PipelineAssumption DEF LoopInv, IInv
<1>3. plan[i] \subseteq Access /\ \A a, b \in plan[i] : intfOf[a] = intfOf[b] => a = b
  BY <1>2 DEF LoopInv, IInv, PlansOK, IsPlan
<1>4. PICK a \in plan[i] : intfOf[a] = io
  BY DEF Performs
<1>5. MuxCase(io, i) = a
  BY <1>3, <1>4 DEF MuxCase, AccessOf
<1>6. (CHOOSE b \in plan[i] : intfOf[b] = io) = a
  BY <1>3, <1>4
<1>7. Leaving(s) = Loop!ValuesOf(i, s)
  BY <1>1, LeavingValues
<1>8. QED
  BY <1>5, <1>6, <1>7 DEF Written, Loop!WriteOf

LEMMA ClockIsLoopStep ==
  ASSUME LoopInv, Clock
  PROVE  Loop!Next
<1>1. PICK rd \in [Stage \ {Last} -> BOOLEAN] : Clock!(rd)
  BY DEF Clock
<1>2. Wires(rd) /\ plan' = plan /\ TypeOK /\ PlansOK /\ TokensInOrder
  BY <1>1 DEF LoopInv, IInv
<1> DEFINE batch == {io \in Synced : Transfer(io, rd)}
           iteration == [io \in batch |-> TokenIn(stageOf[io])]
<1>3. ASSUME NEW io \in Synced
      PROVE  io \in batch <=> /\ LoadEnable(stageOf[io], rd)
                              /\ Performs(TokenIn(stageOf[io]), io)
  BY <1>2, TransferIffLoad
<1>4. ASSUME NEW io \in batch
      PROVE  /\ stageOf[io] \in Stage
             /\ prev_st_valid(stageOf[io])
             /\ LoadEnable(stageOf[io], rd)
             /\ Performs(TokenIn(stageOf[io]), io)
             /\ TokenIn(stageOf[io]) \in Token
  <2>1. stageOf[io] \in Stage
    BY StageFacts
  <2>2. LoadEnable(stageOf[io], rd) /\ Performs(TokenIn(stageOf[io]), io)
    BY <1>3
  <2>3. prev_st_valid(stageOf[io])
    BY <1>2, <2>1, <2>2, WireFacts
  <2>4. QED
    BY <1>2, <2>1, <2>2, <2>3, EnteringFacts DEF Token
<1>5. ASSUME NEW io \in batch
      PROVE  Loop!MayAccess(TokenIn(stageOf[io]), io, batch)
  <2> DEFINE s == stageOf[io]
             i == TokenIn(s)
  <2>1. Loop!IsNext(i, io)
    BY <1>4, TransferIsNext
  <2>2. ASSUME NEW other \in Synced, stageOf[other] < s
        PROVE  Loop!Done(i, other)
    BY <1>4, <2>2, EarlierStagesDone
  <2>3. ASSUME NEW other \in Synced, stageOf[other] = s, Loop!Performs(i, other)
        PROVE  other \in batch /\ Loop!IsNext(i, other)
    <3>1. Performs(i, other)
      BY <2>3, SameAccesses
    <3>2. other \in batch
      BY <1>3, <1>4, <2>3, <3>1
    <3>3. Loop!IsNext(i, other)
      BY <1>4, <2>3, <3>1, TransferIsNext
    <3>4. QED
      BY <3>2, <3>3
  <2>4. QED
    BY <2>1, <2>2, <2>3 DEF Loop!MayAccess
<1>6. \A io \in batch : \E i \in Loop!Token : Loop!MayAccess(i, io, batch)
  BY <1>4, <1>5 DEF Loop!Token, Token
<1>7. count' = [io \in Loop!Io |-> IF io \in batch THEN count[io] + 1 ELSE count[io]]
  BY <1>1 DEF Loop!Io, Io
<1>8. iteration \in [batch -> Loop!Token]
  BY <1>4 DEF Loop!Token, Token
<1>9. \A io \in batch : Loop!IsNext(iteration[io], io)
  BY <1>4, TransferIsNext
<1>10. written' = [io \in Output |-> IF io \in batch
                     THEN Append(written[io], Loop!WriteOf(iteration[io], io)) ELSE written[io]]
  <2>1. written' = [io \in Output |-> IF io \in batch
                     THEN Append(written[io], Written(io)) ELSE written[io]]
    BY <1>1
  <2>2. \A io \in Output : io \in batch => Written(io) = Loop!WriteOf(iteration[io], io)
    BY <1>4, WrittenIsWriteOf
  <2>3. QED
    BY <2>1, <2>2
<1>11. Loop!AccessIo(batch)
  <2> HIDE DEF iteration
  <2>1. QED
    BY <1>2, <1>6, <1>7, <1>8, <1>9, <1>10 DEF Loop!AccessIo
<1>12. batch \in SUBSET Synced
  OBVIOUS
<1>13. QED
  BY <1>11, <1>12 DEF Loop!Next

LEMMA LoopInvInit == Init => LoopInv
<1> SUFFICES ASSUME Init PROVE LoopInv
  OBVIOUS
<1>1. IInv
  BY InitInv
<1>2. \A s \in Stage : reg[s] = NoRegister
  BY DEF Init
<1>3. NoOvertaking
  BY <1>2 DEF NoOvertaking, NoRegister
<1>4. \A io : Loop!Accesses(0, io) = 0
  BY SameAccesses, PerformedBound
<1>5. ValuesOfToken
  BY <1>2, <1>4 DEF ValuesOfToken, NoRegister, Loop!ValuesOf
<1>6. QED
  BY <1>1, <1>3, <1>5 DEF LoopInv

\* A step that leaves the registers and the plans alone.
LEMMA LoopInvStutter ==
  ASSUME LoopInv, IInv', UNCHANGED <<plan, reg>>
  PROVE  LoopInv'
  BY DEF LoopInv, NoOvertaking, ValuesOfToken, Loop!ValuesOf, Loop!Performs, Loop!Accesses

LEMMA LoopInvNext ==
  LoopInv /\ [Next]_vars =>
    LoopInv' /\ (Loop!Next \/ UNCHANGED <<plan, count, written>>)
<1> SUFFICES ASSUME LoopInv, [Next]_vars
             PROVE  LoopInv' /\ (Loop!Next \/ UNCHANGED <<plan, count, written>>)
  OBVIOUS
<1>1. IInv'
  BY NextInv DEF LoopInv
<1>2. CASE Clock
  BY <1>1, <1>2, ClockLoopInv, ClockIsLoopStep DEF LoopInv
<1>3. CASE UNCHANGED <<plan, reg, count, written>>
  BY <1>1, <1>3, LoopInvStutter
<1>4. \/ Clock
      \/ UNCHANGED <<plan, reg, count, written>>
  BY DEF Next, Offer, Accept, Withdraw, vars
<1>5. QED
  BY <1>2, <1>3, <1>4

\* The IO of any synchronized pipeline is that of the loop it implements: per
\* interface in the order of the iterations, per iteration in the order of the
\* stages, with the values of the own iteration, whatever stalls.
THEOREM PipelineImplementsLoop == Spec => LoopSpec
<1>1. Init => Loop!Init
  BY DEF Init, Loop!Init, IsPlan, Loop!Io, Io
<1>2. QED
  BY <1>1, LoopInvInit, LoopInvNext, PTL DEF Spec, LoopSpec, Loop!Spec

=============================================================================
