---------------------------- MODULE PipelineSync ----------------------------
(***************************************************************************)
(* The synchronization of a pipeline (AllocatorPipelineContainer in        *)
(* allocator/pipelineContainer.py with the helpers of                      *)
(* allocator/architecturalElement.py and allocator/connectionsOfStage.py), *)
(* as the RTL it generates behaves: one Clock step is one rising edge.     *)
(*                                                                         *)
(* The pipeline runs a loop.  One iteration of the loop, a token, moves    *)
(* through the stages and performs in each of them the IO accesses whose   *)
(* condition holds for it.  The registers behind a stage carry the values  *)
(* of one token to the next stage; stage_valid says that they do.          *)
(*                                                                         *)
(* Abstractions.  A value read is the number of the item on its interface; *)
(* the conditions of the accesses are those of the token (plan), the same  *)
(* in every stage.  Interfaces without a synchronization (Signal) matter   *)
(* only for which stage is the first to be synchronized: the stages before *)
(* it have no valid flag and run in each clock.  An input has a valid and  *)
(* an output a ready, so that the pipeline can be stalled by it (an input  *)
(* without a ready and an output without a valid lose data by definition). *)
(*                                                                         *)
(* Bound: MaxTokens, the number of iterations.                             *)
(***************************************************************************)
EXTENDS Integers, FiniteSets, Sequences

CONSTANTS
  NumStages,    \* len(self.stages)
  Input,        \* interfaces which are read (StreamNode masters)
  Output,       \* interfaces which are written (StreamNode slaves)
  Type,         \* get_sync_type of an interface
  Access,       \* the HlsNetNodeRead / HlsNetNodeWrite nodes
  intfOf,       \* node.src / node.dst of an access
  stageOf,      \* the stage an interface is accessed from
  Conditional,  \* accesses with extraCond = en and skipWhen = ~en
  MaxTokens

Io == Input \cup Output
SyncType == {"Handshaked", "VldSynced", "RdSynced", "Signal"}
Synced == {io \in Io : Type[io] # "Signal"}

\* resolveStrongestSyncType stays Signal up to the first stage with such IO.
IsFirstSyncedStage(s) ==
  /\ \E io \in Synced : stageOf[io] = s
  /\ \A io \in Synced : s <= stageOf[io]
First == CHOOSE s \in 0..(NumStages - 1) : IsFirstSyncedStage(s)
Last  == NumStages - 1
Stage == First..Last

Token == 1..MaxTokens
AccessOf(io) == {a \in Access : intfOf[a] = io}
IoOf(s) == {io \in Synced : stageOf[io] = s}

ASSUME PipelineAssumption ==
  /\ NumStages \in Nat \ {0}
  /\ MaxTokens \in Nat
  /\ IsFiniteSet(Io)
  /\ Input \cap Output = {}
  /\ Type \in [Io -> SyncType]
  /\ stageOf \in [Io -> 0..(NumStages - 1)]
  /\ intfOf \in [Access -> Io]
  /\ Conditional \subseteq Access
  /\ \E s \in 0..(NumStages - 1) : IsFirstSyncedStage(s)
  /\ \A io \in Io : AccessOf(io) # {}
  /\ \A io \in Input  : Type[io] # "VldSynced"
  /\ \A io \in Output : Type[io] # "RdSynced"
  \* the loop starts with an unconditional access
  /\ \E io \in IoOf(First) : AccessOf(io) \cap Conditional = {}
  \* accesses to one interface in one stage are in exclusive branches
  /\ \A a, b \in Access : a # b /\ intfOf[a] = intfOf[b] => a \in Conditional

\* The accesses one iteration of the loop performs.
IsPlan(p) ==
  /\ p \in SUBSET Access
  /\ Access \ Conditional \subseteq p
  /\ \A a, b \in p : intfOf[a] = intfOf[b] => a = b

VARIABLES
  plan,       \* the accesses of each token, chosen initially (plan[0] is what
              \* the conditions are in registers which were never loaded)
  valid,      \* stage<i>_valid
  reg,        \* the values behind a stage: the token, the items it has read
  offered,    \* inputs whose vld is 1
  accepting,  \* outputs whose rd is 1
  count,      \* transfers so far on each interface
  written     \* what was written to each output

vars == <<plan, valid, reg, offered, accepting, count, written>>
environment == <<offered, accepting>>

Values == [tok : 0..MaxTokens, item : [Input -> 0..MaxTokens]]

-----------------------------------------------------------------------------
(***************************************************************************)
(* The combinational signals of a stage while it handles token i.          *)
(***************************************************************************)

ConditionalOf(io) == AccessOf(io) \cap Conditional

\* Mutation: the interface is skipped if one of its accesses is skipped.
SkippedIfOneIs(i, io) ==
  ConditionalOf(io) # {} /\ \E a \in ConditionalOf(io) : a \notin plan[i]

\* SkipWhenMemberList.resolve
SkipWhen(i, io) ==
  ConditionalOf(io) # {} /\ \A a \in ConditionalOf(io) : a \notin plan[i]

\* ExtraCondMemberList.resolve
ExtraCond(i, io) ==
  ConditionalOf(io) # {} => \E a \in ConditionalOf(io) : a \in plan[i]

\* What the other side of an interface drives; the missing signal is constant 1.
Partner(io) ==
  \/ io \in Input  /\ (Type[io] = "RdSynced"  \/ io \in offered)
  \/ io \in Output /\ (Type[io] = "VldSynced" \/ io \in accepting)

\* Mutation: the extra condition is all an interface waits for.
ConditionsOnly(i, io) == SkipWhen(i, io) \/ ExtraCond(i, io)

\* The interface io does not stop the transaction of the stage.
Satisfied(i, io) == SkipWhen(i, io) \/ (Partner(io) /\ ExtraCond(i, io))

NoRegister == [tok |-> 0, item |-> [io \in Input |-> 0]]

\* The values stage s works with: those behind the previous stage or, in the
\* first stage, those of a new iteration.
Entering(s) ==
  IF s = First THEN [NoRegister EXCEPT !.tok = reg[First].tok + 1] ELSE reg[s - 1]

TokenIn(s) == Entering(s).tok

\* There is an iteration to start (the bound), or the registers are valid.
prev_st_valid(s) == IF s = First THEN reg[First].tok < MaxTokens ELSE valid[s - 1]

-----------------------------------------------------------------------------
(***************************************************************************)
(* allocateSyncForStage.  rd are wires: any assignment to them which       *)
(* satisfies the equations of all stages (there is just one, because the   *)
(* equations of a stage use only signals of the later stages).             *)
(***************************************************************************)

\* Mutation: the stage may load only registers that are already empty.
StageEmpty(s, rd) == ~ valid[s]

\* en of the StreamNode apart from prev_st_valid: there is a place for the result
HasSpace(s, rd) == s = Last \/ ~ valid[s] \/ rd[s]

en(s, rd) == prev_st_valid(s) /\ HasSpace(s, rd)

\* sync.ack() & en, where rd[s] is to_next_stage.rd; the last stage without
\* any IO is always ready.
Ack(s, rd) ==
  IF s = Last /\ IoOf(s) = {} THEN TRUE
  ELSE /\ en(s, rd)
       /\ s = Last \/ rd[s]
       /\ \A io \in IoOf(s) : Satisfied(TokenIn(s), io)

\* to_next_stage.vld: all the other interfaces of the stage are satisfied
Vld(s, rd) ==
  en(s, rd) /\ \A io \in IoOf(s) : Satisfied(TokenIn(s), io)

\* Mutation: a stage with an invalid token does not take the next one.
ReadyIfAck(s, rd) == Ack(s + 1, rd)

\* prev_st_sync_input.rd of the next stage
Rd(s, rd) == Ack(s + 1, rd) \/ ~ valid[s]

Wires(rd) == \A s \in Stage \ {Last} : rd[s] = Rd(s, rd)

\* Mutation: the interface is driven without regard to the other ones.
TransferAlone(io, rd) ==
  LET s == stageOf[io]
      i == TokenIn(s)
  IN  /\ en(s, rd)
      /\ Partner(io) /\ ExtraCond(i, io) /\ ~ SkipWhen(i, io)
      /\ s = Last \/ rd[s]

\* A transaction on io: both its rd and its vld are 1.  The StreamNode drives
\* one of them, from all the other interfaces, the own conditions and en.
Transfer(io, rd) ==
  LET s == stageOf[io]
      i == TokenIn(s)
  IN  /\ en(s, rd)
      /\ Partner(io) /\ ExtraCond(i, io) /\ ~ SkipWhen(i, io)
      /\ s = Last \/ rd[s]
      /\ \A other \in IoOf(s) \ {io} : Satisfied(i, other)

Performs(i, io) == \E a \in plan[i] : intfOf[a] = io

\* The values at the end of stage s: the inputs of the stage are read.
Leaving(s) ==
  [Entering(s) EXCEPT !.item =
     [io \in Input |-> IF io \in IoOf(s) /\ Performs(TokenIn(s), io)
                       THEN count[io] + 1 ELSE @[io]]]

\* _allocateIoMux: the first write whose extraCond and not skipWhen hold.
MuxCase(io, i) == CHOOSE a \in AccessOf(io) : a \in plan[i]

Written(io) ==
  LET s == stageOf[io]
  IN  [access |-> MuxCase(io, TokenIn(s)), values |-> Leaving(s)]

\* Mutation: the registers are loaded whenever the next stage is ready.
LoadIfReady(s, rd) == IF s = Last THEN Ack(s, rd) /\ prev_st_valid(s) ELSE rd[s]

\* If(ack, registers): behind the last stage there are none, there reg counts
\* the tokens that left (an always ready last stage leaves only valid ones).
LoadEnable(s, rd) == Ack(s, rd) /\ prev_st_valid(s)

NextValid(s, rd) == IF s # Last /\ rd[s] THEN Vld(s, rd) ELSE valid[s]

Clock ==
  \E rd \in [Stage \ {Last} -> BOOLEAN] :
    /\ Wires(rd)
    /\ valid' = [s \in Stage |-> NextValid(s, rd)]
    /\ reg' = [s \in Stage |-> IF LoadEnable(s, rd) THEN Leaving(s) ELSE reg[s]]
    /\ LET done == {io \in Synced : Transfer(io, rd)}
       IN  /\ count' = [io \in Io |-> IF io \in done THEN count[io] + 1 ELSE count[io]]
           /\ written' = [io \in Output |-> IF io \in done
                            THEN Append(written[io], Written(io)) ELSE written[io]]
           /\ offered'   = offered \ done
           /\ accepting' = accepting \ done
    /\ UNCHANGED plan

-----------------------------------------------------------------------------
(***************************************************************************)
(* The environment.  vld stays until the transfer; rd may be withdrawn.    *)
(***************************************************************************)

Offer(io) ==
  /\ io \in Input \ offered
  /\ Type[io] = "Handshaked"
  /\ offered' = offered \cup {io}
  /\ UNCHANGED <<plan, valid, reg, accepting, count, written>>

Accept(io) ==
  /\ io \in Output \ accepting
  /\ Type[io] = "Handshaked"
  /\ accepting' = accepting \cup {io}
  /\ UNCHANGED <<plan, valid, reg, offered, count, written>>

Withdraw(io) ==
  /\ io \in accepting
  /\ accepting' = accepting \ {io}
  /\ UNCHANGED <<plan, valid, reg, offered, count, written>>

Init ==
  /\ plan \in [0..MaxTokens -> {p \in SUBSET Access : IsPlan(p)}]
  /\ valid = [s \in Stage |-> FALSE]
  /\ reg = [s \in Stage |-> NoRegister]
  /\ offered = {}
  /\ accepting = {}
  /\ count = [io \in Io |-> 0]
  /\ written = [io \in Output |-> << >>]

Next == Clock \/ \E io \in Io : Offer(io) \/ Accept(io) \/ Withdraw(io)

Spec == Init /\ [][Next]_vars

\* The clock runs, each producer offers its items and each consumer accepts;
\* at some time the consumers stop withdrawing before the transfer.
FairSpec ==
  /\ Spec
  /\ WF_vars(Clock)
  /\ \A io \in Input : WF_vars(Offer(io))
  /\ \A io \in Output : WF_vars(Accept(io))
  /\ <>[][~ \E io \in Io : Withdraw(io)]_vars

-----------------------------------------------------------------------------
TypeOK ==
  /\ plan \in [0..MaxTokens -> SUBSET Access]
  /\ valid \in [Stage -> BOOLEAN]
  /\ reg \in [Stage -> Values]
  /\ offered \subseteq Input
  /\ accepting \subseteq Output
  /\ count \in [Io -> 0..MaxTokens]
  /\ written \in [Output -> Seq([access : Access, values : Values])]

\* No stall loses or repeats a token: the registers behind stage s hold the
\* token just before the one of the next stage if they are valid, and one the
\* next stage has already taken if they are not.
TokensInOrder ==
  \A s \in Stage \ {Last} :
    reg[s].tok = reg[s + 1].tok + IF valid[s] THEN 1 ELSE 0

PerformedUpTo(i, io) == {j \in 1..i : Performs(j, io)}

\* A stage is atomic: each of its interfaces has made exactly the transfers
\* of the tokens which left the stage, never one ahead of (or without) the
\* other interfaces, and none for a token which skips it.
StageIsAtomic ==
  \A io \in Synced :
    count[io] = Cardinality(PerformedUpTo(reg[stageOf[io]].tok, io))

\* A stage with a token stalls only because it, or a stage which holds one of
\* the tokens directly ahead of it, waits for an interface: the pipeline has no
\* bubble of its own and its ready chain no dead end.
WaitsForIo(s) == \E io \in IoOf(s) : ~ Satisfied(TokenIn(s), io)

StallsOnlyForIo ==
  \A rd \in [Stage \ {Last} -> BOOLEAN] :
    Wires(rd) =>
      \A s \in Stage :
        prev_st_valid(s) /\ ~ Ack(s, rd) =>
          \E t \in s..Last : WaitsForIo(t) /\ \A u \in s..t : prev_st_valid(u)

\* The IO of the pipeline is that of the loop, whatever overlaps.
Loop == INSTANCE PipelinedLoop
LoopSpec == Loop!Spec

\* Every iteration finishes, in particular no two stages wait for each other.
AllTokensFinish == <>(reg[Last].tok = MaxTokens)

=============================================================================
