--------------------------- MODULE PipelinedLoop ---------------------------
(***************************************************************************)
(* What a pipelined loop promises about its IO, without registers and      *)
(* handshakes: iterations overlap, but on each interface the accesses come *)
(* in the order of the iterations; the accesses of one iteration come in   *)
(* the order of the stages, those of one stage at once; and a write has    *)
(* the values its own iteration has read.                                  *)
(***************************************************************************)
EXTENDS Integers, FiniteSets, Sequences

CONSTANTS Input, Output, Synced, Access, intfOf, stageOf, MaxTokens

VARIABLES plan, count, written

Io == Input \cup Output
Token == 1..MaxTokens

Performs(i, io) == \E a \in plan[i] : intfOf[a] = io

\* How many accesses to io the iterations up to i make.
Accesses(i, io) == Cardinality({j \in 1..i : Performs(j, io)})

Done(i, io) == Performs(i, io) => Accesses(i, io) <= count[io]

IsNext(i, io) == Performs(i, io) /\ Accesses(i, io) = count[io] + 1

\* Iteration i can access io together with the other interfaces in batch.
MayAccess(i, io, batch) ==
  /\ IsNext(i, io)
  /\ \A other \in Synced :
       /\ stageOf[other] < stageOf[io] => Done(i, other)
       /\ stageOf[other] = stageOf[io] /\ Performs(i, other)
            => other \in batch /\ IsNext(i, other)

ValuesOf(i, s) ==
  [tok |-> i, item |-> [io \in Input |-> IF io \in Synced /\ stageOf[io] <= s /\ Performs(i, io)
                                         THEN Accesses(i, io) ELSE 0]]

WriteOf(i, io) ==
  [access |-> CHOOSE a \in plan[i] : intfOf[a] = io, values |-> ValuesOf(i, stageOf[io])]

Init ==
  /\ plan \in [0..MaxTokens -> SUBSET Access]
  /\ count = [io \in Io |-> 0]
  /\ written = [io \in Output |-> << >>]

AccessIo(batch) ==
  /\ \A io \in batch : \E i \in Token : MayAccess(i, io, batch)
  /\ count' = [io \in Io |-> IF io \in batch THEN count[io] + 1 ELSE count[io]]
  /\ \E iteration \in [batch -> Token] :
       /\ \A io \in batch : IsNext(iteration[io], io)
       /\ written' = [io \in Output |-> IF io \in batch
                        THEN Append(written[io], WriteOf(iteration[io], io)) ELSE written[io]]
  /\ UNCHANGED plan

Next == \E batch \in SUBSET Synced : AccessIo(batch)

Spec == Init /\ [][Next]_<<plan, count, written>>

=============================================================================
