------------------------------ MODULE Frontend ------------------------------
(***************************************************************************)
(* From a program to its SSA, and the SSA running.  A program is translated *)
(* by the visitor of statement objects (phase "ast"); when that succeeds    *)
(* the blocks are executed: an instruction or the condition of a branch is  *)
(* one step, and so is the end of a block without successors.  Conditions   *)
(* come out either way.                                                     *)
(*                                                                         *)
(* obs is what an observer of the run sees: the statement executed last and *)
(* the values its operands have in the SSA.  It refines SourceProgram.      *)
(***************************************************************************)
EXTENDS FromPython

VARIABLES
    pc,     \* block, index in its body, index of the next target of its branch
    env,    \* values of the phis and of the instructions
    obs     \* fields at, mem, odd and seen, as the variables of SourceProgram

vars == <<astVars, pyVars, pc, env, obs>>
runVars == <<pc, env, obs>>

Source == INSTANCE SourceProgram
          WITH at <- obs.at, mem <- obs.mem, odd <- obs.odd, seen <- obs.seen

\* The value of operand x.
Eval(e, x) == CASE x[1] = "const" -> << x[2], FALSE >>
                [] x[1] = "undef" -> Source!Undefined
                [] OTHER -> IF x \in DOMAIN e THEN e[x] ELSE << x, FALSE >>

\* The phis of block b take their values at once, on the edge from block from.
EnterBlock(e, from, b) ==
    LET phis == {n \in LivePhis(ssa) : ssa.phi[n].blk = b}
        op(n) == LET ops == SelectSeq(ssa.phi[n].ops, LAMBDA o : o.pred = from)
                 IN  IF ops = <<>> THEN << "no operand", n >> ELSE Eval(e, ops[1].x)
    IN  [x \in {PhiVal(n) : n \in phis} |-> op(PhiOf(x))] @@ e

Blk == ssa.blk[pc.b]
Observed(p, its, out) == [p |-> p, its |-> its, out |-> out]

\* The body of the block: statements which were translated to it.
RunItem ==
    /\ phase = "run" /\ pc.i <= Len(Blk.body)
    /\ LET item == Blk.body[pc.i]
           read == [n \in DOMAIN item.w |-> Eval(env, item.w[n])]
           odd  == IF item.op = "op" THEN Source!Flip(obs.odd, item.p) ELSE obs.odd
           val  == CASE item.op = "const" -> << item.p, FALSE >>
                     [] item.op = "copy"  -> read[1]
                     [] OTHER             -> << item.p, item.p \in odd >>
       IN  /\ obs' = [at |-> Observed(item.p, item.its, FALSE), seen |-> read, odd |-> odd,
                      mem |-> IF item.v = 0 THEN obs.mem
                              ELSE [obs.mem EXCEPT ![item.v] = val]]
           /\ env' = IF item.op = "op" THEN (item.id :> val) @@ env ELSE env
    /\ pc' = [pc EXCEPT !.i = @ + 1]
    /\ UNCHANGED <<astVars, pyVars>>

AtBranch == phase = "run" /\ pc.i > Len(Blk.body)
Goto(b) == /\ pc' = [b |-> b, i |-> 1, t |-> 1]
           /\ env' = EnterBlock(env, pc.b, b)

\* A target with a condition: taken, or the next target is tried.
RunCondition(out) ==
    /\ AtBranch /\ pc.t <= Len(Blk.succ) /\ Blk.succ[pc.t].c # NoCond
    /\ LET c == Blk.succ[pc.t].c
       IN  obs' = [obs EXCEPT !.at = Observed(c.p, c.its, out), !.seen = << Eval(env, c.x) >>]
    /\ IF out THEN Goto(Blk.succ[pc.t].t)
       ELSE pc' = [pc EXCEPT !.t = @ + 1] /\ UNCHANGED env
    /\ UNCHANGED <<astVars, pyVars>>

RunJump ==
    /\ AtBranch /\ pc.t <= Len(Blk.succ) /\ Blk.succ[pc.t].c = NoCond
    /\ Goto(Blk.succ[pc.t].t)
    /\ UNCHANGED <<astVars, pyVars, obs>>

RunEnd ==
    /\ AtBranch /\ pc.t > Len(Blk.succ) /\ obs.at.p # <<>>
    /\ obs' = [obs EXCEPT !.at = Observed(<<>>, <<>>, FALSE), !.seen = <<>>]
    /\ UNCHANGED <<astVars, pyVars, pc, env>>

Run == \/ RunItem \/ RunJump \/ RunEnd
       \/ \E out \in BOOLEAN : RunCondition(out)

RunInit ==
    /\ obs = [at |-> Source!Begin, mem |-> [v \in Vars |-> Source!Undefined], odd |-> {},
              seen |-> <<>>]
    /\ pc = [b |-> 1, i |-> 1, t |-> 1]
    /\ env = <<>>

\* The translation is over; its tasks and stacks are of no use any more.
StartRun ==
    /\ phase = "translated"
    /\ phase' = "run"
    /\ pc' = [pc EXCEPT !.b = start]
    /\ todo' = <<>> /\ cur' = start
    /\ UNCHANGED <<prog, ssa, start, loopStack, pyVars, env, obs>>

Reject ==
    /\ phase \in {"ast", "python"} /\ ssa.err # ""
    /\ phase' = "rejected"
    /\ UNCHANGED <<prog, ssa, start, cur, todo, loopStack, pyVars, runVars>>

Translate == \/ AstNext /\ UNCHANGED <<pyVars, runVars>>
             \/ PyNext /\ UNCHANGED runVars
Next == Translate \/ Reject \/ StartRun \/ Run

(***************************************************************************)
(* Properties.                                                              *)
(***************************************************************************)
\* The SSA does what the program says: the same statements in the same order,
\* each with the values which its variables have there.
Refines == Source!SourceSpec

\* When a block is sealed, each of its phis has one operand for each predecessor
\* in the order of the predecessors, and that stays so: no branch to the block is
\* added afterwards, and no operand is lost while other phis are removed
\* (MemorySSAUpdater.sealBlock, PythonBytecodeToSsa._onAllPredecsKnown).
PhiPerPredecessor == \A n \in LivePhis(ssa) :
    LET b == ssa.blk[ssa.phi[n].blk]
    IN  b.sealed => [i \in DOMAIN ssa.phi[n].ops |-> ssa.phi[n].ops[i].pred] = b.preds

\* No phi is left which merges just one value: tryRemoveTrivialPhi found all of
\* them, also those which got trivial when another phi was removed.
MinimalPhis == phase \in {"translated", "run"} =>
    \A n \in LivePhis(ssa) : Cardinality(Merged(ssa, n)) > 1

\* All the statements nested in a list of statements.
RECURSIVE Within(_)
Branches(st) == CASE st.k \in {"while", "pfor"} -> <<st.b>>
                  [] st.k = "for" -> <<st.init, st.b, st.step>>
                  [] st.k = "pif" -> <<st.t, st.e>>
                  [] st.k = "if"  -> Append([i \in DOMAIN st.cs |-> st.cs[i].b], st.e)
                  [] OTHER -> <<>>
Within(list) ==
    ToSet(list) \cup UNION {Within(FlattenSeq(Branches(st))) : st \in ToSet(list)}

Kinds(list, kinds) == {st \in Within(list) : st.k \in kinds}
HasNoJump == Kinds(prog, {"if", "while", "pfor", "pif"}) = {}
HasHwWhile == \E st \in Kinds(prog, {"while"}) : st.c # Forever
HasWhileBehindIf == \E n \in 2..Len(prog) : prog[n].k = "while" /\ prog[n - 1].k = "if"
HasEmptyRange == \E st \in Kinds(prog, {"pfor"}) : st.n = 0
HasHwBreakOfFor == \E st \in Kinds(prog, {"pfor"}) :
                       \E i \in Kinds(st.b, {"if"}) : Kinds(<<i>>, {"break"}) # {}

\* Programs of statement objects are translated whatever they do.  A Python
\* function is not when it has no jump (its only block is not in the graph of the
\* tracker), a loop with a condition of the hardware (its header is sealed behind
\* both of its jumps), a loop which is entered from two blocks, a "for" over
\* nothing, whose body is never told to the tracker as not generated, or one left
\* by a condition of the hardware, when the iterator is already used up by the
\* other branch.
RejectedPrograms ==
    LET rejected == bytecode # NoBytecode /\ (HasNoJump \/ HasHwWhile \/ HasWhileBehindIf
                       \/ HasEmptyRange \/ HasHwBreakOfFor)
    IN  /\ phase = "rejected" => rejected
        /\ phase \in {"translated", "run"} => ~rejected

\* The "for" loop around path p, and whether p is in the else of an "if" in it.
ForOf(p) == LET ns == {n \in 1..(Len(p) - 1) : n % 2 = 1 /\ StmAt(prog, SubSeq(p, 1, n)).k = "pfor"}
            IN  Max(ns)
InElse(p) == \E n \in ForOf(p)..(Len(p) - 1) :
    n % 2 = 1 /\ StmAt(prog, SubSeq(p, 1, n)).k = "if" /\ p[n + 1] # 1

\* What the program sees of the variable of a "for" is the iteration, except in
\* the else of an "if" of the hardware: the "then" and all that follows it was
\* translated before it in the same frame, so the else sees the last value.
IterationSeen == \A b \in DOMAIN ssa.blk : \A i \in DOMAIN ssa.blk[b].body :
    LET item == ssa.blk[b].body[i]
        last == StmAt(prog, SubSeq(item.p, 1, ForOf(item.p))).n - 1
    IN  item.op = "useI" =>
            item.w = << ConstVal(<<IF InElse(item.p) THEN last ELSE Last(item.its)>>, 0) >>
ReadsStaleI == \E l \in Kinds(prog, {"pfor"}) : \E st \in Kinds(l.b, {"if"}) :
    UseI \in Within(FlattenSeq(Tail(Branches(st))))
=============================================================================
