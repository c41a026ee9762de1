------------------------------ MODULE AstToSsa ------------------------------
(***************************************************************************)
(* AstToSsa: the visitor which translates statement objects to SSA.  The    *)
(* recursion of the visit_ methods is the sequence todo of what is left to  *)
(* do, the statements of a nested block first; one action is one visit_     *)
(* method, or the part of it after the statements nested in it.             *)
(*                                                                         *)
(* A condition is an operator of one variable: its instruction is made in   *)
(* the block of the branch; the branch holds the operand.                   *)
(***************************************************************************)
EXTENDS SsaConstruction, TLC

VARIABLES
    prog,       \* the program of the thread, constant
    phase,      \* "ast", "python": being translated by this frontend; "translated"; "rejected"
    ssa,        \* the blocks, phis and definitions
    start,      \* the entry block
    cur,        \* the block which the visitor extends
    todo,       \* what is left of the visit, the next task first
    loopStack   \* _loop_stack: entry block and blocks which end with break

astVars == <<prog, phase, ssa, start, cur, todo, loopStack>>

Stms(list, pre) == [i \in DOMAIN list |->
                      [k |-> "stm", st |-> list[i], p |-> Append(pre, i)]]

\* visit_Assignment: the instruction is made of the operands read, all of which
\* must be in the SSA; a copy only registers the value read.
ValueOf(st, p, b, xs) == CASE st.op = "const" -> ConstVal(p, b)
                           [] st.op = "copy"  -> xs[1]
                           [] st.op = "op"    -> InstrVal(p, b)
\* The item is the assignment of the value read to variable v.
Assigned(got, b, item, v) ==
    WriteVariable(AppendItem(Assert1(got.s, \A i \in DOMAIN got.xs : InSsa(got.s, got.xs[i]),
                                     "operand not in SSA"), b, item),
                  v, b, item.id)
Assign(s, b, st, p, its) ==
    LET assign(got) == Assigned(got, b, Item(p, its, st.v, st.op, got.xs,
                                             ValueOf(st, p, b, got.xs)), st.v)
    IN  assign(ReadAll(s, b, st.w))

\* visit_Write.
Write(s, b, st, p, its) ==
    LET write(got) == AppendItem(got.s, b, Item(p, its, 0, "use", got.xs, <<>>))
    IN  write(ReadAll(s, b, st.w))

\* visit_expr of a condition: the new s, and what the branch holds.
ReadCond(s, b, v, p, its) ==
    LET condition(got) == [s |-> got.s, c |-> Cond(p, its, got.x)]
    IN  condition(ReadVariable(s, v, b))

\* _addNewTargetBb: the new block is the last one.
AddNewTargetBb(s, b, c) == AddTarget(NewBlock(s, FALSE), b, c, Len(s.blk) + 1)

\* _make_Unreachable.
MakeUnreachable(s) == SealBlock(NewBlock(s, TRUE), Len(s.blk) + 1)

Task == Head(todo)
Visiting == phase \in {"ast", "python"} /\ ssa.err = ""
IsTask(kind) == Visiting /\ todo # <<>> /\ Task.k = kind
IsStm(kind)  == IsTask("stm") /\ Task.st.k = kind

VisitAssignment ==
    /\ IsStm("set")
    /\ ssa' = Assign(ssa, cur, Task.st, Task.p, <<>>)
    /\ todo' = Tail(todo)
    /\ UNCHANGED <<prog, phase, start, cur, loopStack>>

VisitWrite ==
    /\ IsStm("use")
    /\ ssa' = Write(ssa, cur, Task.st, Task.p, <<>>)
    /\ todo' = Tail(todo)
    /\ UNCHANGED <<prog, phase, start, cur, loopStack>>

\* visit_If up to its first condition: block 1 of the new ones holds the
\* conditions, block 2 is the end of the statement.
VisitIf ==
    /\ IsStm("if")
    /\ LET condB == Len(ssa.blk) + 1
           endB  == Len(ssa.blk) + 2
           branch(sel) == [k |-> "branch", st |-> Task.st, p |-> Task.p, sel |-> sel,
                           condB |-> condB, endB |-> endB]
       IN  /\ ssa' = NewBlock(SealBlock(AddNewTargetBb(ssa, cur, NoCond), condB), FALSE)
           /\ todo' = [sel \in DOMAIN Task.st.cs |-> branch(sel)]
                      \o << branch(0), [k |-> "endIf", endB |-> endB] >> \o Tail(todo)
    /\ UNCHANGED <<prog, phase, start, cur, loopStack>>

\* The condition of a branch and visit_If_branch up to the statements in it.
VisitIfBranch ==
    /\ IsTask("branch")
    /\ LET sel  == Task.sel
           got  == IF sel = 0 THEN [s |-> ssa, c |-> NoCond]
                   ELSE ReadCond(ssa, Task.condB, Task.st.cs[sel].c,
                                 Append(Task.p, sel), <<>>)
           body == Stms(Branch(Task.st, sel), Append(Task.p, sel))
           new  == Len(ssa.blk) + 1
       IN  IF body # <<>>
           THEN /\ ssa' = SealBlock(AddNewTargetBb(got.s, Task.condB, got.c), new)
                /\ cur' = new
                /\ todo' = body \o << [k |-> "endBranch", endB |-> Task.endB] >> \o Tail(todo)
           ELSE /\ ssa' = AddTarget(got.s, Task.condB, got.c, Task.endB)
                /\ todo' = Tail(todo)
                /\ UNCHANGED cur
    /\ UNCHANGED <<prog, phase, start, loopStack>>

EndIfBranch ==
    /\ IsTask("endBranch")
    /\ ssa' = AddTarget(ssa, cur, NoCond, Task.endB)
    /\ todo' = Tail(todo)
    /\ UNCHANGED <<prog, phase, start, cur, loopStack>>

EndIf ==
    /\ IsTask("endIf")
    /\ ssa' = SealBlock(ssa, Task.endB)
    /\ cur' = Task.endB
    /\ todo' = Tail(todo)
    /\ UNCHANGED <<prog, phase, start, loopStack>>

\* visit_While up to the body of the loop.  A loop with a condition has its end
\* block from the beginning, "while True" makes it when there is a break.
WhileEntry(c, body, p) ==
    LET condB == Len(ssa.blk) + 1
        bodyB == condB + 1
        hasC  == c # Forever
        got   == IF hasC THEN ReadCond(AddNewTargetBb(ssa, cur, NoCond), condB, c, p, <<>>)
                 ELSE [s |-> AddNewTargetBb(ssa, cur, NoCond), c |-> NoCond]
        s1    == SealBlock(AddNewTargetBb(got.s, condB, got.c), bodyB)
    IN  /\ ssa' = IF hasC THEN AddNewTargetBb(s1, condB, NoCond) ELSE s1
        /\ cur' = bodyB
        /\ loopStack' = Append(loopStack, [entry |-> condB, breaks |-> <<>>])
        /\ todo' = body \o << [k |-> IF hasC THEN "endWhile" ELSE "endWhileTrue",
                               condB |-> condB] >> \o Tail(todo)
        /\ UNCHANGED <<prog, phase, start>>

VisitWhile == IsStm("while") /\ WhileEntry(Task.st.c, Stms(Task.st.b, Append(Task.p, 1)), Task.p)

\* visit_For: the statements of init, then a While whose body ends with step.
VisitFor ==
    /\ IsStm("for")
    /\ todo' = Stms(Task.st.init, Append(Task.p, 0))
               \o << [Task EXCEPT !.k = "forWhile"] >> \o Tail(todo)
    /\ UNCHANGED <<prog, phase, ssa, start, cur, loopStack>>

VisitForWhile ==
    /\ IsTask("forWhile")
    /\ WhileEntry(Task.st.c, Stms(Task.st.b, Append(Task.p, 1))
                             \o Stms(Task.st.step, Append(Task.p, 2)), Task.p)

\* visit_While after the body.
BreakTo(s, breaks, endB) == FoldLeft(LAMBDA r, b : AddTarget(r, b, NoCond, endB), s, breaks)

EndWhile ==
    /\ IsTask("endWhile")
    /\ LET condB == Task.condB
           endB  == condB + 2
           s1    == SealBlock(AddTarget(ssa, cur, NoCond, condB), condB)
       IN  /\ ssa' = SealBlock(BreakTo(s1, Last(loopStack).breaks, endB), endB)
           /\ cur' = endB
    /\ loopStack' = Front(loopStack)
    /\ todo' = Tail(todo)
    /\ UNCHANGED <<prog, phase, start>>

EndWhileTrue ==
    /\ IsTask("endWhileTrue")
    /\ LET s1   == SealBlock(AddTarget(ssa, cur, NoCond, Task.condB), Task.condB)
           endB == Len(ssa.blk) + 1
           brs  == Last(loopStack).breaks
       IN  /\ ssa' = SealBlock(BreakTo(NewBlock(s1, brs = <<>>), brs, endB), endB)
           /\ cur' = endB
    /\ loopStack' = Front(loopStack)
    /\ todo' = Tail(todo)
    /\ UNCHANGED <<prog, phase, start>>

VisitBreak ==
    /\ IsStm("break")
    /\ loopStack' = [loopStack EXCEPT ![Len(loopStack)].breaks = Append(@, cur)]
    /\ ssa' = MakeUnreachable(ssa)
    /\ cur' = Len(ssa.blk) + 1
    /\ todo' = Tail(todo)
    /\ UNCHANGED <<prog, phase, start>>

\* finalize: its assertions on the sealed blocks and on the incomplete phis.
Finalized(s, entry) ==
    LET sealed == {b \in DOMAIN s.blk : s.blk[b].sealed}
        near(b) == ToSet(s.blk[b].preds) \cup {s.blk[b].succ[i].t : i \in DOMAIN s.blk[b].succ}
        s1 == Assert1(s, \A b \in {entry} \cup sealed : near(b) \subseteq sealed, "not sealed")
    IN  Assert1(s1, \A b \in DOMAIN s.blk : s.blk[b].inc = {}, "incomplete phis")

Finalize ==
    /\ Visiting /\ phase = "ast" /\ todo = <<>>
    /\ ssa' = Finalized(ssa, start)
    /\ phase' = IF ssa'.err = "" THEN "translated" ELSE "rejected"
    /\ UNCHANGED <<prog, start, cur, todo, loopStack>>

\* HlsStreamProcThread.compileToSsa up to the visit: the entry block is sealed.
AstInit ==
    /\ phase = "ast"
    /\ ssa = SealBlock(NewBlock(EmptySsa, FALSE), 1)
    /\ start = 1 /\ cur = 1
    /\ todo = Stms(prog, <<>>)
    /\ loopStack = <<>>

AstNext ==
    \/ VisitAssignment \/ VisitWrite \/ VisitBreak
    \/ VisitIf \/ VisitIfBranch \/ EndIfBranch \/ EndIf
    \/ VisitWhile \/ VisitFor \/ VisitForWhile \/ EndWhile \/ EndWhileTrue
    \/ Finalize
=============================================================================
