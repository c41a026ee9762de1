----------------------------- MODULE FromPython -----------------------------
(***************************************************************************)
(* PythonBytecodeToSsa: translates the bytecode of a function while it      *)
(* runs the parts of it which need no hardware ("for" over a range, "if" on *)
(* a Python value).  A block of the bytecode becomes a block of the SSA     *)
(* each time the translation gets to it under another label.                *)
(*                                                                         *)
(* The recursion of _translateBytecodeBlock and                             *)
(* _getOrCreateSsaBasicBlockAndJump is the sequence todo of AstToSsa; one   *)
(* action is one instruction, or one of the two halves of a jump.  There is *)
(* one frame (locals and stack) for the whole recursion.                    *)
(***************************************************************************)
EXTENDS AstToSsa, PyBytecode, BlockPredecessorTracker

VARIABLES
    bytecode,         \* code, starts and edges of its blocks, loops: entry -> blocks
    blockTracker,
    labelToBlock,     \* the first block of each label
    blockToLabel,
    hwEvaluatedLoops, \* labels of the loops which hardware evaluates
    frame             \* locals (by nesting of the "for" loops) and stack

pyVars == <<bytecode, blockTracker, labelToBlock, blockToLabel, hwEvaluatedLoops, frame>>

\* What the stack holds between statements: iterators, and the value of the next
\* iteration.
Iterator(n, i) == << "iter", i, n >>
\* mutant: counts from 1.
PreprocNext(i) == << "value", i + 1, 0 >>
PreprocValue(i) == << "value", i, 0 >>
Loops == bytecode.loops
Instruction(j) == bytecode.code[j]

\* The "for" loops around path p, the innermost last.
NestingOf(p) == Cardinality({n \in 1..(Len(p) - 1) : n % 2 = 1 /\ StmAt(prog, SubSeq(p, 1, n)).k = "pfor"})
ValueOfI(p) == frame.locals[NestingOf(p)][2]

BlockTask(b, j) == [k |-> "code", b |-> b, j |-> j]
\* A jump from block b to the bytecode at j: c is the condition of the target, hw
\* tells a jump which hardware evaluates from one that the compiler did.
JumpTask(b, last, j, c, hw) == [k |-> "jump", b |-> b, last |-> last, j |-> j, c |-> c, hw |-> hw]
NotGeneratedTask(b, j) == [k |-> "notGenerated", b |-> b, j |-> j]

\* _onAllPredecsKnown of the block b with label l.
OnAllPredecsKnown(s, b, l) ==
    LET complete(r) == Assert1(r, l[2] \in DOMAIN Loops =>
                                    \A n \in LivePhis(r) : r.phi[n].blk = b
                                      => Len(r.phi[n].ops) = Len(r.blk[b].preds), "phi operands")
    IN  complete(SealBlock(s, b))

\* The labels whose predecessors got known, without the headers of hw loops.
SealLabels(s, labels, l2b, hw) ==
    LET seal(r, l) == CASE l \in hw -> r
                        [] l \notin hw /\ l \in DOMAIN l2b -> OnAllPredecsKnown(r, l2b[l], l)
                        [] OTHER -> Assert1(r, FALSE, "label without a block")
    IN  FoldLeft(seal, s, labels)

Sealed(s, labels) == SealLabels(s, labels, labelToBlock, hwEvaluatedLoops)

(***************************************************************************)
(* _translateBytecodeBlock: the instructions of a block.                    *)
(***************************************************************************)
IsInstr(op) == IsTask("code") /\ Instruction(Task.j).op = op
Cur == Instruction(Task.j)
Its == LET scope == blockToLabel[Task.b][1] IN [i \in DOMAIN scope |-> scope[i][2]]

\* What follows the instruction in block b; behind the last one of a block the
\* next block begins.
NextTasks(b) == IF Task.j = BlockEnd(bytecode.code, bytecode.starts, Task.j)
               THEN << JumpTask(b, TRUE, Task.j + 1, NoCond, FALSE) >>
               ELSE << BlockTask(b, Task.j + 1) >>

\* expandIndexOnPyObjAsSwitchCase, expandSetitemOnPytObjAsSwitchCase: block suc
\* behind the cases, then a block for each of them.
ExpandCase(s, b, c, st, p, sel, suc) ==
    LET new == Len(s.blk) + 1
        at1 == p \o <<sel, 1>>
        load(r, val) == Assigned([s |-> r, xs |-> <<>>], new,
                                 Item(at1, Its, st.v, "const", <<>>, val), Tmp)
        assign(r) == IF st.k = "index" THEN load(r, ConstVal(at1, new))
                     ELSE Assign(r, new, Branch(st, sel)[1], at1, Its)
        case(r) == assign(OnAllPredecsKnown(AddTarget(r, b, c, new), new, blockToLabel[b]))
    IN  AddTarget(case(NewBlock(s, FALSE)), new, NoCond, suc)

ExpandIndex(s, b, st, p) ==
    LET suc == Len(s.blk) + 1
        cases(got) == ExpandCase(ExpandCase(got.s, b, got.c, st, p, 1, suc),
                                 b, NoCond, st, p, 0, suc)
        result(got) == WriteVariable(got.s, st.v, suc, got.x)
        finish(r) == IF st.k = "index" THEN result(ReadVariable(r, Tmp, suc)) ELSE r
    IN  finish(OnAllPredecsKnown(cases(ReadCond(NewBlock(s, FALSE), b, st.w, Append(p, 1), Its)),
                                 suc, blockToLabel[b]))

\* An assignment or a write (STORE_FAST, POP_TOP, STORE_ATTR of the last value).
TranslateStatement ==
    /\ IsInstr("stm")
    /\ LET st == StmAt(prog, Cur.p)
           b  == Task.b
       IN  /\ ssa' = CASE st.k = "set"  -> Assign(ssa, b, st, Cur.p, Its)
                       [] st.k = "use"  -> Write(ssa, b, st, Cur.p, Its)
                       [] st.k = "useI" -> AppendItem(ssa, b, Item(Cur.p, Its, 0, "useI",
                                                                   << ConstVal(<<ValueOfI(Cur.p)>>, 0) >>,
                                                                   <<>>))
                       [] OTHER -> ExpandIndex(ssa, b, st, Cur.p)
           /\ IF st.k \in {"index", "setIndex"}
              THEN /\ blockToLabel' = blockToLabel \o [i \in 1..3 |-> blockToLabel[b]]
                   /\ todo' = NextTasks(Len(ssa.blk) + 1) \o Tail(todo)
              ELSE todo' = NextTasks(b) \o Tail(todo) /\ UNCHANGED blockToLabel
    /\ UNCHANGED <<prog, phase, start, cur, loopStack, bytecode, blockTracker, labelToBlock,
                   hwEvaluatedLoops, frame>>

\* GET_ITER, STORE_FAST of the variable of a "for", POP_TOP of its iterator.
TranslateStackInstruction ==
    /\ IsInstr("getIter") \/ IsInstr("store") \/ IsInstr("pop")
    /\ LET stack == frame.stack
           n == NestingOf(Append(Cur.p, 1) \o <<1>>)
       IN  /\ frame' = CASE Cur.op = "getIter" ->
                              [frame EXCEPT !.stack = Append(@, Iterator(StmAt(prog, Cur.p).n, 0))]
                         [] Cur.op = "store" /\ stack # <<>> ->
                              [frame EXCEPT !.stack = Front(@), !.locals[n] = Last(stack)]
                         [] Cur.op = "pop" /\ stack # <<>> -> [frame EXCEPT !.stack = Front(@)]
                         [] OTHER -> frame
           /\ ssa' = Assert1(ssa, Cur.op = "getIter" \/ stack # <<>>, "empty stack")
    /\ todo' = NextTasks(Task.b) \o Tail(todo)
    /\ UNCHANGED <<prog, phase, start, cur, loopStack, bytecode, blockTracker, labelToBlock,
                   blockToLabel, hwEvaluatedLoops>>

\* FOR_ITER: next() of the iterator on the stack; it must be alone in its block.
TranslateForIter ==
    /\ IsInstr("forIter")
    /\ LET stack == frame.stack
           alone == Task.j \in bytecode.starts
           ok    == alone /\ stack # <<>> /\ Last(stack)[1] = "iter"
           next  == ok /\ Last(stack)[2] < Last(stack)[3]
       IN  /\ frame' = CASE next -> [frame EXCEPT !.stack = Front(@) \o
                                        << Iterator(Last(@)[3], Last(@)[2] + 1),
                                           PreprocValue(Last(@)[2]) >>]
                         [] ok /\ ~next -> [frame EXCEPT !.stack = Front(@)]
                         [] OTHER -> frame
           /\ todo' = << JumpTask(Task.b, TRUE, IF next THEN Task.j + 1 ELSE Cur.t, NoCond, FALSE) >>
                      \o Tail(todo)
           /\ ssa' = Assert1(Assert1(ssa, alone, "FOR_ITER is not implemented"), ok, "not an iterator")
    /\ UNCHANGED <<prog, phase, start, cur, loopStack, bytecode, blockTracker, labelToBlock,
                   blockToLabel, hwEvaluatedLoops>>

\* _translateInstructionJumpHw.  Both branches of a condition of the hardware are
\* translated; of any other condition only the one that is taken.
TranslateJump ==
    /\ IsInstr("jump") \/ IsInstr("jumpIf") \/ IsInstr("pjumpIf")
    /\ LET b    == Task.b
           st   == StmAt(prog, IF IsIfCond(Cur.p) THEN Front(Cur.p) ELSE Cur.p)
           hwIf == Cur.op = "jumpIf" /\ (st.k = "while" => st.c # Forever)
           holds == Cur.op = "jumpIf" \/ ValueOfI(Cur.p) = st.n
           Taken(j, other, hw) == << JumpTask(b, TRUE, j, NoCond, hw), NotGeneratedTask(b, other) >>
           both(got) == /\ ssa' = got.s
                        /\ todo' = << JumpTask(b, FALSE, Task.j + 1, got.c, TRUE),
                                      JumpTask(b, TRUE, Cur.t, NoCond, TRUE) >> \o Tail(todo)
       IN  \/ /\ hwIf
              /\ both(ReadCond(ssa, b, Reads(prog, Cur.p)[1], Cur.p, Its))
           \/ /\ ~hwIf /\ Cur.op # "jump"
              /\ todo' = (IF holds THEN Taken(Task.j + 1, Cur.t, Cur.op = "jumpIf")
                          ELSE Taken(Cur.t, Task.j + 1, FALSE)) \o Tail(todo)
              /\ UNCHANGED ssa
           \/ /\ Cur.op = "jump"
              /\ todo' = << JumpTask(b, TRUE, Cur.t, NoCond, FALSE) >> \o Tail(todo)
              /\ UNCHANGED ssa
    /\ UNCHANGED <<prog, phase, start, cur, loopStack, pyVars>>

\* What the tracker tells to seal.
TrackerStep(res) ==
    /\ blockTracker' = res.t
    /\ ssa' = Sealed(Assert1(ssa, res.err = "", res.err), res.seal)

\* RETURN_VALUE, _onBlockGenerated.
TranslateReturn ==
    /\ IsInstr("return")
    /\ TrackerStep(AddGenerated(blockTracker, blockToLabel[Task.b]))
    /\ todo' = Tail(todo)
    /\ UNCHANGED <<prog, phase, start, cur, loopStack, bytecode, labelToBlock, blockToLabel,
                   hwEvaluatedLoops, frame>>

\* _onBlockNotGenerated; the edge back to the entry of an unrolled loop is not
\* in the graph in the first place.
BlockNotGenerated ==
    /\ IsTask("notGenerated")
    /\ TrackerStep(IF \E i \in DOMAIN blockTracker.scope : blockTracker.scope[i][1] = Task.j
                   THEN Result(blockTracker, <<>>, "")
                   ELSE AddNotGenerated(blockTracker, blockToLabel[Task.b],
                                        GetBlockLabel(blockTracker, Loops, Task.j)))
    /\ todo' = Tail(todo)
    /\ UNCHANGED <<prog, phase, start, cur, loopStack, bytecode, labelToBlock, blockToLabel,
                   hwEvaluatedLoops, frame>>

(***************************************************************************)
(* _getOrCreateSsaBasicBlockAndJump up to the translation of the successor. *)
(* The scopes on the way: prev are the ones which it leaves, restored by    *)
(* the other half; added tells that the last one is new, unroll that the    *)
(* tracker needs another copy of the body.                                  *)
(***************************************************************************)
JumpScopes ==
    LET scope == blockTracker.scope
        h     == blockToLabel[Task.b][2]
        preprocToBody == h \in DOMAIN Loops /\ Task.j \in Loops[h] /\ ~Task.hw
        toHeader  == \E i \in DOMAIN scope : scope[i][1] = Task.j
        reentering == \E i \in DOMAIN scope : scope[i][1] = h
        n     == Max({0} \cup {i \in DOMAIN scope : Task.j \in Loops[scope[i][1]]})
        first == preprocToBody /\ ~reentering
        Scopes(again, new, prev, added, unroll) ==
            [again |-> again, scope |-> new, prev |-> prev, added |-> added, unroll |-> unroll]
    IN  CASE toHeader /\ ~first ->
               Scopes(reentering,
                      Append(SubSeq(scope, 1, n - 1),
                             << IF preprocToBody THEN h ELSE Task.j, scope[n][2] + 1 >>),
                      SubSeq(scope, n, Len(scope)), TRUE, reentering)
          [] toHeader /\ first ->
               Scopes(FALSE, Append(SubSeq(scope, 1, n), << h, 0 >>),
                      SubSeq(scope, n + 1, Len(scope)), TRUE, TRUE)
          [] ~toHeader ->
               Scopes(reentering, IF first THEN Append(scope, << h, 0 >>) ELSE scope,
                      <<>>, first, preprocToBody)

\* The tracker behind the jump: the loop whose body is entered gets the blocks of
\* one more iteration.
Unrolled(T, sc) ==
    CASE ~sc.unroll -> Result(T, <<>>, "")
      [] sc.unroll /\ Last(sc.scope)[2] = 0 ->
            Result(CfgAddPrefixToLoopBody(T, Loops, Last(sc.scope)[1], sc.scope), <<>>,
                   IF sc.again THEN "iteration of a loop" ELSE "")
      [] sc.unroll /\ Last(sc.scope)[2] # 0 ->
            CfgCopyLoopBody(T, bytecode.edges, Loops, Last(sc.scope)[1], sc.scope)

\* The block b has label lbl now, l2b and hw are labelToBlock and hwEvaluatedLoops;
\* suc is the label of the successor, new tells that it has no block yet.
JumpTo(b, lbl, sc, unrolled, l2b, hw, suc, new) ==
    LET succB == IF new THEN Len(ssa.blk) + 1 ELSE l2b[suc]
        l2b2  == IF new THEN (suc :> succB) @@ l2b ELSE l2b
        link(s) == AddTarget(IF new THEN NewBlock(s, FALSE) ELSE s, b, Task.c, succB)
        seal(s, res) == SealLabels(Assert1(s, res.err = "", res.err), res.seal, l2b2, hw)
        generated == IF Task.last THEN AddGenerated(unrolled.t, lbl)
                     ELSE Result(unrolled.t, <<>>, "")
        finish(res) == /\ blockTracker' = res.t
                       /\ ssa' = seal(seal(link(ssa), unrolled), res)
    IN  /\ finish(generated)
        /\ labelToBlock' = l2b2
        /\ hwEvaluatedLoops' = hw
        /\ blockToLabel' = [blockToLabel EXCEPT ![b] = lbl] \o IF new THEN <<suc>> ELSE <<>>
        /\ todo' = (IF new THEN << BlockTask(succB, Task.j) >> ELSE <<>>)
                   \o << [k |-> "jumped", b |-> b, label |-> blockToLabel[b], added |-> sc.added,
                          prev |-> sc.prev] >> \o Tail(todo)

Jump ==
    /\ IsTask("jump")
    /\ \E sc \in {JumpScopes} :
       \E unrolled \in {Unrolled([blockTracker EXCEPT !.scope = sc.scope], sc)} :
        LET b   == Task.b
            old == blockToLabel[b]
            first == sc.unroll /\ Last(sc.scope)[2] = 0
            lbl == IF first THEN Label(sc.scope, old[2]) ELSE old
            l2b == IF first THEN (lbl :> b) @@ labelToBlock ELSE labelToBlock
            hw  == IF Task.hw /\ old[2] \in DOMAIN Loops /\ Task.j \in Loops[old[2]]
                   THEN hwEvaluatedLoops \cup {old} ELSE hwEvaluatedLoops
            suc == GetBlockLabel(unrolled.t, Loops, Task.j)
        IN  JumpTo(b, lbl, sc, unrolled, l2b, hw, suc, suc \notin DOMAIN l2b)
    /\ UNCHANGED <<prog, phase, start, cur, loopStack, bytecode, frame>>

\* ... and behind it: the header of a loop of the hardware is closed, and the
\* scopes are as they were.
Jumped ==
    /\ IsTask("jumped")
    /\ LET l == Task.label
       IN  ssa' = IF l[2] \in DOMAIN Loops /\ l \in hwEvaluatedLoops
                     /\ HasAllPredecessorsKnown(blockTracker, l)
                  THEN OnAllPredecsKnown(ssa, Task.b, blockToLabel[Task.b]) ELSE ssa
    /\ blockTracker' = [blockTracker EXCEPT !.scope =
                          (IF Task.added THEN Front(@) ELSE @) \o Task.prev]
    /\ todo' = Tail(todo)
    /\ UNCHANGED <<prog, phase, start, cur, loopStack, bytecode, labelToBlock, blockToLabel,
                   hwEvaluatedLoops, frame>>

\* The end of translateFunction: the entry must have no predecessors.
FinishFunction ==
    /\ Visiting /\ phase = "python" /\ todo = <<>>
    /\ LET new == Len(ssa.blk) + 1
           again == ssa.blk[1].preds # <<>>
           s1  == IF again THEN AddTarget(SealBlock(NewBlock(ssa, FALSE), new), new, NoCond, 1)
                  ELSE ssa
       IN  /\ start' = IF again THEN new ELSE start
           /\ ssa' = Finalized(s1, start')
    /\ phase' = IF ssa'.err = "" THEN "translated" ELSE "rejected"
    /\ UNCHANGED <<prog, cur, todo, loopStack, pyVars>>

\* translateFunction up to the first block.
NoBytecode == [code |-> <<>>, starts |-> {}, edges |-> {}, loops |-> <<>>]
Disassembled(code) ==
    LET starts == BlockStarts(code)
        edges == BlockEdges(code, starts)
        loops == DetectLoops(edges)
    IN  [code |-> code, starts |-> starts, edges |-> edges,
         loops |-> [e \in {l.entry : l \in loops} |-> (CHOOSE l \in loops : l.entry = e).blocks]]

PyInit ==
    /\ phase = "python"
    /\ bytecode = Disassembled(Compile(prog))
    /\ ssa = Assert1(NewBlock(EmptySsa, FALSE), 0 \notin DOMAIN Loops, "several entries of a loop")
    /\ start = 1 /\ cur = 1 /\ loopStack = <<>>
    /\ todo = << BlockTask(1, 1) >>
    /\ blockTracker = Tracker(bytecode.edges)
    /\ labelToBlock = Label(<<>>, 1) :> 1
    /\ blockToLabel = << Label(<<>>, 1) >>
    /\ hwEvaluatedLoops = {}
    /\ frame = [locals |-> << PreprocValue(0), PreprocValue(0) >>, stack |-> <<>>]

NoPyInit ==
    /\ bytecode = NoBytecode /\ blockTracker = Tracker({})
    /\ labelToBlock = <<>> /\ blockToLabel = <<>> /\ hwEvaluatedLoops = {}
    /\ frame = [locals |-> <<>>, stack |-> <<>>]

PyNext ==
    \/ TranslateStatement \/ TranslateStackInstruction \/ TranslateForIter
    \/ TranslateJump \/ TranslateReturn \/ BlockNotGenerated
    \/ Jump \/ Jumped \/ FinishFunction
=============================================================================
