----------------------------- MODULE PyBytecode -----------------------------
(***************************************************************************)
(* The bytecode of a function of the Python frontend.  Compiling the        *)
(* function is the work of CPython (3.8, 3.9); finding the basic blocks     *)
(* (extractBytecodeBlocks) and the loops (PyBytecodeLoop.detectLoops) in it *)
(* is the first thing which the frontend does.                              *)
(*                                                                         *)
(* Instructions are numbered from 1; a block is named by its first one.     *)
(* The instructions of a statement without a jump are one instruction here: *)
(*   stm            an assignment, a write, an access to an array           *)
(*   jumpIf, pjumpIf   POP_JUMP_IF_FALSE on a hardware or Python condition  *)
(*   jump           JUMP_ABSOLUTE, JUMP_FORWARD                             *)
(*   getIter, forIter, store, pop, return                                   *)
(***************************************************************************)
EXTENDS SourceSyntax, FiniteSets, FiniteSetsExt

\* Instruction for the statement (or the condition) at path p, with target t.
Instr(op, p, t) == [op |-> op, p |-> p, t |-> t]
NoTarget == 0

\* The loop around the code: where it continues and ends, and whether it
\* keeps an iterator on the stack.
Around(head, end, iter) == [head |-> head, end |-> end, iter |-> iter]
NoLoop == Around(0, 0, FALSE)

\* The instructions of the statements list at prefix pre, placed at b.  The
\* length of a piece of code does not depend on its targets.
RECURSIVE Code(_, _, _, _), IfCode(_, _, _, _, _)
StmCode(st, p, b, loop) ==
    CASE st.k \in {"set", "use", "useI", "index", "setIndex"} -> << Instr("stm", p, NoTarget) >>
      [] st.k = "if"  -> IfCode(st, p, 1, b, loop)
      [] st.k = "pif" ->
            LET t   == Code(st.t, Append(p, 1), b + 1, loop)
                els == b + Len(t) + IF st.e = <<>> THEN 1 ELSE 2
                e   == Code(st.e, Append(p, 0), els, loop)
            IN  << Instr("pjumpIf", p, els) >> \o t
                \o (IF st.e = <<>> THEN <<>> ELSE << Instr("jump", p, els + Len(e)) >>) \o e
      [] st.k = "while" ->
            LET end  == b + 2 + Len(Code(st.b, Append(p, 1), b, NoLoop))
                body == Code(st.b, Append(p, 1), b + 1, Around(b, end, FALSE))
            IN  << Instr("jumpIf", p, end) >> \o body \o << Instr("jump", p, b) >>
      [] st.k = "pfor" ->
            LET end  == b + 4 + Len(Code(st.b, Append(p, 1), b, Around(b, b, TRUE)))
                body == Code(st.b, Append(p, 1), b + 3, Around(b + 1, end, TRUE))
            IN  << Instr("getIter", p, NoTarget), Instr("forIter", p, end),
                   Instr("store", p, NoTarget) >> \o body \o << Instr("jump", p, b + 1) >>
      [] st.k = "break" -> (IF loop.iter THEN << Instr("pop", p, NoTarget) >> ELSE <<>>)
                           \o << Instr("jump", p, loop.end) >>
      [] st.k = "continue" -> << Instr("jump", p, loop.head) >>

IfCode(st, p, n, b, loop) ==
    IF n > Len(st.cs) THEN Code(st.e, Append(p, 0), b, loop)
    ELSE LET body == Code(st.cs[n].b, Append(p, n), b + 1, loop)
             rest(at) == IfCode(st, p, n + 1, at, loop)
             els  == b + Len(body) + IF rest(b) = <<>> THEN 1 ELSE 2
         IN  << Instr("jumpIf", Append(p, n), els) >> \o body
             \o (IF rest(b) = <<>> THEN <<>>
                 ELSE << Instr("jump", p, els + Len(rest(els))) >>) \o rest(els)

Code(list, pre, b, loop) ==
    FoldLeft(LAMBDA code, n : code \o StmCode(list[n], Append(pre, n), b + Len(code), loop),
             <<>>, [n \in DOMAIN list |-> n])

\* A jump to a jump is a jump to its target; "forIter" stays as it is.
RECURSIVE Landing(_, _)
Landing(code, t) == IF code[t].op = "jump" THEN Landing(code, code[t].t) ELSE t

Compile(prog) ==
    LET code == Append(Code(prog, <<>>, 1, NoLoop), Instr("return", <<>>, NoTarget))
    IN  Copied([j \in DOMAIN code |->
            IF code[j].op \in {"jump", "jumpIf", "pjumpIf"}
            THEN Instr(code[j].op, code[j].p, Landing(code, code[j].t)) ELSE code[j]])

(***************************************************************************)
(* extractBytecodeBlocks.                                                   *)
(***************************************************************************)
JumpTargets(code) == {code[j].t : j \in DOMAIN code} \ {NoTarget}
\* What is behind a jump, before the next target of any jump, is skipped.
BlockStarts(code) ==
    LET targets == JumpTargets(code)
        skipped(j) == \E k \in 1..(j - 1) : code[k].op = "jump" /\ (k + 1)..j \cap targets = {}
    IN  {j \in DOMAIN code : ~skipped(j)
           /\ (j = 1 \/ j \in targets \/ code[j - 1].op \in {"jumpIf", "pjumpIf", "forIter"})}
\* The last instruction of the block at b, one of starts.
BlockEnd(code, starts, b) ==
    LET jumps == {j \in b..Len(code) : j + 1 \in starts \/ code[j].op \in {"jump", "return"}}
    IN  Min(jumps)
BlockEdges(code, starts) ==
    UNION {LET e == BlockEnd(code, starts, b)
           IN  {<<b, t>> : t \in ({code[e].t} \ {NoTarget})
                              \cup (IF code[e].op \in {"jump", "return"} THEN {} ELSE {e + 1})} :
           b \in starts}

(***************************************************************************)
(* detectLoops: the cycles of the graph, then those in each of them without *)
(* the edges back to its entry.  A loop is its entry (0 when the assertion  *)
(* on the entry fails) and all its blocks.                                  *)
(***************************************************************************)
RECURSIVE Reachable(_, _), DetectLoops(_)
Reachable(edges, S) ==
    LET next == {e[2] : e \in {d \in edges : d[1] \in S}}
    IN  IF next \subseteq S THEN S ELSE Reachable(edges, S \cup next)

\* strongly_connected_components which have an edge inside.
Cycles(edges) ==
    LET behind(b) == Reachable(edges, {e[2] : e \in {d \in edges : d[1] = b}})
    IN  {{c \in behind(b) : b \in behind(c)} : b \in {e[1] : e \in edges}} \ {{}}

DetectLoops(edges) ==
    LET into(L)  == {e \in edges : e[1] \notin L /\ e[2] \in L}
        entry(L) == CASE Cardinality(into(L)) = 1 -> (CHOOSE e \in into(L) : TRUE)[2]
                      [] into(L) = {} /\ 1 \in L -> 1
                      [] OTHER -> 0
        inner(L) == {e \in edges : entry(L) # 0 /\ e[1] \in L /\ e[2] \in L /\ e[2] # entry(L)}
    IN  UNION {{[entry |-> entry(L), blocks |-> L]} \cup DetectLoops(inner(L)) : L \in Cycles(edges)}
=============================================================================
