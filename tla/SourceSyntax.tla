---------------------------- MODULE SourceSyntax ----------------------------
(***************************************************************************)
(* The programs a thread of HlsStreamProc is written in, and the order in   *)
(* which they are meant to run.  Both frontends (statement objects,         *)
(* AstToSsa, and Python bytecode, PythonBytecodeToSsa) translate programs   *)
(* of this syntax; the module says nothing about how.                       *)
(*                                                                         *)
(* A program is a sequence of statements, a statement a record whose field  *)
(* k is its kind (hwtHls/hlsStreamProc/statements.py):                      *)
(*   set    v = const (op "const"), v = w (op "copy"), v = f(w1, ..) ("op") *)
(*   use    hls.write of a hardware variable; useI of the Python variable   *)
(*          of the innermost "for"                                          *)
(*   if     branches cs (condition variable c, statements b) and else e     *)
(*   while  condition variable c, or Forever (a loop without condition)    *)
(*   for    For(init, c, step, b) of the statement frontend                 *)
(*   pfor   for i in range(n), pif: if i == n (both run by the compiler)    *)
(*   index  v = array[w], setIndex  array[w] = u, for a Python array of two *)
(*          constants or of the variables vs                                *)
(*   break, continue                                                        *)
(*                                                                         *)
(* A statement is named by its path: statement number, branch number,       *)
(* statement number in it, ...  The path of a condition ends with the       *)
(* number of its branch.                                                    *)
(***************************************************************************)
EXTENDS Integers, Sequences, SequencesExt

Forever == 0
Set(v, op, w)   == [k |-> "set", v |-> v, op |-> op, w |-> w]
Use(v)          == [k |-> "use", w |-> <<v>>]
UseI            == [k |-> "useI"]
If(cs, e)       == [k |-> "if", cs |-> cs, e |-> e]
While(c, b)     == [k |-> "while", c |-> c, b |-> b]
For(i, c, s, b) == [k |-> "for", init |-> i, c |-> c, step |-> s, b |-> b]
PFor(n, b)      == [k |-> "pfor", n |-> n, b |-> b]
PIf(n, t, e)    == [k |-> "pif", n |-> n, t |-> t, e |-> e]
Index(v, w)     == [k |-> "index", v |-> v, w |-> w]
SetIndex(vs, w, u) == [k |-> "setIndex", vs |-> vs, w |-> w, u |-> u]
Break           == [k |-> "break"]
Continue        == [k |-> "continue"]
Case(c, b)      == [c |-> c, b |-> b]

\* The sequence q, elements and all (TLC then evaluates it once, where it is made).
Copied(q) == SubSeq(q, 1, Len(q))

\* The statements of branch number sel of a statement.
Branch(st, sel) ==
    CASE st.k = "if"    -> IF sel = 0 THEN st.e ELSE st.cs[sel].b
      [] st.k = "pif"   -> IF sel = 0 THEN st.e ELSE st.t
      [] st.k = "index" -> << Set(st.v, "const", <<>>) >>
      [] st.k = "setIndex" -> << Set(st.vs[IF sel = 1 THEN 1 ELSE 2], "copy", <<st.u>>) >>
      [] st.k = "for"   -> CASE sel = 0 -> st.init [] sel = 1 -> st.b [] OTHER -> st.step
      [] OTHER          -> st.b

\* The sequence of statements at prefix pre of prog (<<>> is the program).
RECURSIVE ListAt(_, _)
ListAt(prog, pre) ==
    IF pre = <<>> THEN prog
    ELSE Branch(ListAt(prog, Front(Front(pre)))[Last(Front(pre))], Last(pre))

StmAt(prog, p) == ListAt(prog, Front(p))[Last(p)]

\* A condition of an "if" (the path ends with a branch number); the condition
\* of a loop is named by the loop.
IsIfCond(p) == Len(p) % 2 = 0
IsCond(prog, p) ==
    p # <<>> /\ (IsIfCond(p) \/ StmAt(prog, p).k \in {"while", "for"})

\* A point of an execution: a path and the iterations of the compile time
\* loops around it, the outermost first.
Point(p, its) == [p |-> p, its |-> its]
End == Point(<<>>, <<>>)

\* The path of the innermost loop around p.
RECURSIVE LoopOf(_, _)
LoopOf(prog, p) ==
    LET q == Front(Front(p))
    IN  IF StmAt(prog, q).k \in {"while", "for", "pfor"} THEN q ELSE LoopOf(prog, q)

(***************************************************************************)
(* What runs next.  Start: the first point of the statement at p.  After:   *)
(* the first point once the statement at p is finished.  Enter: the first   *)
(* point of branch sel of p.  ListEnd: the branch with prefix pre is done.  *)
(***************************************************************************)
RECURSIVE Start(_, _, _), ListEnd(_, _, _)
After(prog, p, its) ==
    IF Last(p) < Len(ListAt(prog, Front(p)))
    THEN Start(prog, Append(Front(p), Last(p) + 1), its)
    ELSE ListEnd(prog, Front(p), its)

Enter(prog, p, sel, its) ==
    IF Branch(StmAt(prog, p), sel) = <<>> THEN ListEnd(prog, Append(p, sel), its)
    ELSE Start(prog, p \o <<sel, 1>>, its)

LoopHead(prog, p, its) ==
    IF StmAt(prog, p).c = Forever THEN Enter(prog, p, 1, its) ELSE Point(p, its)

ListEnd(prog, pre, its) ==
    IF pre = <<>> THEN End
    ELSE LET q  == Front(pre)
             st == StmAt(prog, q)
         IN  CASE st.k = "while" -> LoopHead(prog, q, its)
               [] st.k = "for"   -> IF Last(pre) = 1 THEN Enter(prog, q, 2, its)
                                    ELSE LoopHead(prog, q, its)
               [] st.k = "pfor"  -> IF Last(its) + 1 < st.n
                                    THEN Enter(prog, q, 1, Append(Front(its), Last(its) + 1))
                                    ELSE After(prog, q, Front(its))
               [] OTHER          -> After(prog, q, its)

Start(prog, p, its) ==
    LET st == StmAt(prog, p)
    IN  CASE st.k \in {"set", "use", "useI"} -> Point(p, its)
          [] st.k \in {"if", "index", "setIndex"} -> Point(Append(p, 1), its)
          [] st.k = "while"    -> LoopHead(prog, p, its)
          [] st.k = "for"      -> Enter(prog, p, 0, its)
          [] st.k = "pfor"     -> IF st.n = 0 THEN After(prog, p, its)
                                  ELSE Enter(prog, p, 1, Append(its, 0))
          [] st.k = "pif"      -> Enter(prog, p, IF Last(its) = st.n THEN 1 ELSE 0, its)
          [] st.k = "break"    -> LET q == LoopOf(prog, p)
                                  IN  After(prog, q, IF StmAt(prog, q).k = "pfor"
                                                     THEN Front(its) ELSE its)
          [] st.k = "continue" -> ListEnd(prog, Append(LoopOf(prog, p), 1), its)

\* The point after point x of prog, when the condition at x came out as out.
Follow(prog, x, out) ==
    LET st == StmAt(prog, IF IsIfCond(x.p) THEN Front(x.p) ELSE x.p)
        branches == IF st.k = "if" THEN Len(st.cs) ELSE 1
    IN  CASE x.p = <<0>> -> After(prog, x.p, x.its)
          [] x.p # <<0>> /\ IsIfCond(x.p) ->
                IF out THEN Enter(prog, Front(x.p), Last(x.p), x.its)
                ELSE IF Last(x.p) < branches
                THEN Point(Append(Front(x.p), Last(x.p) + 1), x.its)
                ELSE Enter(prog, Front(x.p), 0, x.its)
          [] x.p # <<0>> /\ ~IsIfCond(x.p) ->
                IF st.k \in {"while", "for"} /\ out THEN Enter(prog, x.p, 1, x.its)
                ELSE After(prog, x.p, x.its)

\* The variables read at the point with path p, and the statement that assigns
\* there, if any.
Reads(prog, p) ==
    LET st == StmAt(prog, IF IsIfCond(p) THEN Front(p) ELSE p)
    IN  CASE st.k = "if" -> << st.cs[Last(p)].c >>
          [] st.k \in {"index", "setIndex"} -> << st.w >>
          [] st.k \in {"while", "for"} -> << st.c >>
          [] st.k = "useI" -> <<>>
          [] OTHER -> st.w
=============================================================================
