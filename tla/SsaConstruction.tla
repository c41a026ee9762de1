-------------------------- MODULE SsaConstruction --------------------------
(***************************************************************************)
(* Basic blocks, branches and phis of hwtHls.ssa, and MemorySSAUpdater,     *)
(* which builds phis on the fly while the blocks are still being connected. *)
(* The object graph is one record s, and a method which modifies it is an   *)
(* operator that returns the new s:                                         *)
(*   blk   sequence of blocks: preds, succ (targets of the branch), body,   *)
(*         unr (a SsaBasicBlockUnreachable), sealed, inc (incompletePhis)   *)
(*   phi   sequence of phis: blk, ops, users (phis only), gone (removed     *)
(*         from its block), rev (currentDefRev of the phi)                  *)
(*   def   currentDef: for each block the value of each variable, or NoDef  *)
(*   err   the assertion that failed first, "" when none did                *)
(* An instruction which uses a phi is always among the users of the phi     *)
(* (the constructors and addTarget register it), hence its replacement is   *)
(* done in all the bodies and branches.                                     *)
(***************************************************************************)
EXTENDS SourceSyntax, FiniteSets, FiniteSetsExt

CONSTANT Vars    \* numbers from 1: RtlSignal_sort_key orders the variables
Tmp == 0         \* the variable of the result of an access to a Python array

\* Values: the constant or the instruction made by the statement at path p in
\* block b, a phi, and the undefined constant which replaces phi n.  Constants
\* are objects: two of them are the same value only when they are one object.
ConstVal(p, b) == << "const", p, b >>
InstrVal(p, b) == << "instr", p, b >>
PhiVal(n)      == << "phi", <<n>>, 0 >>
UndefVal(n)    == << "undef", <<n>>, 0 >>
IsPhi(x)       == x[1] = "phi"
PhiOf(x)       == x[2][1]

EmptySsa == [blk |-> <<>>, phi |-> <<>>, def |-> <<>>, err |-> ""]

Assert1(s, ok, what) == IF s.err = "" /\ ~ok THEN [s EXCEPT !.err = what] ELSE s

InSsa(s, x) == IsPhi(x) => ~s.phi[PhiOf(x)].gone

NoDef == << "none", <<>>, 0 >>
FreshDef == [v \in Vars \cup {Tmp} |-> NoDef]
FreshBlock == [preds |-> <<>>, succ |-> <<>>, body |-> <<>>, unr |-> FALSE,
               sealed |-> FALSE, inc |-> {}]
NewBlock(s, unreachable) ==
    [s EXCEPT !.blk = Append(@, [FreshBlock EXCEPT !.unr = unreachable]),
              !.def = Append(@, FreshDef)]

\* SsaInstrBranch.addTarget; the branch of an unreachable block ignores it.
Cond(p, its, x) == [p |-> p, its |-> its, x |-> x]
Target(c, t) == [c |-> c, t |-> t]
NoCond == Cond(<<>>, <<>>, <<>>)
AddTarget(s, b, c, t) ==
    IF s.blk[b].unr THEN s
    ELSE [Assert1(s, ~Contains(s.blk[t].preds, b), "target twice") EXCEPT
            !.blk[b].succ = Append(@, Target(c, t)),
            !.blk[t].preds = Append(@, b)]

\* One statement in the body of a block: what it reads (w), what it assigns (v,
\* 0 for nothing) and the value it makes (id).
Item(p, its, v, op, w, id) == [p |-> p, its |-> its, v |-> v, op |-> op, w |-> w, id |-> id]
AppendItem(s, b, item) == [s EXCEPT !.blk[b].body = Append(@, item)]

\* The definitions K (pairs of a block and a variable) become x.
Define(s, K, x) ==
    LET set(k, d) == [d EXCEPT ![k[1]][k[2]] = x]
    IN  [s EXCEPT !.def = FoldSet(set, @, K),
                  !.phi = IF IsPhi(x) THEN [@ EXCEPT ![PhiOf(x)].rev = @ \cup K] ELSE @]
WriteVariable(s, v, b, x) ==
    Define(Assert1(s, InSsa(s, x), "write of a removed value"), {<<b, v>>}, x)

FreshPhi == [blk |-> 0, ops |-> <<>>, users |-> <<>>, gone |-> FALSE, rev |-> {}]
AppendPhi(s, b) == [s EXCEPT !.phi = Append(@, [FreshPhi EXCEPT !.blk = b])]

AddUser(users, n) == IF Contains(users, n) THEN users ELSE Append(users, n)

\* SsaPhi.appendOperand.
Operand(x, pred) == [x |-> x, pred |-> pred]
\* mutant: a value which the phi has already is not added for another predecessor
AppendNewOperand(s, n, x, pred) ==
    IF \E i \in DOMAIN s.phi[n].ops : s.phi[n].ops[i].x = x THEN s
    ELSE [s EXCEPT !.phi = [IF IsPhi(x) THEN [@ EXCEPT ![PhiOf(x)].users = AddUser(@, n)] ELSE @
                              EXCEPT ![n].ops = Append(@, Operand(x, pred))]]
AppendOperand(s, n, x, pred) ==
    LET use(phi) == IF IsPhi(x) THEN [phi EXCEPT ![PhiOf(x)].users = AddUser(@, n)] ELSE phi
        append(r) == [r EXCEPT !.phi = [use(@) EXCEPT ![n].ops = Append(@, Operand(x, pred))]]
    IN  IF Contains(s.phi[n].ops, Operand(x, pred)) THEN s
        ELSE append(Assert1(s, InSsa(s, x) /\ ~s.phi[n].gone, "operand of a removed phi"))

\* SsaPhi.replaceUseBy: phi n is replaced by x in the phis, the bodies and the
\* branches.
Subst(x, n, y) == IF x = PhiVal(n) THEN y ELSE x
SubstItem(item, n, y) ==
    Item(item.p, item.its, item.v, item.op,
         Copied([j \in DOMAIN item.w |-> Subst(item.w[j], n, y)]), item.id)
SubstTarget(e, n, y) == Target(Cond(e.c.p, e.c.its, Subst(e.c.x, n, y)), e.t)
SubstPhi(phi, n, y) ==
    [phi EXCEPT !.ops = Copied([i \in DOMAIN @ |-> Operand(Subst(@[i].x, n, y), @[i].pred)])]
\* mutant: the conditions of the branch keep the removed phi.
SubstBodyOnly(blk, n, y) ==
    [blk EXCEPT !.body = Copied([i \in DOMAIN @ |-> SubstItem(@[i], n, y)])]
SubstBlock(blk, n, y) ==
    [blk EXCEPT !.body = Copied([i \in DOMAIN @ |-> SubstItem(@[i], n, y)]),
                !.succ = Copied([i \in DOMAIN @ |-> SubstTarget(@[i], n, y)])]
ReplaceUses(s, n, y) ==
    LET users == s.phi[n].users
        moved(m) == CASE m = n -> [s.phi[m] EXCEPT !.users = <<>>]
                      [] y = PhiVal(m) -> [s.phi[m] EXCEPT !.users = FoldLeft(AddUser, @, users)]
                      [] OTHER -> s.phi[m]
        inPhi(m, phi) == IF Contains(users, m) THEN SubstPhi(phi, n, y) ELSE phi
    IN  [s EXCEPT !.phi = Copied([m \in DOMAIN @ |-> inPhi(m, moved(m))]),
                  !.blk = Copied([b \in DOMAIN @ |-> SubstBlock(@[b], n, y)])]

\* The loop over currentDefRev[phi] of tryRemoveTrivialPhi: every definition
\* which still is phi n becomes y.
Redirect(s, n, y) ==
    Define([s EXCEPT !.phi[n].rev = {}],
           {k \in s.phi[n].rev : s.def[k[1]][k[2]] = PhiVal(n)}, y)

\* What phi n merges, without itself.
Merged(s, n) == {s.phi[n].ops[i].x : i \in DOMAIN s.phi[n].ops} \ {PhiVal(n)}

\* Without phi n, which is y.
RemovePhi(s, n, y) ==
    Redirect([ReplaceUses(Assert1(s, InSsa(s, y) /\ ~s.phi[n].gone, "removed phi replaced"), n, y)
                EXCEPT !.phi[n].gone = TRUE], n, y)

\* tryRemoveTrivialPhi: the new s, and x, the value of the phi.
Read(s, x) == [s |-> s, x |-> x]
\* mutant: the phis which used the removed one are not looked at again.
TryRemoveOnce(s, n) ==
    LET Replaced(y) == Read(RemovePhi(s, n, y), y)
    IN  IF Cardinality(Merged(s, n)) > 1 THEN Read(s, PhiVal(n))
        ELSE Replaced(IF Merged(s, n) = {} THEN UndefVal(n)
                      ELSE CHOOSE x \in Merged(s, n) : TRUE)
RECURSIVE TryRemoveTrivialPhi(_, _)
TryRemoveTrivialPhi(s, n) ==
    LET Retry(r, u) == IF u = n \/ r.phi[u].gone THEN r ELSE TryRemoveTrivialPhi(r, u).s
        Replaced(y) == Read(FoldLeft(Retry, RemovePhi(s, n, y), s.phi[n].users), y)
    IN  IF Cardinality(Merged(s, n)) > 1 THEN Read(s, PhiVal(n))
        ELSE Replaced(IF Merged(s, n) = {} THEN UndefVal(n)
                      ELSE CHOOSE x \in Merged(s, n) : TRUE)

\* readVariable, readVariableRecursive and addPhiOperands.
RECURSIVE ReadVariable(_, _, _)
AddPhiOperands(s, v, n) ==
    LET Collect(r, pred) == LET append(got) == AppendOperand(got.s, n, got.x, pred)
                            IN  append(ReadVariable(r, v, pred))
    IN  TryRemoveTrivialPhi(FoldLeft(Collect, s, s.blk[s.phi[n].blk].preds), n)

\* Only values with users are remembered in the block.
Remember(got, v, b) ==
    IF got.x[1] \in {"phi", "instr"} THEN Read(WriteVariable(got.s, v, b, got.x), got.x) ELSE got

ReadVariableRecursive(s, v, b) ==
    LET n == Len(s.phi) + 1
    IN  Remember(
          CASE ~s.blk[b].sealed ->
                 Read([AppendPhi(s, b) EXCEPT !.blk[b].inc = @ \cup {<<v, n>>}], PhiVal(n))
            [] s.blk[b].sealed /\ Len(s.blk[b].preds) = 1 ->
                 ReadVariable(s, v, s.blk[b].preds[1])
            [] s.blk[b].sealed /\ Len(s.blk[b].preds) # 1 ->
                 AddPhiOperands(WriteVariable(AppendPhi(s, b), v, b, PhiVal(n)), v, n),
          v, b)

ReadVariable(s, v, b) ==
    LET x == s.def[b][v]
    IN  IF x # NoDef THEN Read(Assert1(s, InSsa(s, x), "removed definition"), x)
        ELSE ReadVariableRecursive(s, v, b)

\* sealBlock: the incomplete phis of the block, in the order of the variables.
SealBlock(s, b) ==
    LET Complete(r, e) == AddPhiOperands(r, e[1], e[2]).s
        order == SetToSortSeq(s.blk[b].inc, LAMBDA e, f : e[1] < f[1])
        clear(r) == [r EXCEPT !.blk[b].inc = {}]
    IN  [FoldLeft(Complete, clear(Assert1(s, ~s.blk[b].sealed, "sealed twice")), order)
           EXCEPT !.blk[b].sealed = TRUE]

\* Several variables, the operands of one expression, from the left.
ReadAll(s, b, vs) ==
    LET next(r, v) == LET add(got) == [s |-> got.s, xs |-> Append(r.xs, got.x)]
                      IN  add(ReadVariable(r.s, v, b))
    IN  FoldLeft(next, [s |-> s, xs |-> <<>>], vs)

\* The phis which are still in their block.
LivePhis(s) == {n \in DOMAIN s.phi : ~s.phi[n].gone}
=============================================================================
