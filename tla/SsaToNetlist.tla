---------------------------- MODULE SsaToNetlist ----------------------------
(***************************************************************************)
(* Translation of SSA to the netlist: SsaSegmentToHwPipeline with          *)
(* PipelineExtractor, the liveness, SaaGetBlockSyncType,                   *)
(* SsaToHwtHlsNetlist, its cache of outputs and the ordering of IO.        *)
(*                                                                         *)
(* A program (prog) is a control flow graph with SSA code in its blocks.   *)
(* The blocks are translated one after another in the order of             *)
(* collect_all_blocks.  A block may use what a later block defines: an     *)
(* output which does not exist yet is a placeholder (HlsNetNodeOutLazy),   *)
(* here a negative number, replaced when the output is added to the cache. *)
(* What crosses an edge that the extractor cut is read from a channel at   *)
(* the destination and written to it at the source.                        *)
(*                                                                         *)
(* A value is <<kind, block>>; Const stands for any HValue.  A program has *)
(*   succ[b], pred[b]  the edges, in the order of the branch targets; of   *)
(*                     two targets the first one has a condition,          *)
(*   phi[b]            operands of the phi of b (<<>> if it has none),     *)
(*   body[b]           instructions [op, val, args] with op "read",        *)
(*                     "write" or "op" (anything else).                    *)
(* The condition of a branch is the value <<"cond", b>> read by the block. *)
(***************************************************************************)
EXTENDS PipelineExtractor, Integers, SequencesExt

CONSTANTS
    Shapes,             \* control flow graphs with their predecessors
    ProgramsOf(_)       \* the programs with that control flow graph

VARIABLES
    prog,       \* the program; never changes
    live,       \* edge_var_live as triples <<source, destination, value>>
    needsControl,   \* BlockMeta.needsControl, the same for all blocks
    at,         \* index of the block in work, in the order of translation
    step,       \* what is to be done with it next
    net,        \* nodes, cache and enables, see EmptyNet
    order       \* IO ordering: _blockOrderingSync, _firstIoAccesOfBlock, edges

translateVars == <<prog, live, needsControl, at, step, net, order>>
vars == <<extractVars, translateVars>>

Const == <<"const", 0>>
CondOf(b) == <<"cond", b>>

-----------------------------------------------------------------------------
(* The program *)

BlocksOf(p) == DOMAIN p.succ
EdgesOf(p) == UNION {{<<b, p.succ[b][i]>> : i \in DOMAIN p.succ[b]} : b \in BlocksOf(p)}
Preds(b) == ToSet(prog.pred[b])
Start == 1
IsCut(s, d) == <<s, d>> \in removed

\* depth first, the successors in the order of the branch targets
RECURSIVE CollectFrom(_, _)
CollectFrom(todo, seen) ==
    IF todo = <<>> THEN seen
    ELSE LET b == Head(todo)
         IN  IF b \in ToSet(seen) THEN CollectFrom(Tail(todo), seen)
             ELSE CollectFrom(prog.succ[b] \o Tail(todo), Append(seen, b))

collect_all_blocks == CollectFrom(<<Start>>, <<>>)

Instrs(p) ==
    UNION {{p.body[b][i] : i \in DOMAIN p.body[b]} : b \in BlocksOf(p)}

Phis(p) == {<<"phi", b>> : b \in {x \in BlocksOf(p) : p.phi[x] # <<>>}}

Provides(p, b) ==
    {v \in Phis(p) : v[2] = b} \cup {i.val : i \in {j \in Instrs(p) : j.val[2] = b}}

RECURSIVE LiveClosure(_, _)
LiveClosure(p, L) ==
    LET more == {<<q, t[1], t[3]>> : q \in BlocksOf(p), t \in L}
        next == L \cup {u \in more : /\ u[1] \in ToSet(p.pred[u[2]])
                                     /\ \E t \in L : /\ t[1] = u[2] /\ t[3] = u[3]
                                                     /\ u[3] \notin Provides(p, t[1])}
    IN  IF next = L THEN L ELSE LiveClosure(p, next)

\* a phi requires an operand from one predecessor, an instruction from all
ssa_liveness_edge_variables(p) ==
    LET byPhi == UNION {{<<p.phi[b][i].from, b, p.phi[b][i].val>> : i \in DOMAIN p.phi[b]}
                        : b \in BlocksOf(p)}
        byInstr == UNION {{<<q, i.val[2], v>> : q \in ToSet(p.pred[i.val[2]]),
                                                v \in ToSet(i.args) \ Provides(p, i.val[2])}
                          : i \in Instrs(p)}
    IN  LiveClosure(p, {t \in byPhi \cup byInstr : t[3] # Const})

LiveOn(s, d) == {t[3] : t \in {u \in live : u[1] = s /\ u[2] = d}}
LiveSeq(s, d) == SetToSeq(LiveOn(s, d))

-----------------------------------------------------------------------------
(* Block synchronization (SsaPassThreadMining, SaaGetBlockSyncType) *)

\* values which depend on each other, but not through a cut edge
Linked(p) ==
    UNION {{<<i.val, a>> : a \in ToSet(i.args) \ {Const}} : i \in Instrs(p)}
    \cup UNION {{<< <<"phi", b>>, o.val>> :
                  o \in {x \in ToSet(p.phi[b]) : x.val # Const /\ ~IsCut(x.from, b)}}
                : b \in BlocksOf(p)}

RECURSIVE ThreadOf(_, _)
ThreadOf(S, links) ==
    LET next == S \cup {l[1] : l \in {k \in links : k[2] \in S}}
                  \cup {l[2] : l \in {k \in links : k[1] \in S}}
    IN  IF next = S THEN S ELSE ThreadOf(next, links)

threadsPerBlock(p) ==
    LET links == Linked(p)
    IN  [b \in BlocksOf(p) |-> {ThreadOf({v}, links) : v \in Provides(p, b)}]

isCycleEntryPoint(b) == \E q \in Preds(b) : IsCut(q, b)

\* the control is needed by the block itself, whatever the other blocks need
NeedsByItself(p, b) ==
    LET threads == threadsPerBlock(p)
        begin == threads[b] \ UNION {threads[q] : q \in Preds(b)}
        succs == ToSet(p.succ[b])
    IN  IF isCycleEntryPoint(b)
        THEN \/ Cardinality(threads[b]) > 1
             \/ Len(p.pred[b]) > 2
             \/ p.phi[b] # <<>>
             \/ Len(p.succ[b]) > 1
             \/ \E s \in succs : Cardinality(threads[s]) > 1
        ELSE \/ p.pred[b] = <<>> /\ (begin # {} \/ Len(p.succ[b]) # 1)
             \/ Cardinality(begin) > 1

\* The need of a block spreads to its predecessors and successors and with
\* them to the whole graph, so the blocks differ in nothing; it is enough
\* that one block needs the control by itself.
_get_SsaBasicBlock_meta(p) == \E b \in BlocksOf(p) : NeedsByItself(p, b)

\* of a block in work; that of a loop is decided when the block is visited,
\* with the needs of the blocks visited so far
requiresStarter(b) ==
    /\ needsControl
    /\ IF isCycleEntryPoint(b)
       THEN /\ Len(prog.pred[b]) = 1
            /\ \E i \in 1..at : NeedsByItself(prog, collect_all_blocks[i])
       ELSE prog.pred[b] = <<>>

inLiveVarsWithMultipleSrcBlocks(b) ==
    {v \in {t[3] : t \in live} : \E q, r \in Preds(b) : q # r /\ v \in LiveOn(q, b) \cap LiveOn(r, b)}

phiCyclicArgs(b) ==
    {v \in Provides(prog, b) : /\ isCycleEntryPoint(b)
                               /\ \E q \in Preds(b) : v \in LiveOn(q, b)
                               /\ \E s \in ToSet(prog.succ[b]) : v \in LiveOn(b, s)}

-----------------------------------------------------------------------------
(* The netlist under construction and the cache of outputs.  Node n has one*)
(* output, n; err names the assertion which failed.                        *)

None == 0

EmptyNet == [node |-> <<>>, cache |-> <<>>, old |-> <<>>, keys |-> <<>>, replaced |-> {},
             blockEn |-> <<>>, startBlockEn |-> None, err |-> ""]

Fail(nt, why) == IF nt.err = "" THEN [nt EXCEPT !.err = why] ELSE nt

AddNode(nt, op, tag, ins) ==
    [nt EXCEPT !.node = Append(@, [op |-> op, tag |-> tag, ins |-> ins])]
Newest(nt) == Len(nt.node)
AddInput(nt, n, o) == [nt EXCEPT !.node[n].ins = Append(@, o)]

Token(s, d, dir) == <<dir, <<s, d>> >>      \* BranchControlLabel
Var(b, v) == <<"var", <<b, v>> >>

\* get; a key which is not there gets a new placeholder
Seen(nt, k) ==
    IF k \notin DOMAIN nt.cache
    THEN [nt EXCEPT !.keys = Append(@, {k}), !.cache = @ @@ (k :> -(Len(nt.keys) + 1))]
    ELSE IF nt.cache[k] \in nt.replaced THEN Fail(nt, "replaced placeholder") ELSE nt

Rekey(nt, lazy, o) == [k \in DOMAIN nt.cache |-> IF k \in nt.keys[-lazy] THEN o ELSE nt.cache[k]]

\* mutant: the inputs are not told
ReplaceInCacheOnly(nt, lazy, o) ==
    [nt EXCEPT !.cache = Rekey(nt, lazy, o), !.replaced = @ \cup {lazy}]

(* HlsNetNodeOutLazy.replace_driver.  The new output takes over the keys   *)
(* and the inputs; but if it is a placeholder itself, it does not know of  *)
(* them and they stay behind when it is replaced.  Such an input has no    *)
(* driver any more: None.                                                  *)
ReplaceLazy(nt, lazy, o) ==
    LET driver(x) == IF x # lazy THEN x ELSE IF o > 0 THEN o ELSE None
    IN  IF lazy = o \/ lazy \in nt.replaced THEN Fail(nt, "placeholder replaced twice")
        ELSE [nt EXCEPT
                !.cache = Rekey(nt, lazy, o),
                !.replaced = @ \cup {lazy},
                !.node = [n \in DOMAIN @ |->
                            [@[n] EXCEPT !.ins = [i \in DOMAIN @ |-> driver(@[i])]]]]

\* mutant: what is in the cache is overwritten
CacheOverwrite(nt, k, o, isDefOfPhiCyclicArg) ==
    LET cur == nt.cache[k]
        nt1 == IF o > 0 THEN nt ELSE [nt EXCEPT !.keys[-o] = @ \cup {k}]
    IN  IF k \notin DOMAIN nt.cache \/ nt.cache[k] > 0 THEN [nt1 EXCEPT !.cache = (k :> o) @@ @]
        ELSE ReplaceLazy(nt1, cur, o)

CacheAdd(nt, k, o, isDefOfPhiCyclicArg) ==
    LET cur == nt.cache[k]
        nt1 == IF o > 0 THEN nt ELSE [nt EXCEPT !.keys[-o] = @ \cup {k}]
        kept == [nt1 EXCEPT !.old = @ @@ (k :> cur)]
    IN  CASE k \notin DOMAIN nt.cache -> [nt1 EXCEPT !.cache = @ @@ (k :> o)]
          [] k \in DOMAIN nt.cache /\ isDefOfPhiCyclicArg ->
                IF k \in DOMAIN nt.old THEN Fail(nt, "second old value")
                ELSE IF cur > 0 THEN [kept EXCEPT !.cache[k] = o]
                ELSE [kept EXCEPT !.cache = Rekey(kept, cur, o), !.keys[-cur] = {}]
          [] OTHER ->
                IF cur > 0 THEN Fail(nt, "redefining already defined")
                ELSE ReplaceLazy(nt1, cur, o)

\* to_hls_expr; the output is the result's Output
Expr(nt, b, v) == IF v = Const THEN AddNode(nt, "const", Const, <<>>) ELSE Seen(nt, Var(b, v))
Output(nt, b, v) == IF v = Const THEN Newest(nt) ELSE nt.cache[Var(b, v)]

\* the OR of the tokens from the predecessors (and of the starter) and its
\* negation, created on the first use
_collect_en_from_predecessor(nt, b) ==
    LET first == IF b = Start THEN nt.startBlockEn ELSE None
        join(acc, q) ==
            LET nt1 == Seen(acc.nt, Token(q, b, "SLAVE"))
                t == nt1.cache[Token(q, b, "SLAVE")]
                nt2 == AddNode(nt1, "or", b, <<acc.en, t>>)
            IN  IF acc.en = None THEN [nt |-> nt1, en |-> t]
                                 ELSE [nt |-> nt2, en |-> Newest(nt2)]
        all == FoldLeft(join, [nt |-> nt, en |-> first], prog.pred[b])
        done == AddNode(all.nt, "not", b, <<all.en>>)
    IN  IF b \in DOMAIN nt.blockEn THEN nt
        ELSE IF all.en = None THEN Fail(all.nt, "no enable")
        ELSE [done EXCEPT !.blockEn = @ @@ (b :> <<all.en, Newest(done)>>)]

\* extraCond and skipWhen of an IO node
_add_block_en_to_control_if_required(nt, b, n) ==
    LET nt1 == _collect_en_from_predecessor(nt, b)
    IN  IF ~needsControl THEN nt
        ELSE IF nt1.err # "" THEN nt1
        ELSE [nt1 EXCEPT !.node[n].ins = @ \o nt1.blockEn[b]]

-----------------------------------------------------------------------------
(* Ordering of IO *)

EmptyOrder == [sync |-> <<>>, first |-> <<>>, edge |-> {}, err |-> ""]

ForwardPreds(b) == {q \in Preds(b) : ~IsCut(q, b)}

AllPredsResolved(o, b) == Preds(b) \subseteq DOMAIN o.sync

\* mutant: the first predecessor in the list is taken for all
FirstPredecessorOnly(o, b) ==
    IF b \in DOMAIN o.sync \/ ~(ForwardPreds(b) \subseteq DOMAIN o.sync) THEN o
    ELSE LET from == SelectSeq(prog.pred[b], LAMBDA q : q \in ForwardPreds(b))
         IN  [o EXCEPT !.sync = @ @@ (b :> IF from = <<>> THEN {} ELSE o.sync[from[1]])]

\* nothing happens while a predecessor (over an uncut edge) is missing
collectBlockOrderingDependencies(o, b) ==
    IF b \in DOMAIN o.sync \/ ~(ForwardPreds(b) \subseteq DOMAIN o.sync) THEN o
    ELSE [o EXCEPT !.sync = @ @@ (b :> UNION {o.sync[q] : q \in ForwardPreds(b)})]

\* mutant: chained to the first access of the block
ChainedToFirst(o, b, n) ==
    LET prev == IF b \in DOMAIN o.sync THEN o.sync[b] ELSE {}
    IN  [o EXCEPT !.first[b] = IF prev = {} THEN n ELSE @,
                  !.edge = @ \cup {<<o.first[b], n>> : p \in prev},
                  !.sync = (b :> {n}) @@ @]

\* mutant: the two ends of the dependence swapped
OrderedBackwards(o, b, n) ==
    LET prev == IF b \in DOMAIN o.sync THEN o.sync[b] ELSE {}
    IN  [o EXCEPT !.first[b] = IF prev = {} THEN n ELSE @,
                  !.edge = @ \cup {<<n, p>> : p \in prev},
                  !.sync = (b :> {n}) @@ @]

_addOrderingToIoInBlock(o, b, n) ==
    LET prev == IF b \in DOMAIN o.sync THEN o.sync[b] ELSE {}
    IN  IF prev = {} /\ o.first[b] # None THEN [o EXCEPT !.err = "two first accesses"]
        ELSE [o EXCEPT !.first[b] = IF prev = {} THEN n ELSE @,
                       !.edge = @ \cup {<<p, n>> : p \in prev},
                       !.sync = (b :> {n}) @@ @]

RECURSIVE _afterBlockOrderingDependenciesComplete(_, _)
_afterBlockOrderingDependenciesComplete(o, b) ==
    LET visit(acc, s) ==
            LET got == collectBlockOrderingDependencies(acc, s)
            IN  IF IsCut(b, s) \/ s \notin DOMAIN acc.first THEN acc
                ELSE IF acc.first[s] # None
                THEN [acc EXCEPT !.edge = @ \cup {<<p, acc.first[s]>> : p \in acc.sync[b]}]
                ELSE IF s \in DOMAIN acc.sync THEN [acc EXCEPT !.err = "Overspecification"]
                ELSE IF AllPredsResolved(acc, s) /\ s \in DOMAIN got.sync
                THEN _afterBlockOrderingDependenciesComplete(got, s)
                ELSE acc
    IN  FoldLeft(visit, o, prog.succ[b])

-----------------------------------------------------------------------------
(* The steps of the translation of a block *)

\* init_out_of_pipeline_variables of one edge: a channel for the control and
\* for each variable
InitEdge(nt, q, b) ==
    LET channel(acc, k) ==
            LET made == AddNode(acc, "channelRead", <<q, b, k>>, <<>>)
            IN  CacheAdd(made, k, Newest(made), FALSE)
        control == IF needsControl THEN <<Token(q, b, "SLAVE")>> ELSE <<>>
        vars_in == [i \in DOMAIN LiveSeq(q, b) |-> Var(b, LiveSeq(q, b)[i])]
    IN  IF IsCut(q, b) THEN FoldLeft(channel, nt, control \o vars_in) ELSE nt

\* HlsNetNodeExplicitSync.replace_variable; a placeholder has no _dtype
replace_variable(nt, k, en, notEn) ==
    LET nt1 == Seen(nt, k)
        made == AddNode(nt1, "sync", k, <<nt1.cache[k], en, notEn>>)
    IN  IF nt1.cache[k] < 0 THEN Fail(nt, "no _dtype")
        ELSE [made EXCEPT !.cache[k] = Newest(made)]

\* HlsLoopGate.inset_before_block
inset_before_block(nt, b) ==
    LET made == AddNode(AddNode(nt, "status", b, <<>>), "gate", b, <<>>)
        gate == Newest(made)
        status == gate - 1
        guard(acc, q) ==
            LET inv == AddNode(acc, "not", b, <<status>>)
                en == IF IsCut(q, b) THEN status ELSE Newest(inv)
                notEn == IF IsCut(q, b) THEN Newest(inv) ELSE status
                token == Token(q, b, "SLAVE")
                sync(a, v) == replace_variable(a, Var(b, v), en, notEn)
                all == FoldLeft(sync, replace_variable(inv, token, en, notEn), LiveSeq(q, b))
            IN  IF all.err # "" THEN all ELSE AddInput(all, gate, all.cache[token])
    IN  FoldLeft(guard, made, prog.pred[b])

_prepare_SsaBasicBlockControl(nt, b) ==
    LET starter == AddNode(nt, "starter", b, <<>>)
        started == IF requiresStarter(b)
                   THEN [starter EXCEPT !.startBlockEn = Newest(starter)] ELSE nt
    IN  IF isCycleEntryPoint(b) /\ needsControl THEN inset_before_block(started, b)
        ELSE started

\* a mux of sources, values val which come from block from and are looked up
\* in block in; all but the last have a condition
Mux(nt, b, v, sources) ==
    LET made == AddNode(nt, "mux", v, <<>>)
        mux == Newest(made)
        input(acc, i) ==
            LET src == sources[i]
                nt1 == IF i = Len(sources) THEN acc
                       ELSE AddInput(acc, mux, acc.cache[Token(src.from, b, "SLAVE")])
                nt2 == Expr(nt1, src.in, src.val)
            IN  IF acc.err # "" THEN acc ELSE AddInput(nt2, mux, Output(nt2, src.in, src.val))
    IN  FoldLeft(input, CacheAdd(made, Var(b, v), mux, v \in phiCyclicArgs(b)),
                 [i \in DOMAIN sources |-> i])

to_hls_SsaBasicBlock_phis(nt, b) ==
    LET multi == SetToSeq(inLiveVarsWithMultipleSrcBlocks(b))
        token(acc, q) == Seen(acc, Token(q, b, "SLAVE"))
        tokens == FoldLeft(token, nt, prog.pred[b])
        \* values which come unchanged over several edges
        merge(acc, v) ==
            LET from == SelectSeq(prog.pred[b], LAMBDA q : v \in LiveOn(q, b))
            IN  Mux(acc, b, v,
                    [i \in DOMAIN from |-> [from |-> from[i], val |-> v, in |-> from[i]]])
        merged == FoldLeft(merge, tokens, multi)
        operands == [i \in DOMAIN prog.phi[b] |->
                        [from |-> prog.phi[b][i].from, val |-> prog.phi[b][i].val, in |-> b]]
    IN  IF multi = <<>> /\ prog.phi[b] = <<>> THEN nt
        ELSE IF ~needsControl THEN Fail(nt, "no control for a phi")
        ELSE IF merged.err # "" \/ prog.phi[b] = <<>> THEN merged
        ELSE Mux(merged, b, <<"phi", b>>, operands)

\* operands of an instruction, in a new node
Operator(nt, b, op, i) ==
    LET operand(acc, v) ==
            LET nt1 == Expr(acc.nt, b, v)
            IN  [nt |-> nt1, ins |-> Append(acc.ins, Output(nt1, b, v))]
        all == FoldLeft(operand, [nt |-> nt, ins |-> <<>>], i.args)
    IN  AddNode(all.nt, op, i.val, all.ins)

\* mutant: the variable is looked up without its block
ReadOfAnyBlock(both, b, i) ==
    LET made == Operator(both.net, b, i.op, i)
        n == Newest(made)
        result == IF i.op = "op" THEN made ELSE _add_block_en_to_control_if_required(made, b, n)
        k == Var(b, i.val)
        seen == {c \in BlocksOf(prog) : Var(c, i.val) \in DOMAIN both.net.cache}
    IN  IF i.op = "read" /\ seen # {}
        THEN IF b \in seen THEN both
             ELSE [both EXCEPT !.net = CacheAdd(@, k, @.cache[Var(CHOOSE c \in seen : TRUE, i.val)], FALSE)]
        ELSE [net |-> IF i.op = "write" THEN result ELSE CacheAdd(result, k, n, i.val \in phiCyclicArgs(b)),
              order |-> IF i.op = "op" THEN both.order ELSE _addOrderingToIoInBlock(both.order, b, n)]

\* A read whose value is in the cache is taken for one which was translated.
TranslateInstr(both, b, i) ==
    LET made == Operator(both.net, b, i.op, i)
        n == Newest(made)
        result == IF i.op = "op" THEN made ELSE _add_block_en_to_control_if_required(made, b, n)
    IN  IF i.op = "read" /\ Var(b, i.val) \in DOMAIN both.net.cache THEN both
        ELSE [net |-> IF i.op = "write" THEN result
                      ELSE CacheAdd(result, Var(b, i.val), n, i.val \in phiCyclicArgs(b)),
              order |-> IF i.op = "op" THEN both.order
                        ELSE _addOrderingToIoInBlock(both.order, b, n)]

\* mutant: a branch is taken whether or not the block is enabled
BranchOfAnyPass(nt, b, i, en, cond) ==
    LET s == prog.succ[b][i]
        nt1 == IF i > 1 THEN AddNode(nt, "not", b, <<cond>>)
               ELSE IF Len(prog.succ[b]) > 1 THEN Expr(nt, b, CondOf(b)) ELSE nt
        c == IF i > 1 THEN Newest(nt1)
             ELSE IF Len(prog.succ[b]) > 1 THEN nt1.cache[Var(b, CondOf(b))] ELSE en
        nt2 == IF IsCut(b, s) THEN nt1 ELSE CacheAdd(nt1, Token(b, s, "SLAVE"), c, FALSE)
    IN  [nt |-> CacheAdd(nt2, Token(b, s, "MASTER"), c, FALSE), cond |-> c]

\* branch number i of the block: its condition, on top of cond, the condition
\* built for the branches before it
BranchTo(nt, b, i, en, cond) ==
    LET s == prog.succ[b][i]
        conditional == Len(prog.succ[b]) > 1
        nt1 == IF i > 1 THEN AddNode(nt, "not", b, <<cond>>)
               ELSE IF conditional THEN Expr(nt, b, CondOf(b)) ELSE nt
        c == IF i > 1 THEN Newest(nt1)
             ELSE IF conditional THEN nt1.cache[Var(b, CondOf(b))] ELSE None
        both == AddNode(nt1, "and", b, <<c, en>>)
        nt2 == IF c # None /\ en # None THEN both ELSE nt1
        br == IF c = None THEN en ELSE IF en = None THEN c ELSE Newest(both)
        slave == Token(b, s, "SLAVE")
        nt3 == IF IsCut(b, s) THEN nt2 ELSE CacheAdd(nt2, slave, br, FALSE)
        nt4 == IF IsCut(b, s) /\ slave \notin DOMAIN nt2.cache THEN Fail(nt2, "no channel")
               ELSE CacheAdd(nt3, Token(b, s, "MASTER"), br, FALSE)
    IN  [nt |-> nt4, cond |-> c]

\* mutant: the value before the definition is handed on
PropagateInput(nt, b, s, v) ==
    LET nt1 == Seen(nt, Var(b, v))
        cur == IF Var(b, v) \in DOMAIN nt1.old THEN nt1.old[Var(b, v)] ELSE nt1.cache[Var(b, v)]
    IN  IF v \in inLiveVarsWithMultipleSrcBlocks(s) THEN nt1
        ELSE CacheAdd(nt1, Var(s, v), cur, FALSE)

\* a variable on the input of a successor, which may already be translated
PropagateVar(nt, b, s, v) ==
    LET nt1 == Seen(nt, Var(b, v))
        cur == nt1.cache[Var(b, v)]
        old == nt1.old[Var(s, v)]
    IN  IF v \in inLiveVarsWithMultipleSrcBlocks(s) THEN nt1
        ELSE IF Var(s, v) \notin DOMAIN nt1.old THEN CacheAdd(nt1, Var(s, v), cur, FALSE)
        ELSE IF old > 0 THEN Fail(nt1, "must be lazy")
        ELSE ReplaceLazy(nt1, old, cur)

to_hls_SsaBasicBlock_successors(nt, b) ==
    LET withEn == _collect_en_from_predecessor(nt, b)
        start == IF needsControl THEN withEn ELSE nt
        en == IF needsControl THEN start.blockEn[b][1] ELSE None
        branch(acc, i) ==
            LET s == prog.succ[b][i]
                to == BranchTo(acc.nt, b, i, en, acc.cond)
                propagate(a, v) == PropagateVar(a, b, s, v)
            IN  IF ~needsControl THEN acc
                ELSE IF to.nt.err # "" \/ IsCut(b, s) THEN to
                ELSE [to EXCEPT !.nt = FoldLeft(propagate, @, LiveSeq(b, s))]
        all == FoldLeft(branch, [nt |-> start, cond |-> None],
                        [i \in DOMAIN prog.succ[b] |-> i])
    IN  IF start.err # "" THEN start ELSE all.nt

\* finalize_block_out_of_pipeline_variable_outputs: the writes to the channels
FinalizeEdge(both, b, s) ==
    LET keys == (IF needsControl THEN <<Token(b, s, "MASTER")>> ELSE <<>>)
                \o [i \in DOMAIN LiveSeq(b, s) |-> Var(b, LiveSeq(b, s)[i])]
        write(acc, k) ==
            LET nt1 == Seen(acc.net, k)
                made == AddNode(nt1, "channelWrite", <<b, s, k>>, <<nt1.cache[k]>>)
            IN  [net |-> IF Len(k) = 2 /\ k[1] = "MASTER" /\ nt1.cache[k] < 0
                         THEN Fail(nt1, "no end of control") ELSE made,
                 order |-> _addOrderingToIoInBlock(acc.order, b, Newest(made))]
    IN  IF IsCut(b, s) THEN FoldLeft(write, both, keys) ELSE both

-----------------------------------------------------------------------------
Block == collect_all_blocks[at]

\* the exception of a failed assertion ends the compilation
StepTo(next) == step' = IF net'.err # "" \/ order'.err # "" THEN "failed" ELSE next

Init ==
    /\ \E shape \in Shapes : prog \in ProgramsOf(shape)
    /\ ExtractInit(EdgesOf(prog))
    /\ live = {}
    /\ needsControl = FALSE
    /\ at = 1
    /\ step = "analyze"
    /\ net = EmptyNet
    /\ order = EmptyOrder

Extract == ExtractNext /\ UNCHANGED translateVars

\* SsaSegmentToHwPipeline.extract_pipeline after the extractor
Analyze ==
    /\ stage = "extracted" /\ step = "analyze"
    /\ live' = ssa_liveness_edge_variables(prog)
    /\ needsControl' = _get_SsaBasicBlock_meta(prog)
    /\ step' = "sync"
    /\ UNCHANGED <<extractVars, prog, at, net, order>>

ResolveIoAndSync ==
    /\ step = "sync"
    /\ LET block(acc, b) == FoldLeft(LAMBDA nt, q : InitEdge(nt, q, b), acc, prog.pred[b])
       IN  net' = FoldLeft(block, net, collect_all_blocks)
    /\ UNCHANGED <<extractVars, prog, live, needsControl, at, order>>
    /\ StepTo("prepare")

PrepareControl ==
    /\ step = "prepare"
    /\ net' = _prepare_SsaBasicBlockControl(net, Block)
    /\ UNCHANGED <<extractVars, prog, live, needsControl, at, order>>
    /\ StepTo("phis")

TranslatePhis ==
    /\ step = "phis"
    /\ net' = to_hls_SsaBasicBlock_phis(net, Block)
    /\ order' = [collectBlockOrderingDependencies(order, Block)
                    EXCEPT !.first = @ @@ (Block :> None)]
    /\ UNCHANGED <<extractVars, prog, live, needsControl, at>>
    /\ StepTo("body")

TranslateBody ==
    /\ step = "body"
    /\ LET instr(acc, i) == IF acc.net.err # "" THEN acc ELSE TranslateInstr(acc, Block, i)
           both == FoldLeft(instr, [net |-> net, order |-> order], prog.body[Block])
       IN  /\ net' = both.net
           /\ order' = IF AllPredsResolved(both.order, Block)
                       THEN _afterBlockOrderingDependenciesComplete(both.order, Block)
                       ELSE both.order
    /\ UNCHANGED <<extractVars, prog, live, needsControl, at>>
    /\ StepTo("successors")

TranslateSuccessors ==
    /\ step = "successors"
    /\ net' = IF prog.succ[Block] = <<>> THEN net
              ELSE to_hls_SsaBasicBlock_successors(net, Block)
    /\ UNCHANGED <<extractVars, prog, live, needsControl, order>>
    /\ IF at = Len(collect_all_blocks)
       THEN StepTo("finalize") /\ UNCHANGED at
       ELSE StepTo("prepare") /\ at' = at + 1

\* finalize_out_of_pipeline_variables; at the end "All outputs should be
\* already resolved"
Finalize ==
    /\ step = "finalize"
    /\ LET block(acc, b) == FoldLeft(LAMBDA nt, s : FinalizeEdge(nt, b, s), acc, prog.succ[b])
           both == FoldLeft(block, [net |-> net, order |-> order], collect_all_blocks)
           unresolved == \E k \in DOMAIN both.net.cache : both.net.cache[k] < 0
       IN  /\ net' = IF unresolved THEN Fail(both.net, "unresolved") ELSE both.net
           /\ order' = both.order
    /\ UNCHANGED <<extractVars, prog, live, needsControl, at>>
    /\ StepTo("done")

Next ==
    \/ Extract
    \/ Analyze
    \/ ResolveIoAndSync
    \/ PrepareControl
    \/ TranslatePhis
    \/ TranslateBody
    \/ TranslateSuccessors
    \/ Finalize

Spec == Init /\ [][Next]_vars /\ WF_vars(Next)
=============================================================================
