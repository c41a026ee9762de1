---------------------------- MODULE SsaSemantics ----------------------------
(***************************************************************************)
(* What the netlist of module SsaToNetlist has to compute: the program     *)
(* itself.                                                                 *)
(*                                                                         *)
(* A pass is one token that goes through the pipeline.  It comes from the  *)
(* start of the program or over a cut edge, takes the branches given by    *)
(* the conditions, and ends at a cut edge or at the end of the program.    *)
(* The same pass is run through the SSA code and through the netlist.      *)
(***************************************************************************)
EXTENDS SsaToNetlist

Branching == {b \in BlocksOf(prog) : Len(prog.succ[b]) > 1}
Cuts == {e \in removed : e[1] \in BlocksOf(prog)}
FromStart == <<0, Start>>

\* taken[b] is the value of the condition of b
Passes == [entry : {FromStart} \cup Cuts, taken : [Branching -> BOOLEAN]]

-----------------------------------------------------------------------------
(* The pass in the program *)

EdgeTaken(p, b) ==
    <<b, prog.succ[b][IF b \in Branching /\ ~p.taken[b] THEN 2 ELSE 1]>>

\* the edges of the pass, its entry first
RECURSIVE Trail(_, _)
Trail(p, edgesSoFar) ==
    LET b == edgesSoFar[Len(edgesSoFar)][2]
    IN  IF prog.succ[b] = <<>> THEN edgesSoFar
        ELSE IF EdgeTaken(p, b) \in removed THEN Append(edgesSoFar, EdgeTaken(p, b))
        ELSE Trail(p, Append(edgesSoFar, EdgeTaken(p, b)))

\* env extended by what block b defines when it is entered from q
Execute(env, q, b) ==
    LET valueOf(e, v) == IF v = Const THEN Const ELSE e[v]
        operand == CHOOSE o \in ToSet(prog.phi[b]) : o.from = q
        afterPhi == IF prog.phi[b] = <<>> THEN env
                    ELSE (<<"phi", b>> :> valueOf(env, operand.val)) @@ env
        instr(e, i) ==
            (i.val :> IF i.op = "read" THEN i.val
                      ELSE <<"of", i.val, valueOf(e, i.args[1])>>) @@ e
    IN  FoldLeft(instr, afterPhi, prog.body[b])

\* the path and the values at its end; the block of a pass is executed once
Reference(p) ==
    LET trail == Trail(p, <<p.entry>>)
        ends == <<>> # prog.succ[trail[Len(trail)][2]] /\ Len(trail) > 1
                /\ trail[Len(trail)] \in removed
        path == IF ends THEN SubSeq(trail, 1, Len(trail) - 1) ELSE trail
        start == IF p.entry = FromStart THEN <<>>
                 ELSE [v \in LiveOn(p.entry[1], p.entry[2]) |-> <<"in", p.entry, v>>]
        step1(env, e) == Execute(env, e[1], e[2])
    IN  [blocks |-> {e[2] : e \in ToSet(path)},
         exit |-> IF ends THEN trail[Len(trail)] ELSE FromStart,
         env |-> FoldLeft(step1, start, path)]

-----------------------------------------------------------------------------
(* The pass in the netlist *)

\* value of a node in pass p, from the values of its inputs
ValueOf(p, n, in) ==
    CASE n.op = "starter" -> p.entry = FromStart
      [] n.op = "channelRead" /\ n.tag[3][1] = "SLAVE" -> p.entry = <<n.tag[1], n.tag[2]>>
      [] n.op = "channelRead" /\ n.tag[3][1] = "var" ->
            <<"in", <<n.tag[1], n.tag[2]>>, n.tag[3][2][2]>>
      [] n.op = "const" -> Const
      [] n.op = "read" -> IF n.tag[1] = "cond" THEN p.taken[n.tag[2]] ELSE n.tag
      [] n.op = "not" -> ~in[1]
      [] n.op = "and" -> in[1] /\ in[2]
      [] n.op = "or" -> in[1] \/ in[2]
      [] n.op = "sync" -> in[1]
      [] n.op \in {"write", "op"} -> <<"of", n.tag, in[1]>>
      [] n.op = "channelWrite" -> in[1]
      [] n.op = "mux" ->
            LET last == (Len(in) + 1) \div 2
                chosen == CHOOSE i \in 1..last :
                            /\ i = last \/ in[2 * i - 1]
                            /\ \A j \in 1..(i - 1) : ~in[2 * j - 1]
            IN  in[IF chosen = last THEN Len(in) ELSE 2 * chosen]
      [] OTHER -> FALSE

\* inputs that carry data or control; the rest is synchronization
DataInputs(n) ==
    CASE n.op \in {"sync", "write", "channelWrite"} -> SubSeq(n.ins, 1, 1)
      [] n.op \in {"read", "status", "gate"} -> <<>>
      [] OTHER -> n.ins

\* Nodes whose inputs are all known get their value; those of a cycle and
\* those which read a placeholder never do.
RECURSIVE Settle(_, _)
Settle(p, known) ==
    LET ready == {n \in DOMAIN net.node \ DOMAIN known :
                    ToSet(DataInputs(net.node[n])) \subseteq DOMAIN known}
        in(n) == [i \in DOMAIN DataInputs(net.node[n]) |-> known[DataInputs(net.node[n])[i]]]
    IN  IF ready = {} THEN known
        ELSE Settle(p, known @@ [n \in ready |-> ValueOf(p, net.node[n], in(n))])

NodesOf(ops) == {n \in DOMAIN net.node : net.node[n].op \in ops}

-----------------------------------------------------------------------------
(* Properties.  They speak of programs which were translated to the end.  *)

Translated == step = "done"

BlockOf(n) == net.node[n].tag[IF net.node[n].op = "channelWrite" THEN 1 ELSE 2]
Position(b) == CHOOSE i \in DOMAIN collect_all_blocks : collect_all_blocks[i] = b
Later(b, c) == Position(b) > Position(c)

(* Each node, key and edge refers to what exists. *)
NetlistTypeOK ==
    LET outputs == -Len(net.keys)..Len(net.node)
    IN  /\ ExtractTypeOK
        /\ step \in {"analyze", "sync", "prepare", "phis", "body", "successors",
                     "finalize", "done", "failed"}
        /\ at \in DOMAIN collect_all_blocks
        /\ \A n \in DOMAIN net.node : ToSet(net.node[n].ins) \subseteq outputs
        /\ \A k \in DOMAIN net.cache : net.cache[k] \in outputs \ {None}
        /\ \A k \in DOMAIN net.old : net.old[k] \in outputs \ {None}
        /\ order.edge \subseteq (1..Len(net.node)) \X (1..Len(net.node))

(* Every input of every node has a driver.  The check at the end of the    *)
(* translation (finalize_out_of_pipeline_variables) looks at the cache     *)
(* only; a placeholder which was moved out of the cache (oldPhiCyclicArgs) *)
(* or replaced by another placeholder is not seen by it.                   *)
EveryInputHasDriver ==
    Translated => \A n \in DOMAIN net.node : \A i \in DOMAIN net.node[n].ins :
                    net.node[n].ins[i] > 0

\* the enable of an IO node; without control it is always enabled
EnableOf(n, value) ==
    IF needsControl THEN value[net.node[n].ins[Len(net.node[n].ins) - 1]] ELSE TRUE

FollowsPath(p) ==
    LET ref == Reference(p)
        value == Settle(p, <<>>)
    IN  /\ \A n \in NodesOf({"read", "write"}) :
                EnableOf(n, value) = (BlockOf(n) \in ref.blocks)
        /\ \A n \in NodesOf({"channelWrite"}) : net.node[n].tag[3][1] = "MASTER" =>
                value[n] = (ref.exit = <<net.node[n].tag[1], net.node[n].tag[2]>>)

(* In every pass the reads and writes of a block are enabled just when the *)
(* program comes through the block, and of the cut edges only the one the  *)
(* program leaves through gets the token.                                  *)
EnablesFollowPath == Translated => \A p \in Passes : FollowsPath(p)

(* Values which the code, as it is, looks up wrongly:                      *)
(*  - a block reads a value which is also live on an edge into the block;  *)
(*  - an operand of a phi is the phi itself;                               *)
(*  - a value that a later block renews is merged in an earlier block.     *)
ReadsAgain ==
    \E b \in BlocksOf(prog) : \E i \in ToSet(prog.body[b]), q \in Preds(b) :
        i.op = "read" /\ i.val \in LiveOn(q, b)
PhiOfItself ==
    \E b \in BlocksOf(prog) : \E o \in ToSet(prog.phi[b]) : o.val = <<"phi", b>>
RenewedAfterMerge ==
    \E b \in BlocksOf(prog) : \E v \in inLiveVarsWithMultipleSrcBlocks(b), q \in Preds(b) :
        Later(q, b) /\ v \in Provides(prog, q) /\ \E r \in Preds(q) : v \in LiveOn(r, q)

ValuesOf(p) ==
    LET ref == Reference(p)
        value == Settle(p, <<>>)
    IN  /\ \A n \in NodesOf({"write"}) : BlockOf(n) \in ref.blocks =>
                n \in DOMAIN value /\ value[n] = ref.env[net.node[n].tag]
        /\ \A n \in NodesOf({"channelWrite"}) :
                /\ net.node[n].tag[3][1] = "var"
                /\ ref.exit = <<net.node[n].tag[1], net.node[n].tag[2]>>
                => n \in DOMAIN value /\ value[n] = ref.env[net.node[n].tag[3][2][2]]

(* In every pass, what is written to the outputs and to the channel of the *)
(* edge the program leaves through is what the program computes, from what *)
(* came in through the channels: "must use the value from input, the       *)
(* places after definition must use latest value of variable".             *)
ValuesReach == Translated => \A p \in Passes : ValuesOf(p)

(* The same for the programs without the three mistaken lookups.           *)
ValuesReachOrdinary ==
    ~ReadsAgain /\ ~PhiOfItself /\ ~RenewedAfterMerge => ValuesReach

(* No read of the program is lost, although a read is skipped when its     *)
(* value is found in the cache.                                            *)
EveryReadIsThere ==
    Translated /\ ~ReadsAgain =>
        \A i \in Instrs(prog) : i.op = "read" => \E n \in NodesOf({"read"}) : net.node[n].tag = i.val

(* Programs which end in a failed assertion, see RejectedPrograms.         *)
MergeAtLoopEntry ==
    \E b \in BlocksOf(prog) : isCycleEntryPoint(b) /\ inLiveVarsWithMultipleSrcBlocks(b) # {}
LoopEnteredFromLater ==
    \E b \in BlocksOf(prog) : isCycleEntryPoint(b) /\ \E q \in ForwardPreds(b) : Later(q, b)
ReadAfterItsMerge ==
    \E b, c \in BlocksOf(prog) : \E i \in ToSet(prog.body[b]) :
        /\ i.op = "read"
        /\ <<b, c>> \in edges \ removed
        /\ Later(b, c)
        /\ i.val \in inLiveVarsWithMultipleSrcBlocks(c)
OrderedTwice ==
    \E b \in BlocksOf(prog) : \E s, t \in ToSet(prog.succ[b]) :
        s # t /\ Later(b, s) /\ Later(b, t) /\ ~IsCut(b, s) /\ ~IsCut(b, t)

(* The translation fails for these programs only, and it never translates  *)
(* one of the first three kinds: they are refused, not mistranslated (but a*)
(* read which is skipped anyway, ReadsAgain, does not fail).               *)
RejectedPrograms ==
    /\ step = "failed" =>
            MergeAtLoopEntry \/ LoopEnteredFromLater \/ ReadAfterItsMerge \/ OrderedTwice
    /\ Translated => ~MergeAtLoopEntry /\ ~LoopEnteredFromLater
    /\ Translated /\ ReadAfterItsMerge => ReadsAgain

-----------------------------------------------------------------------------
(* Order of IO *)

Io == NodesOf({"read", "write", "channelWrite"})

\* in a pass which performs both, n comes before m
Before(n, m) ==
    /\ net.node[n].op # "channelWrite"
    /\ \/ BlockOf(n) = BlockOf(m) /\ n < m
       \/ BlockOf(n) # BlockOf(m) /\ Reaches(edges \ removed, BlockOf(n), BlockOf(m))

RECURSIVE OrderedAfter(_)
OrderedAfter(S) ==
    LET next == S \cup {e[2] : e \in {x \in order.edge : x[1] \in S}}
    IN  IF next = S THEN S ELSE OrderedAfter(next)

(* The scheduler knows the order of any two IO operations of a pass, as    *)
(* "latest ordering output ports from all IO instructions from all previous*)
(* blocks" are collected.                                                  *)
IoOrderKept ==
    Translated => \A n \in Io : LET after == OrderedAfter({n})
                               IN  \A m \in Io : Before(n, m) => m \in after

(* The same for programs in which each block comes after the sources of the*)
(* uncut edges into it.                                                    *)
IoOrderKeptOrdinary ==
    (\A b \in BlocksOf(prog) : \A q \in ForwardPreds(b) : ~Later(q, b)) => IoOrderKept

(* The order is one the program allows, hence without a cycle ("the        *)
(* ordering dependence is cycle free"); only the writes to the channels of *)
(* the edges out of the same block, which exclude each other, are ordered  *)
(* without need.                                                           *)
IoOrderFollowsProgram ==
    Translated => \A e \in order.edge :
        Before(e[1], e[2]) \/ (BlockOf(e[1]) = BlockOf(e[2]) /\ e[1] < e[2])
=============================================================================
