# Specifications of hwtHls

hwtHls is a high level synthesis compiler written in Python: it turns a
program (statements or the bytecode of a Python function) into SSA, SSA into a
netlist of operations and IO accesses, schedules the netlist in time and
generates an RTL architecture of pipelines and finite state machines.  This
directory holds TLA+ models of it, the TLC configurations which check them on
small instances and TLAPS proofs about them for all instances.

Two kinds of behaviour are specified:

 * **the compiler** itself: single threaded algorithms on graphs, recursive or
   driven by work lists, in which the order of visits, the rounding of times
   and caches are what goes wrong.  Each stage of it has a model, from the
   source program to the architecture (the table shows which), and each is
   compared with what it has to keep: the program, the netlist, the schedule;
 * **the circuit it generates**: the combinational control equations which the
   allocator writes down (enables, valid flags, ready chains, state
   transitions).  All stages and all interfaces work concurrently, the partners
   stall at any time, and this is where tokens are lost, repeated or stuck.
   One step of these models is one rising edge of the clock, computed from the
   equations in `src/hwtHls/allocator`.

## Inventory

| component | state | operations | interacts with | hard behaviour | what makes it correct |
|---|---|---|---|---|---|
| **HLS scheduler** `scheduler/scheduler.py`, `netlist/nodes/node.py`, `io.py`, `clk_math.py` | `scheduledIn/Out` of each node, the ASAP copy | ASAP, ALAP compaction, IO limit, move to clk 0, checks | calls of each node; its times select stages and states | recursion over a graph in any order, cycles, rounding at clk boundaries, negative times | a use is not before its definition; no node crosses a clk; one access to an interface per clk; setup time of registers; latency kept; it ends |
| **Pipeline synchronization** `allocator/pipelineContainer.py`, `architecturalElement.py`, `connectionsOfStage.py` | valid flag and registers of each stage | load, valid, ready chain, transfer, skip | interfaces (stream nodes), other elements | all stages at once, stalls anywhere, conditional accesses | tokens in order, atomic stages, no needless stall, progress, IO of the loop |
| **FSM synchronization** `allocator/fsmContainer.py`, `netlist/analysis/fsm.py` | state register, channels, registers of values | transition, channel write, register load, transfer | same | stall of a state while registers are written each clk; priority of transitions; gaps between clks | jumps taken, values and channels survive stalls, IO of the sequential program |
| **Register chains** `allocator/time_independent_rtl_resource.py` | `valuesInTime`, persistence ranges | lazy `get(time)` | both of the above, the allocator | times just at a boundary; shared registers | the value read in a clk is that of the same token; each register is known to the stage that holds it |
| **Allocator** `allocator/allocator.py`, `interArchElementNodeSharingAnalysis.py`, `netlist/analysis/pipeline.py` | elements, owner of each node, shared outputs | discover, connect | schedule, elements | values used by elements in different clks, handshakes between them | each value crosses with exactly one handshake, no element misses a token |
| **Backward edges, loop gates, starter** `netlist/nodes/backwardEdge.py`, `loopHeader.py`, `programStarter.py` | buffer, token of a loop, start flag | push, pop, enter, exit | pipelines and FSMs | capacity, two entries at once, start during a stall | one token in a loop, no deadlock for lack of space |
| **Netlist ports** `netlist/nodes/ports.py`, `ssa/translation/toHwtHlsNetlist/opCache.py` | links, lazy outputs, operation cache | get, add, replace | SSA to netlist | replacement of a lazy output which is a key of the cache or an input of others | no reference to a replaced output is left |
| **SSA to netlist** `ssa/translation/toHwtHlsNetlist/*.py` | block meta data, enables, ordering, pipelines | translate a block, materialize, order IO, cut the graph | SSA analyses, ports | back edges, order of blocks, cached enables | IO in program order, exactly the taken branches enabled |
| **SSA analyses** `ssa/analysis/*.py` | threads of blocks, live sets | fixpoints | SSA to netlist | merging of sets while iterating | fixpoint reached, equal to the definition |
| **Statement frontend** `ssa/translation/fromAst/*.py` | current definitions, incomplete phis, sealed blocks | write, read, seal, remove trivial phi | SSA objects | recursive removal of phis, loops | each read has the reaching definition |
| **Bytecode frontend** `ssa/translation/fromPython/*.py` | control flow graph with unrolled loops, block seals | add edges, copy loop bodies, mark generated | statement frontend | a block sealed too early or never | a block is sealed just when all its predecessors are known |
| **AXI-stream lowering** `ssa/transformation/axiStreamReadLowering/*.py` | read graph, possible offsets | detect, propagate offsets, rewrite | SSA | loops over reads of other widths | all reachable offsets and only those |
| **SSA passes, netlist passes** | the graph | dead nodes, merge of syncs, partial drivers | | iteration while modifying | behaviour kept |
| **LLVM passes** `ssa/llvm/**` | constant bits of values, used bits | analyses over uses | | widths, concats, cycles of phis | only really constant bits are removed |
| **Platforms, HlsPipeline, dumps** | tables | | | | constants of the models, or output for the user |

`PROJECT.json` lists each of them with its files and status, and the hazards at
their lines with the properties which guard against them.

## Modules

| module | what it is |
|---|---|
| `SourceSyntax` | the programs of a thread, and what runs after what in them |
| `SourceProgram` | abstract: a program runs, statement by statement, on plain variables |
| `SsaConstruction` | blocks, phis and `MemorySSAUpdater` |
| `AstToSsa` | the statement frontend, a `visit_` method per step |
| `PyBytecode` | the bytecode of a function (external), its blocks and loops |
| `BlockPredecessorTracker` | which blocks of the bytecode are known, with the copies of loops |
| `FromPython` | the bytecode frontend, an instruction or half a jump per step |
| `Frontend`, `MCFrontend` | a program is translated by its frontend and the SSA is run; the programs |
| `PipelineExtractor` | the cut of the control flow graph, an iteration per step |
| `PipelineExtractorProofs` | proofs about it |
| `SsaToNetlist` | the translation of SSA to the netlist, part of a block per step; extends `PipelineExtractor` |
| `SsaSemantics` | what the program computes, what the netlist computes, and the properties that compare them |
| `MCSsaToNetlist` | all small programs it is checked on |
| `HlsScheduler` | the scheduler, a node per step |
| `HlsSchedulerProofs` | proofs about it: checks and clks, register times and cycles, accesses to interfaces and the earliest times |
| `ArchElements` | the split of a scheduled netlist into FSMs and a pipeline |
| `RtlDatapath` | the register chains and RTL objects of an element, node by node |
| `HlsAllocator` | `allocate()` after `schedule()`: extends and composes the three above |
| `HlsAllocatorProofs` | proofs about it: crossing values, drivers of outputs, the registers operands pass |
| `HlsAllocatorRegisterProofs` | proofs about it: each register of a pipeline is listed in its stage |
| `HlsAllocatorFailureProofs` | proofs about it: on which netlists `allocate()` can fail, and where |
| `MCHlsScheduler` | the families of netlists both are checked on |
| `PipelineSync` | the control of a pipeline, a clock per step |
| `PipelinedLoop` | abstract: what a pipelined loop does on its interfaces |
| `MCPipelineSync` | a pipeline |
| `PipelineSyncProofs` | its invariants; it implements `PipelinedLoop` |
| `FsmSync` | the control and the registers of an FSM, a clock per step |
| `FsmProgram` | abstract: the sequential program of an FSM |
| `MCFsmSync` | four FSMs |
| `FsmSyncProofs`, `FsmProgramProofs` | its invariants; it implements `FsmProgram` |

### SsaConstruction, AstToSsa

The object graph of blocks, phis and definitions is one record `ssa`, and a
method that modifies it is an operator which returns the next one.  `blk[b].inc`
is `incompletePhis`, `def` is `currentDef`, `phi[n].rev` is `currentDefRev`, and
`gone` marks a phi which was removed from its block: whoever still refers to it
refers to nothing, and an assertion of the code (or a value that is not in the
SSA) sets `err`.  `TryRemoveTrivialPhi`, `ReplaceUses` and `Redirect` keep the
order in which users and definitions are redirected, because a recursive removal
may remove the value that an outer call is about to return.

The recursion of the `visit_` methods is the sequence `todo` of what is left to
do; an action is one method, or the part of it behind the statements nested in
it.  `cur` is the block the visitor extends and `loopStack` is `_loop_stack`.

### PyBytecode, BlockPredecessorTracker, FromPython

`Compile` is CPython's part: the code of a function with jumps to jumps resolved.
`BlockStarts`, `BlockEnd` and `BlockEdges` are `extractBytecodeBlocks` and
`DetectLoops` the search of loops in it.  The tracker `T` is the record of
`generated`, `notGenerated`, its edges and the scope; `AddGenerated`,
`AddNotGenerated`, `CfgAddPrefixToLoopBody` and `CfgCopyLoopBody` return it with
the labels that are to be sealed.  In `FromPython` `blockTracker`,
`labelToBlock`, `hwEvaluatedLoops` and `frame` are the attributes of the
translator; `Jump` and `Jumped` are `_getOrCreateSsaBasicBlockAndJump` before and
behind the translation of the successor, which restores the scopes.  There is one
`frame` for the whole recursion, as in the code.

A statement without a jump is one instruction; the stack holds only iterators
and their values.

### Frontend and SourceProgram

`Frontend` lets one of the frontends translate `prog` and then runs the SSA:
`pc` is the place in it, `env` the values of phis and instructions.  `obs` is
what an observer sees: the statement executed last and the values of its
operands.  `SourceProgram` knows no blocks and no phis; it has the point reached
in the text and a memory of the variables.  `Refines` is the abstract
specification with the mapping `at <- obs.at`, `mem <- obs.mem` and so on: every
step of the run is a step of the program or, at a jump, a stutter.  The value of
an operation is named by its statement and by whether it was executed an odd
number of times, which tells an iteration from the one before it.

### HlsScheduler

`scheduled`, `scheduledIn` and `scheduledOut` are the attributes of the nodes
(`None` is "not in `scheduled`"), `asapSchedule` is the copy the compaction
starts from, `phase` is the place in `schedule()`.  The methods of the nodes
are memoised recursions; a step schedules one node of which everything the
recursion would visit before is scheduled (`AsapReady`, `AlapReady`).  Every
order of the recursion is a behaviour, and as a node is written once, the
results in between are the same.  `ScheduleAsap`, `ScheduleAlapCompaction`,
`ScheduleConst`, `MoveToFirstClk` and the checks are the parts of
`scheduler.py`; a `TimeConstraintError`, an `AssertionError` and the cycle
report are final phases.  `CycleInGraph` is that no node is ready, while the code
waits for Python's `RecursionError`: an acyclic netlist deeper than the recursion
limit, which is refused too, is not modelled.  `IoTime(t, k)` is the time after k iterations of the
`while` loop of an IO node.

Times are integers, as in the code.  All inputs of a node have one time and all
outputs have one time, because `latency_pre` is one number and `latency_post`
is 0 on each platform of the repository.

### ArchElements, RtlDatapath, HlsAllocator

`HlsAllocator` continues where the scheduler is done; `phase` stays, `allocPhase`
is the place in `allocate()`.  The code is loops over lists, in which a call
recurses through the dependencies of a node.  Both are the sequence `todo` of
what is left to do in a phase: a step takes the first task and puts the tasks it
consists of in its place.  So a stage becomes its nodes, a node its
`allocateRtlInstance` with what follows it in the loop, an operator its operands
and then its output, a connection the four calls that make it.  An exception is a
last value of `allocPhase`.

`FloodNetInSameCycle`, `DiscoverState` and `AddNodeToPipeline` collect `element`,
an `IoFsm` or the pipeline, which comes to `archElements`; `alreadyUsed` is the
set of that name, shared by all floods.  The nodes of a set come in an arbitrary
but fixed order (`Listed`).  `connections` are the inputs driven from another
element; `Declare` gives each element that uses such a value an object for the
time of the first use, and moves it when the FSM of the value has no state then.
`netNodeToRtl` has the time and the length of each `TimeIndependentRtlResource`,
`stageSignals` what is in `ConnectionsOfStage.signals`, `uses` which register of
a chain each user got, `drives` the assignments to outputs.  `Get` extends a chain
as the code does, with the epsilon it adds; `AfterOutputUsed` registers the new
part of the chain in its stages; `ExtendValidity` appends stages to a pipeline;
`syncAdded` are the handshakes.

Every node is in one clk (`NodesFitInClk`, which is proved), so parts of nodes
and their port synonyms do not appear.

### PipelineSync

`valid[s]` is the register `stage<s>_valid`, `reg[s]` what the registers behind
stage s hold: the token and the items it has read.  `Ack`, `Vld`, `Rd`, `en`
and `LoadEnable` are the equations of `allocateSyncForStage`; `Satisfied`,
`SkipWhen`, `ExtraCond` and `Transfer` are the stream node of a stage, after
the merge of the conditions of all accesses to an interface.  The combinational
signals are the solution of `Wires`: the ready chain has no cycle, so it is
unique.  `Offer`, `Accept` and `Withdraw` are the partners of the interfaces.

A value is the number of its item, and the conditions of the accesses are those
of the token (`plan`).  Registers which were never loaded are token 0, with any
plan: they may look like any token and must not matter.

### FsmSync

`st` is the state register, `chan` the registers of local backward edges,
`reg` the registers of values used in later states.  `LoadCandidates` is the
condition under which `allocateSync` puts the load of a register into a state,
with the index computed as in the code; `Loads` is what `seenRegs` leaves of
it.  `Transitions` are the entries of `transitionTable` whose condition holds
and `NextState` the if-chain sorted by destination.  What is written to a
channel and the conditions of accesses are arbitrary Boolean functions of the
values in the state.  `last` and `sent` are history variables: the value when
the state was last left.

### PipelineExtractor and SsaToNetlist

A program is a control flow graph with phis and instructions; `prog` is chosen
in `Init` and never changes.  `PipelineExtractor` cuts the graph: `g` is the
`DiGraph`, `sccs` the list of components, `degree` the degrees, measured once.
`Listings` are all orders in which networkx may list components.  Then
`SsaSegmentToHwPipeline` and `SsaToHwtHlsNetlist` go through the blocks in the
order of `collect_all_blocks`; `step` is the place in `to_hls_SsaBasicBlock`.

`net.node` is the list of nodes with their inputs, `net.cache` is
`_to_hls_cache`, `net.old` is `oldPhiCyclicArgs`.  A positive number is the
output of a node, a negative one is an `HlsNetNodeOutLazy`; `net.keys` are its
`keys_of_self_in_cache` and `net.replaced` those with `replaced_by`.  What a
placeholder does not know when it is replaced (keys and inputs which another
placeholder moved to it) is lost as in `ports.py`.  `order` has
`_blockOrderingSync`, `_firstIoAccesOfBlock` and the ordering edges.  A failed
assertion sets `err` and ends the translation (`step = "failed"`).

Values are identified by their kind and block.  Types, names, slices of
interfaces, operators other than one with a single operand, and the stream
names are left out; a branch condition is a value read by its block.  Whether a
block needs control spreads to the whole graph, so `needsControl` is one flag;
`requiresStarter` is decided when the block is visited.

`SsaSemantics` runs the same *pass* through both: a token that comes from the
start or over a cut edge, takes the branches given by the conditions, and ends
at a cut edge or at the end.  `Reference` executes the SSA, `Settle` evaluates
the netlist node by node (a mux as the priority chain it becomes, the loop gate
as transparent).  The properties compare the enables, the values written and
the order of IO.

### Abstract specifications

`PipelinedLoop` knows no stages' registers and no handshakes: accesses on one
interface come in the order of the iterations, those of one iteration in the
order of stages, those of one stage at once, and a write has the values its
iteration has read.  `PipelineSync` implements it with the identity mapping.
`FsmProgram` walks through states, performs the accesses of each at once with
the values received so far, and goes to a state which received a 1 or to the
next one; it has no stalls and no registers.  `FsmSync` implements it.
`SourceProgram` is the program as its author reads it, and the SSA of both
frontends implements it.  For the
translation of SSA the abstract program is `Reference` of `SsaSemantics`, a
function of the program and the pass: there is one translation and many passes,
so the comparison is an invariant of the finished netlist.

## Runs

| run | instance | shows |
|---|---|---|
| `frontend` | 1075 programs of two variables: statement objects (all small bodies in `while`, `for`, nested loops, chains of `if` with `break`) and Python functions (hardware and compile time loops and branches in each other, `break`, `continue`, indexed accesses) | `PhiPerPredecessor`, `MinimalPhis`, `RejectedPrograms`, `IterationSeen`, `Refines` |
| `scheduler` | 7502 netlists of 5 nodes: arithmetic with constants and loop gates and delays below, at and above the usable part of the period; cyclic ones; accesses to three interfaces with operators, conditions, a constant or a gate in between, under any ordering.  Scheduled, then allocated | `TypeOK`, `ChecksNeverFail`, `IoLimitKept`, `NodesFitInClk`, `AsapIsEarliest`, `SetupTimeKept`, `ScheduleStartsInFirstClk`, `CycleIffReported`, `Terminates`; `ValueOfItsClk`, `RegistersLoaded`, `WritesDrivenOnce`, `CrossedWithHandshake`, `AllocationRejected` |
| `scheduler_latency` | the arithmetic family | *violated*: `LatencyKept` |
| `scheduler_iolimit` | the IO family | *violated*: `IoLimitOfSchedule` |
| `pipeline_sync` | 5 stages (the first unsynchronized, the last without IO), 6 interfaces of four kinds, conditional and exclusive accesses, 3 tokens, partners which may withdraw | `TokensInOrder`, `StageIsAtomic`, `StallsOnlyForIo`, `LoopSpec`, `AllTokensFinish` |
| `fsm_sync` | 4 states, nested loops with two channels, two values kept, exclusive writes, a conditional write; 6 items per interface | `ReadsWhatWasSent`, `PersistentUntilEnd`, `JumpTaken`, `ProgramSpec`, `RunsUntilUsedUp` |
| `fsm_jump` | a loop behind a first state (as `WriteFsmPrequel` of `tests/io/ioFsm2.py`, with reads) | *violated*: `JumpTaken` |
| `fsm_stall` | `WriteFsmIf` of `tests/io/ioFsm2.py` | *violated*: `ReadsWhatWasSent` |
| `fsm_gap` | states in clks 0, 2 and 3 | *violated*: `PersistentUntilEnd` |
| `ssa_to_netlist` | 22984 programs: all reducible, simplified graphs of 3 and 4 blocks; at most two blocks define, change or write a variable | `ForwardIsAcyclic`, `EveryInputHasDriver`, `EnablesFollowPath`, `ValuesReachOrdinary`, `EveryReadIsThere`, `RejectedPrograms`, `IoOrderKeptOrdinary`, `IoOrderFollowsProgram` |
| `ssa_values` | graphs of 3 blocks, one block touches the variable | *violated*: `ValuesReach` |
| `ssa_io_order` | graphs of 4 blocks | *violated*: `IoOrderKept` |

**Bounds.** The scheduler handles a node with its neighbours and, for IO, with
the chain of accesses before it; five nodes give chains of four edges,
reconvergence, interfaces interleaved and a negative minimal time of each size
relative to the period.  They are also enough for two FSMs, or an FSM with gaps
between its states and a pipeline, that exchange values in both directions.  The
period of 10 with a register time of 4 leaves 6 for operators; an operator of 2
shares a clk with another one, one of 5 fills the clk of the compaction, one of 6
fits only in ASAP and one of 10 in none.  The register time is more than 3 times
epsilon, which is 1 here: epsilon is added along a chain up to three times, and
with a register time of 3 the sum just leaves the clk, so that
`extendValidityOfRtlResource` goes one clk too far.  In the code epsilon is one
step of the resolution of times (10 ps) and a register takes many of them, so
this is an effect of the small numbers only.

The frontends treat variables separately (a phi merges one variable), but their
removal meets phis of other variables through copies; two variables and loops in
two levels give phis that use each other in a circle.  A compile time loop has
two iterations (or none): the first one gets its labels by renaming, each other
one by a copy.  The programs are not all programs of a size, but all the
statements in all the places where the translation differs (`MCFrontend`).

A pipeline's equations connect neighbouring stages; the five stages have a first
one, three in the middle and a last one, and three tokens fill every pair of
neighbours in every pattern of bubbles.  In the FSM six
items allow two iterations of the outer loop with repeated inner ones, so that
each register and channel is overwritten.  The data does not matter beyond the
number of the item, as no equation looks at it except the conditions, and those
are chosen freely (`plan`, `bit`).  `MaxTokens` and `MaxItems` bound the
environment; at the end the circuit waits, which is a stutter, no deadlock.

A program of four blocks has a loop in a loop, a loop behind or in front of a
branch, a branch whose sides meet, and a block translated before one of its
predecessors; SSA values do not interact beyond one phi per block, so one
variable, besides the conditions, gives every combination of definition, change
and use on both sides of a cut edge.  Graphs with unreachable blocks, with a
chain of two blocks that LLVM would merge (`Simplified`), with loops entered at
two places (`Reducible`), and with edges to the entry block do not come from the
frontends and are left out; dead definitions are left out as LLVM removes them.

**Fairness.** The scheduler is one thread that does not wait: weak fairness of
`Scheduling`, the steps of `schedule()`; nothing is assumed of the allocator
nor of the frontends.  In the circuit the clock
runs (weak fairness of `Clock`); producers offer their items and consumers accept
(weak fairness), and at some time consumers stop to withdraw
(`pipeline_sync`, `fsm_sync`).  Otherwise a consumer may be ready only in the
clocks in which another interface is not, and a stage which needs both never
gets on: the code has no buffer that would prevent it.

## Findings

 * `scheduler_latency`: the offset of the final move is rounded in the wrong
   direction.  If the smallest time is between -clk and 0 the schedule is not
   moved but cut: all negative times become 0 and the delays between them are
   lost (`scheduler.py:94`).
 * `scheduler_iolimit`: the same move breaks the limit of one access to an
   interface in a clk.  The times of clk -1 become 0 and those of clk 0 stay, so
   accesses of the two clks meet; the limit is not checked again.  Two ordered
   reads at -14 and -5 (clk period 10, offset 10) come to 0 and 5, and read the
   same item.  `IoLimitKept` says how far it goes: two ordered accesses meet only
   if the first one is at time 0, and a third one never joins them.
 * `fsm_jump`: a jump from the last state to a state other than the first one is
   never taken, as the transition to 0 is sorted before it
   (`fsmContainer.py:212`); the assertion that should notice it compares a
   condition already joined with `ack`.
 * `fsm_stall`: a channel is written in each clk of a stalled state, not "if all
   write conditions are meet" (`fsmContainer.py:178` and `144`).
 * `fsm_gap`: the clk index of a state is counted as if states were contiguous
   (`fsmContainer.py:203`).
 * `ssa_values`: a read is skipped when its value is found in the cache
   (`toHwtHlsNetlist.py:129`); a channel for the value of the last iteration is
   put there under the same key.  `while c: write(x); x = read()` in one block
   never reads.  Two other lookups give wrong values too: an operand of a phi
   which is the phi itself is the output of its own mux (`PhiOfItself`, line 214;
   the comment in `syncAndIo.py:173` has such a phi, "(10, x, x -1)"), and a value
   merged in front of a block which renews it later is looked up before it is
   renewed (`RenewedAfterMerge`).  `ValuesReachOrdinary` is `ValuesReach` without
   programs of these three kinds.
 * `ssa_io_order`: what `collectBlockOrderingDependencies` has collected is
   dropped when a predecessor is missing (`syncAndIo.py:113`).
   `IoOrderKeptOrdinary` holds where every block is translated after the sources
   of the uncut edges into it.

Some programs are refused by an assertion (`RejectedPrograms`, each of them of
legal SSA): a value which comes unchanged over two edges into a loop
(`MergeAtLoopEntry`, "redefinig already defined"); a loop with an entry from a
block translated later (`LoopEnteredFromLater`: a placeholder has no `_dtype`);
a read of a value merged in an earlier block (`ReadAfterItsMerge`: the read is
skipped, "All outputs should be already resolved"); two earlier successors of
one block (`OrderedTwice`, "Overspecification").  The run shows that these are
the only ones among its programs, and that the first three are never translated.

`AllocationRejected`, `RegistersLoaded`, `WritesDrivenOnce` and the
`RejectedPrograms` of the frontend also name what the code does not handle; they
say exactly, or from above, which inputs are concerned:

 * allocator: an FSM that holds a value over a clk in which it has no state fails
   with an `IndexError`, and one that would hand it to another FSM then with a
   `NotImplementedError` (`AcrossGap`, `NeedsBuffer`); a constant used by an FSM
   that has no state in the clk of the constant fails with an `AssertionError`
   (`EarlierConst`; operators and writes only, a read does not instantiate its
   constant condition);
 * a read allocates everything it depends on, without telling the element
   (`nodes/io.py:212`): what is allocated on the way (`AllocatedForRead`) and the
   registers its operands pass (`UntoldUse`) are not among the registers of their
   stages and are not held during a stall; a write of another element ordered
   before it gets a second driver (`ReadAfterElsewhere`), or the allocation fails on
   the way to an access of another element (`OrderedAfterForeignAccess`);
 * a value that crosses elements and is ready within three epsilons of the end of
   its clk makes `extendValidityOfRtlResource` go one stage too far, which ends in
   an `IndexError` (`CloseToNextClk`).  A chain that starts at the last instant of
   a clk has its first register listed one stage too late (`AwayFromNextClk` in
   `RegistersLoaded`);
 * `extendValidityOfRtlResource` (`pipelineContainer.py:101`) appends stages with
   two different lists of signals, so the registers in them are not held
   (`IsAppended`);
 * Python functions: rejected are a function without any jump; a `while` with a
   condition of the hardware, whose header is sealed twice (`fromPython.py:284`;
   `HlsConnectionFromPyFnWhile` of `tests/pythonFrontend/basics.py:119` has one and
   no test runs it); a loop entered from two blocks; a `for` over an empty range;
   a `for` left by a `break` under a condition of the hardware.  Programs of
   statement objects are never rejected, but there is no `continue` in them: its
   constructor names the class of `break` (`statements.py:151`), which raises a
   `TypeError`;
 * the else branch of a hardware `if` sees the compile time variables as the
   translation of the other branch, and of all that follows it, left them
   (`fromPython.py:388`): inside of a compile time loop it uses the last value of
   the loop variable (`IterationSeen`).  Such programs are translated but not run,
   because their SSA is not that of the program.

## Proofs

All for every value of the constants that satisfies the named assumption.

**Scheduler** (`SchedulerAssumption`: the register time plus epsilon is less
than the period, netlists are well formed).  `TypeCorrect`,
`SchedulerAssertionsHold`, `NoNodeCrossesClk`, `RegistersHaveSetupTime`,
`FirstClkIsUsed`, `CyclesAreReported`, `OrderedAccessesApart` and `AsapMeansIt`.
`NodesFitInClk` is not
inductive: that a node fits depends on the one which required its time.  `IInv`
adds `ScheduledClosed` (the scheduled nodes are closed under the order of the
recursion), `EdgesOrdered` (between scheduled nodes a use is not before its
definition) and `NeverBackwards` (a node does not end before it starts); all are
true of the final schedule too, although its times are cut at 0.  The lemmas about clk periods (`ClkBounds`, `ClkUnique`, `SameClk`,
`EarlierClks`) carry the arithmetic.  `SetupSoFar` is the setup time of the nodes
scheduled up to now: a node gets the time its users ask for, each of which asks
for a time with the register time left or for one in its own clk, so the property
goes from users to drivers and stops only at loop gates, which ask for the end of
the clk.  Hence `SetupTimeKept` speaks about the nodes no gate depends on,
directly or through others; it is not true of the rest.  `ScheduledHaveFirst`
says that a schedule has an earliest node, which the final move brings to clk 0.
A cycle is a set of nodes each of which waits for another one of it, so none of
them is ever scheduled.

`OrderedAccessesApart` (`IoLimitKept`) and `AsapMeansIt` (`AsapIsEarliest`) are
about `_getNumberOfIoInThisClkPeriod`, a count that recurses through the schedule
as far as it exists.  TLA+ lets one write such a function, but whether there is one
has to be shown, and induction over the netlist is out of the prover's reach; so it
is proved along with the steps of the scheduler instead.  `CountsInv` says that
for every interface the count exists, on the scheduled nodes (`CountsDefined`): a
step adds one node behind all the nodes its count looks at (`CountsExtended`),
and what was scheduled has no user (ASAP) or driver (compaction) among the nodes
to come, so its counts stay what they were (`CountUnique`, `TooManyStable`).  That
two counts are equal follows from a first node where they differ
(`HasFirst`, which is an invariant too).  `LatencySoFar` (a node lasts for its
delay, until the final move) then gives the earliest times, and `ClkBetween` the
other access of the same clk: if a chain of ordered accesses begins and ends in one
clk, all of it is there, hence the count sees its end even if accesses to other
interfaces are in between.  "Ordered" is defined by closed sets of nodes
(`OrderedBefore`), so that no path has to be followed.  The final move changes all
clks by the same number but for clk -1, which it cuts (`MovedClks`); so two
accesses that meet come from clks -1 and 0, the first one is at time 0, and there
is no third one (`MoveIoLimit`).

**Allocator** (`SchedulerAssumption`; `ArchElementsAssumption`: lists have the
members of their sets; `WriteAssumption`: a write has no data output).
`HandedOverInOneClk` (`CrossedWithHandshake`), `OutputsHaveOneDriver`
(`WritesDrivenOnce`) and `OperandsOfTheirClk` (`ValueOfItsClk`) hold of `HlsSpec`,
the scheduler and the allocator together: what the allocator needs of a schedule
is not assumed but is `AllocInput`, proved of the scheduler (`ScheduleHandedOver`)
and kept since then, because a behaviour of `HlsSpec` is one of `Spec` for the
variables of the scheduler (`ScheduleAlone`).

The three properties are about the end of `allocate()` only, and nothing of them
is true in between.  Their invariant `AllocInv` therefore says of everything that
has to be done that it *is done or a task for it is left*; with no task left that
is the property.  The parts follow the phases, each needs the ones before:

 * `AllocOK`: the types, and which tasks there may be in a phase;
 * `NodesCovered`: a node is in an element, or the loop over the netlist will come
   to it, so that every node has an owner;
 * `ConnectionsSound`, `ConnectionsComplete`: a connection is a value that crosses,
   and each value that crosses is one or lies before one of the three nested loops
   of the analysis;
 * `NothingBuilt`, `ResourcesOK`: a chain of registers begins with the time that
   the kind of its value gives (`TirTime`), whoever allocated it and when, and
   never changes that; only its length grows;
 * `HandedOK`, `SyncOK`: a connection is handed over at this one time, by the
   first use of the value in the element or by one of the four calls that are
   left, and the handshake of the clk is there or pending.  That uses of the same
   value skip the call (`tirsConnected`) is why `SyncOK` speaks of the value and
   not of the connection;
 * `UsesOK`, `OperatorsServed`, `NodesBuilt`: the index each user got is the
   distance of two clks, and an operator which has an output has all its operands;
 * `AllocatedOK`: what an element assigns, or will, is among what it allocates.
   `Allocates` is defined by closed sets, so the recursion needs no induction.

The order of the tasks decides which of several uses extends a chain; the proofs
of these three use `todo` as a set (`Tasks`) and show that the results do not
depend on it.  A
step that replaces its task by others can be seen as taking one and adding some
(`TaskTaken`, `TaskNew`), and what is static in a phase is rewritten by the
`Static...` lemmas.  `ValueOfItsClk` excludes times so close to the end of a clk
that adding epsilon leaves it (`AwayFromNextClk`): `get()` adds epsilon to the time
of every use but the time of a read has none, so there the index is one too high.
A register time longer than epsilon keeps a schedule away from such times
(`SetupTimeKept`), but for the nodes that lead to a loop gate, which have their
ASAP times.

`RegistersOfStages` (`RegistersLoaded`) does depend on the order, because a chain
is extended by one call and listed in the stages by a later one.  So
`HlsAllocatorRegisterProofs` takes `todo` as a queue, in which a task is *followed
by* another one (`Followed`): the allocation of a node by `_afterNodeInstantiated`
for it (`AllocsFollowed`), a use of an operand by the same call for the user
(`UsersFollowed`), a hand-over by `_afterOutputUsed` for the value
(`HandOversFollowed`); and no chain is extended for another element while a node
is still to be built (`ExtensionsFirst`).  Each task puts its own tasks in front of
the queue in such an order (`StepPuts`), so the relation outlives every step
(`FollowedRest`, `FollowedJoined`).  `RegisterInv` then says of every chain of a
pipeline: a register which is listed has the ones below it listed
(`ListedToTheFirst`), since `_afterOutputUsed` goes from the end of the chain until
the value is registered already, and would leave a hole otherwise; and a register
which is not listed is excused, or the call that lists it is still in the queue
(`ChainListed`, `FirstListed`).  That a value is created once (`CreatesOnce`) needs
that the dependencies have no cycle, which is what the scheduler found before
(`CyclesAreReported`): the recursion never comes back to the node it started from.

`SplitNeverFails` says that the assertions of the split and of the analysis never
fail; `allocate()` fails, if at all, when the nodes are built.  It needs the final
schedule: every node in one clk, none before its inputs (`ScheduleOK`).  The danger
is `alreadyUsed`: a flood may take a node before its own turn comes, and the FSM of
an interface which is left with a single state is forgotten while its nodes stay
used, so that the pipeline gets them.  `InterfacesOK` says that no access of an
interface with several accesses is taken by the flood of another one
(`ExcludeOtherIoWithOwnFsm`, `TiedInClk`), and that such an interface is to come, is
being collected, has all accesses in FSMs, or has all of them in one clk
(`Handled`, `Settled`).  `FloodsFirst` is the order of the queue this needs:
the flood from an access ends before the next access is visited.  `WellSplit`, that
each node is in a stage or state of its own clk, then gives the assertion of the
analysis.

`FailuresHaveCause` (`AllocationRejected`) goes on from there: while the nodes are
built, seven steps can fail (`FailingStep`), and on a netlist without the four
causes of the property (`Good`) none of them does; and a netlist with
`EarlierConst` is never built to the end (`ConstsTaken`).  A step fails when
what it looks up is not there: a value of `get()`, a stage or state to register a
value in, the end of a chain that is long enough.  `AllocationRejected` says nothing
about that, so `FailureInv` adds what is there, or will be, at every moment of
the recursion (`Ready`):

 * a pipeline has all stages up to its last one (`NoGapsInPipelines`), an FSM the
   states that were found (`StatesOnly`), and a chain has one in each of its clks
   and is registered in no later one (`ChainsThere`);
 * an element builds its own nodes, from values of its own or that come to it
   (`OwnTasks`): this is where reads ordered after the access of another element
   are excluded, and it makes the chains of an element begin where `TirTime` says;
 * a value is there or made by an earlier task of the queue when a node takes it
   (`GetsReady`); for a read, whose operands are allocated with all it
   depends on and are taken only by the second loop over the nodes, this needs that
   the loops follow each other (`LoopsLast`, `ReadsBuilt`, `AccessesReady`);
 * between the allocation of a node and `_afterNodeInstantiated` for it only nodes it
   depends on are built (`NewUntilRegistered`, with closed sets as in `Allocates`),
   so nobody takes its value, and the chain still has its one signal, which
   `_afterNodeInstantiated` asserts;
 * a value that is handed over is there, and lasts until then or the call that
   extends its chain comes first (`HandReady`).

The invariant holds only along with `RegisterInv`, `SplitInv` and the acyclicity of
the netlist, which are proved before it.  What the property
excepted at first was enough for the five nodes of the run, and random netlists of
six to eight nodes violated it in the ways that `CloseToNextClk` and reads ordered
after the read of another element now name; the theorem says that there are no
further ways.

**Pipeline** (`PipelineAssumption`: a first stage with an unconditional,
synchronized access; accesses to one interface conditional and exclusive).  The
invariant `IInv` is `TypeOK`, legal plans, `TokensInOrder` and `StageIsAtomic`:
the first says which token a stage handles and the second that its interfaces
count exactly those tokens; together they are inductive, because a stage's
registers are loaded exactly when all of its transfers happen.  The refinement
(`PipelineImplementsLoop`) needs besides it that no stage overtakes an earlier
one (`NoOvertaking`) and that registers hold what their token has read
(`ValuesOfToken`).
`NoNeedlessStall` needs no invariant: of the consecutive stages behind a stalled
one that have a token and do not load, the last one (it exists by the least
number principle, `LeastNat`) waits for an interface of its own.

**FSM** (`FsmAssumption`: at least two states; a value is not used before its
state, as the code raises an `IndexError` otherwise; accesses to one interface
in a state are exclusive).  `TypeCorrect` holds for every program, even those of
the violated runs.  `ChannelsSurviveStalls` needs `SeparateEnds` (a channel is
read in an earlier state than it is written), and `fsm_stall` is a program
without it.  The invariant is `ChannelsKeepValue`: outside the state of its
write a channel has what was sent; inside it the register may already have
anything.  `RegistersSurviveStalls` needs `Contiguous` (states in consecutive
clks), and `fsm_gap` is one without it.  The argument: under `Contiguous` the
register is loaded in the state of the definition and in no other
(`LoadedInDefinition`), the state register increases by at most one
(`NextStateFacts`), so the FSM cannot get behind the definition without the
load of the clk in which it leaves it.  `JumpsAreTaken` needs
`JumpsFromLastToFirst`, and `fsm_jump` is a program without it.
`FsmImplementsProgram` (the property `ProgramSpec`) needs all three, and no more:
each violated run is a program without exactly one of them, and the program of
`fsm_sync` has all.  A clk in which the state is left is one step of `FsmProgram`
(`LeaveIsProgramStep`), any other one is a stutter (`StallIsStutter`), since a
state transfers all of its interfaces or none.  The registers of `FsmSync` and
the memory of the program need not be equal: they agree on values that are used
in the state (`Agree`, `ValuesUsed`), and conditions depend on those only
(`SameOnDependencies`, `SameConditions`).

**Extractor** (`BlocksAssumption`: the set of blocks is finite).
`PipelinesAreAcyclic` says that the uncut edges have no cycle, for every finite
graph, every order of components and whatever the degrees say.  It rests on
`ListCoversComponents`: each component of the working graph is on the list, and
the working graph has every uncut edge inside of the components of the original
one.  It is inductive because all components are pushed again after each cut,
the stale ones are only superfluous; and with an empty list there are no
components, hence no cycle (`AcyclicWhenNoneIsLeft`).  `Reaches` is defined by
closed sets and not by paths, so that no induction over data is needed.  That
the extractor cuts *only* edges of cycles is not true in general: three loops in
a row (seven blocks) can end with a superfluous cut, because a component is
broken again after it was broken.

**Only model-checked.**  Liveness (`Terminates`, `AllTokensFinish`,
`RunsUntilUsedUp`) is out of the prover's reach, as is `ENABLED`.  `LatencyKept`,
`IoLimitOfSchedule` and the other properties of the violated runs are not true.  `SsaToNetlist`,
`SsaSemantics` and the modules of the frontends use recursive operators (closures,
traversals, the recursion of the code itself) and stay with TLC, with all of
their properties.

## Not modelled, and the plan

Done: the scheduler (`HlsScheduler`); a pipeline implementing `PipelinedLoop`; an
FSM implementing `FsmProgram`, with the proof; SSA to netlist with the operation
cache, the enables and the ordering of IO; the extraction of pipelines; the
construction of SSA; the tracker of block predecessors with the bytecode frontend
around it; the register chains, the split into elements and the handshakes
between them, composed with the scheduler.

Left, in this order:

 1. The hardware of loop gates (`HlsLoopGateStatus`), of the starter and of the
    buffers of backward edges, composed with `PipelineSync`: one token in a loop,
    release at the exit, the capacity.  Hazards at `loopHeader.py:246`,
    `programStarter.py:28` and `backwardEdge.py:91`.
 2. Elements that exchange values while they run.  The allocator's part (who has a
    handshake with whom, and in which clk) is in `HlsAllocator`; the handshakes are
    not yet signals of `PipelineSync` and `FsmSync`.  Two things are to be expected
    there: three elements that exchange values in a circle in one clk have a
    combinational loop of handshakes, and an FSM which jumps over the state of a
    handshake leaves its partner waiting.
 3. Explicit synchronization nodes, which a loop gate gets at its inputs
    (`loopHeader.py:163`), and their merge (`mergeExplicitSync.py`), with
    the second `skipWhen` of an access (`io.py:117`); dead nodes; the aggregation of
    bitwise operators, whose nodes have scheduling methods of their own.
 4. The offsets of AXI-stream reads, against the set of paths.
 5. Constant bit parts and partial drivers: pure algorithms over the bits of
    values, against reference definitions; the models here do not look into values.

Within what is modelled these are left out: for the frontends `switch`, `wait`,
assignments to parts of a variable, IO of slices of an interface, calls, `with`,
exceptions and nested functions; for SSA to netlist operators with several
operands and several phis of a block; for the allocator parts of nodes that span
clks with their port synonyms, which the scheduler does not make, and a buffer
between FSMs, which the code does not make either.  Without effect on the
properties are: the reuse of an assignment that a write made before
(`io.py:445`), the inputs of an access that register themselves again when a
placeholder is replaced (`io.py:490`), and that `netNodeToRtl` of a missing value
raises a `KeyError` (an `AssertionError` in `Get`).

Left out for good: the text and graph dumps, the tables of the platforms, and
the calls into LLVM which only forward to its passes.
