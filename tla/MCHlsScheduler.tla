-------------------------- MODULE MCHlsScheduler --------------------------
(***************************************************************************)
(* Instances of HlsScheduler and HlsAllocator: netlists of five nodes,     *)
(* numbered along their edges, in which every value is used.               *)
(***************************************************************************)
EXTENDS HlsAllocator

MCNode == 1..5
\* The nodes in the order of their numbers.
MCListed == [S \in SUBSET MCNode |-> SetToSortSeq(S, <)]
MCIntfByName == <<"u", "x", "y">>

NoDeps == [n \in MCNode |-> {}]

Netlist(k, d, i, data, ord) ==
  [kind |-> k, delay |-> d, intf |-> i, dataDeps |-> data, ordDeps |-> ord]

\* The users of a value.
Used(data, n) == \E m \in MCNode : n \in data[m]

(***************************************************************************)
(* Arithmetic: operators (one without operands is HlsProgramStarter),      *)
(* constants, a loop gate and a write of the result.  With a period of 10  *)
(* and FF = 4 an operator of 2 shares a clk with another one, one of 5     *)
(* fills the clk of the compaction, one of 6 fits only in the clk of ASAP  *)
(* and one of 10 in none.                                                  *)
(***************************************************************************)
ArithDelays == {<<0, a, b, c, 0>> : a \in {0, 2}, b \in {0, 2, 5, 6, 10}, c \in {0, 2, 5}}

ArithKinds == {<<a, b, "op", c, "io">> : a \in {"op", "const"}, b \in {"op", "const"},
                                         c \in {"op", "gate"}}

ArithIntf == <<"x", "x", "x", "x", "y">>

\* A gate has no value to write; no operator has constant operands only.
ArithData(k) ==
  {f \in {<<{}, a, b, c, {w}>> : a \in SUBSET {1}, b \in SUBSET (1..2),
                                 c \in (SUBSET (1..3)) \ {{}}, w \in {3, 4}} :
     /\ f[5] = IF k[4] = "gate" THEN {3} ELSE {4}
     /\ \A n \in 1..3 : Used(f, n)
     /\ \A n \in MCNode : f[n] # {} => \E d \in f[n] : k[d] # "const"}

MCArith ==
  UNION {{g \in {Netlist(k, d, ArithIntf, data, NoDeps) : d \in ArithDelays, data \in ArithData(k)} :
            WellFormed(g)} : k \in ArithKinds}

\* 3 and 4 depend on each other.
MCCyclic ==
  {[g EXCEPT !.dataDeps[3] = @ \cup {4}, !.dataDeps[4] = @ \cup {3}] :
     g \in {h \in MCArith : h.kind[4] = "op" /\ h.delay[4] > 0 /\ h.delay[3] > 0}}

(***************************************************************************)
(* IO: reads of x and u and writes of y with operators, a constant or a    *)
(* loop gate in between.  A read may have a condition, a write has data    *)
(* and perhaps a condition.                                                *)
(***************************************************************************)
IoDelay(k) == [n \in MCNode |-> IF k[n] = "op" THEN 5 ELSE 0]

HasValue(k, i, n) == k[n] \in {"op", "const"} \/ (k[n] = "io" /\ i[n] # "y")

NumberOfData(k, i, n) ==
  IF k[n] = "const" THEN {0} ELSE IF k[n] = "io" /\ i[n] # "y" THEN {0, 1} ELSE {1, 2}

IoData(k, i) ==
  {f \in {<<{}, a, b, c, d>> : a \in SUBSET {1}, b \in SUBSET (1..2),
                               c \in SUBSET (1..3), d \in SUBSET (1..4)} :
     \A n \in MCNode :
       /\ \A m \in f[n] : HasValue(k, i, m) /\ (k[m] = "const" => k[n] = "op" \/ i[n] = "y")
       /\ k[n] \in {"op", "const"} => Used(f, n)
       /\ Cardinality(f[n]) \in NumberOfData(k, i, n)}

Before(S, n) == IF n \in S THEN {m \in S : m < n /\ \A l \in S : l < n => l <= m} ELSE {}

(***************************************************************************)
(* The accesses are ordered one after the other, or those of each          *)
(* interface, or only the writes (reads of parallel branches).             *)
(***************************************************************************)
IoOrderings(k, i) ==
  LET io == {m \in MCNode : k[m] = "io"}
  IN  { [n \in MCNode |-> Before(io, n)],
        [n \in MCNode |-> Before({m \in io : i[m] = i[n]}, n)],
        [n \in MCNode |-> Before({m \in io : i[m] = "y"}, n)] }

IoNetlists(k, i) ==
  {g \in {Netlist(k, IoDelay(k), i, data, ord) : data \in IoData(k, i), ord \in IoOrderings(k, i)} :
     WellFormed(g)}

\* Any accesses to x and y: an operator, a read or a write in each place.
MCIo ==
  UNION {IoNetlists(<<"io", k[1][1], k[2][1], k[3][1], "io">>, <<"x", k[1][2], k[2][2], k[3][2], "y">>) :
           k \in [1..3 -> {<<"op", "x">>, <<"io", "x">>, <<"io", "y">>}]}

\* Two interfaces to read, with an operator and another node.
MCTwoInputs ==
  UNION {IoNetlists(<<"io", "op", k, "io", "io">>, <<"x", "x", i, "u", "y">>) :
           k \in {"op", "io", "gate"}, i \in {"x", "y"}}

\* A constant, which accesses in different clks use.
MCConst ==
  UNION {IoNetlists(<<"io", "const", "op", k, "io">>, <<"x", "x", "x", "y", "y">>) :
           k \in {"op", "io"}}

MCNetlists == MCArith \cup MCCyclic \cup MCIo \cup MCTwoInputs \cup MCConst

=============================================================================
