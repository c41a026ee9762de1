------------------------- MODULE HlsSchedulerProofs -------------------------
(***************************************************************************)
(* Proofs about HlsScheduler, for every netlist, clk period and register   *)
(* delay: the assertions of _checkAllNodesScheduled never fail, no node    *)
(* crosses a clk boundary, registers have their setup time, the final      *)
(* schedule begins in clk 0, a cycle is reported for the netlists with a   *)
(* cycle and for no other, two ordered accesses to one interface share a   *)
(* clk only where the final schedule is cut at 0, and ASAP gives each node *)
(* the earliest time its inputs, its clk and the IO limit allow.           *)
(*                                                                         *)
(* The last two rest on _getNumberOfIoInThisClkPeriod, which counts        *)
(* recursively over the scheduled nodes.  That the recursion is well       *)
(* defined, and has the same result later, is proved along with the steps  *)
(* of the scheduler: each step adds one node, behind all the nodes its     *)
(* count looks at.                                                         *)
(***************************************************************************)
EXTENDS HlsScheduler, FiniteSetTheorems, NaturalsInduction, WellFoundedInduction, TLAPS

\* The clk index of clk_math.py is the floor of the division.
LEMMA ClkBounds ==
  ASSUME NEW t \in Int
  PROVE  /\ start_clk(t) \in Int
         /\ start_of_clk_period(t) \in Int
         /\ start_of_next_clk_period(t) = start_of_clk_period(t) + Clk
         /\ start_of_clk_period(t) <= t
         /\ t < start_of_clk_period(t) + Clk
  BY SchedulerAssumption, SMTT(30)
     DEF start_clk, start_of_clk_period, start_of_next_clk_period

\* A time between the bounds of a clk period has the index of that period.
LEMMA ClkUnique ==
  ASSUME NEW t \in Int, NEW k \in Int, k * Clk <= t, t < k * Clk + Clk
  PROVE  start_clk(t) = k
<1>1. t < (k + 1) * Clk
  BY SchedulerAssumption, SMTT(30)
<1>2. QED
  BY <1>1, SchedulerAssumption, SMTT(30) DEF start_clk

LEMMA SameClk ==
  ASSUME NEW t \in Int, NEW u \in Int,
         start_of_clk_period(t) <= u, u < start_of_clk_period(t) + Clk
  PROVE  start_clk(u) = start_clk(t)
  BY ClkBounds, ClkUnique DEF start_of_clk_period

\* Going back by k clk periods, the first of them to the start of the period.
LEMMA EarlierClks ==
  ASSUME NEW k \in Nat \ {0}
  PROVE  /\ (k - 1) * Clk \in Nat
         /\ \A c \in Int : (c - k) * Clk = c * Clk - (k - 1) * Clk - Clk
<1>1. Clk \in Nat
  BY SchedulerAssumption
<1>2. ASSUME NEW j \in Nat
      PROVE  j * Clk \in Nat
  BY <1>1, SMTT(30)
<1>3. ASSUME NEW c \in Int
      PROVE  (c - k) * Clk = c * Clk - (k - 1) * Clk - Clk
  <2>1. k \in Int /\ Clk \in Int
    BY <1>1
  <2>2. \A a, b, x \in Int : (a - b) * x = a * x - (b - 1) * x - x
    BY SMTT(30)
  <2>3. QED
    BY <2>1, <2>2
<1>4. QED
  BY <1>2, <1>3

\* The fields of a netlist that is never changed.
LEMMA NetlistFields ==
  ASSUME net \in Netlists, NEW n \in Node
  PROVE  /\ net.kind[n] \in Kind
         /\ net.delay[n] \in Nat
         /\ Deps(n) \subseteq Node
         /\ Users(n) \subseteq Node
         /\ net.kind[n] = "io" => net.delay[n] = 0
         /\ Deps(n) = {} => net.delay[n] = 0
         /\ n \in OfKind("gate") => Users(n) = {} /\ net.delay[n] = 0
         /\ n \in OfKind("const") => Deps(n) = {}
         /\ NumberOfInputs(n) \in Nat
         /\ Deps(n) # {} => NumberOfInputs(n) >= 1
<1>1. WellFormed(net) /\ net \in NetlistType
  BY SchedulerAssumption DEF WellFormed
<1>2. /\ net.dataDeps[n] \subseteq Node
      /\ net.ordDeps[n] \subseteq Node
  BY <1>1 DEF NetlistType
<1>3. /\ IsFiniteSet(net.dataDeps[n])
      /\ IsFiniteSet(net.ordDeps[n])
  BY <1>2, SchedulerAssumption, FS_Subset
<1>4. /\ Cardinality(net.dataDeps[n]) \in Nat
      /\ Cardinality(net.ordDeps[n]) \in Nat
      /\ net.dataDeps[n] # {} => Cardinality(net.dataDeps[n]) # 0
      /\ net.ordDeps[n] # {} => Cardinality(net.ordDeps[n]) # 0
  BY <1>3, FS_CardinalityType, FS_EmptySet
<1>5. /\ NumberOfInputs(n) \in Nat
      /\ Deps(n) # {} => NumberOfInputs(n) >= 1
  BY <1>4 DEF NumberOfInputs, Deps, DepsOf
<1>6. QED
  BY <1>1, <1>2, <1>5
     DEF WellFormed, NetlistType, Deps, DepsOf, Users, UsersOf, OfKind, Kind

-----------------------------------------------------------------------------
\* A node is placed after its inputs, within one clk, by ASAP ...
LEMMA InputTimeBounds ==
  ASSUME net \in Netlists, NEW n \in Node, NEW d \in Node,
         scheduledOut \in [Node -> Int], net.delay[n] < Clk
  PROVE  /\ InputTime(n, d) \in Int
         /\ InputTime(n, d) - net.delay[n] >= scheduledOut[d]
         /\ start_clk(InputTime(n, d) - net.delay[n]) = start_clk(InputTime(n, d))
<1> DEFINE a == scheduledOut[d]
           s == start_of_clk_period(a)
           D == net.delay[n]
<1>1. a \in Int /\ D \in Nat /\ Clk \in Nat
  BY NetlistFields, SchedulerAssumption
<1>2. /\ s \in Int
      /\ s <= a
      /\ a < s + Clk
      /\ start_of_next_clk_period(a) = s + Clk
  BY <1>1, ClkBounds
<1>3. CASE D >= s + Clk - a
  <2>1. InputTime(n, d) = D + (s + Clk)
    BY <1>1, <1>2, <1>3 DEF InputTime
  <2>2. start_of_clk_period(a) + Clk = (start_clk(a) + 1) * Clk
    BY <1>1, ClkBounds DEF start_of_next_clk_period
  <2>3. start_clk(a) + 1 \in Int
    BY <1>1, ClkBounds
  <2>4. start_clk(D + (s + Clk)) = start_clk(a) + 1
    BY <1>1, <1>2, <2>2, <2>3, ClkUnique, SMTT(30)
  <2>5. start_clk(s + Clk) = start_clk(a) + 1
    BY <1>1, <1>2, <2>2, <2>3, SchedulerAssumption, ClkUnique, SMTT(30)
  <2>6. InputTime(n, d) - D = s + Clk
    BY <2>1, <1>1, <1>2
  <2>7. QED
    BY <1>1, <1>2, <2>1, <2>4, <2>5, <2>6
<1>4. CASE ~ (D >= s + Clk - a)
  <2>1. InputTime(n, d) = D + a
    BY <1>1, <1>2, <1>4 DEF InputTime
  <2>2. start_clk(D + a) = start_clk(a)
    BY <1>1, <1>2, <1>4, SameClk
  <2>3. (D + a) - D = a
    BY <1>1
  <2>4. QED
    BY <1>1, <2>1, <2>2, <2>3
<1>5. QED
  BY <1>3, <1>4

\* ... and not after the users of its output, within one clk, by the compaction.
LEMMA TimeForInputsBounds ==
  ASSUME net \in Netlists, NEW n \in Node, NEW t \in Int,
         Deps(n) # {} => net.delay[n] + FF < Clk
  PROVE  /\ TimeForInputs(n, t) \in Int
         /\ TimeForInputs(n, t) <= t
         /\ start_clk(TimeForInputs(n, t) - net.delay[n]) = start_clk(TimeForInputs(n, t))
<1> DEFINE s == start_of_clk_period(t)
           D == net.delay[n]
           k == NumberOfInputs(n)
<1>1. /\ D \in Nat
      /\ k \in Nat
      /\ Deps(n) # {} => k >= 1
      /\ Deps(n) = {} => D = 0
      /\ Clk \in Nat \ {0}
      /\ FF \in Nat \ {0}
  BY NetlistFields, SchedulerAssumption
<1>2. /\ s \in Int
      /\ s <= t
      /\ t < s + Clk
  BY ClkBounds
<1>3. Deps(n) = {} <=> net.dataDeps[n] = {} /\ net.ordDeps[n] = {}
  BY DEF Deps, DepsOf
<1>4. CASE Deps(n) = {} \/ t - D > s
  <2>1. TimeForInputs(n, t) = t
    BY <1>3, <1>4 DEF TimeForInputs
  <2>2. s <= t - D /\ t - D < s + Clk
    BY <1>1, <1>2, <1>4
  <2>3. start_clk(t - D) = start_clk(t)
    BY <1>1, <2>2, SameClk
  <2>4. QED
    BY <2>1, <2>3
<1>5. CASE Deps(n) # {} /\ ~ (t - D > s) /\ D + FF + Eps < Clk
  <2> DEFINE u == s - FF - Eps
  <2>1. TimeForInputs(n, t) = u
    BY <1>1, <1>2, <1>3, <1>5 DEF TimeForInputs
  <2>2. /\ (start_clk(t) - 1) * Clk = s - Clk
        /\ start_clk(t) - 1 \in Int
    BY <1>1, ClkBounds, SMTT(30) DEF start_of_clk_period
  <2>3. start_clk(u) = start_clk(t) - 1
    BY <1>1, <1>2, <1>5, <2>2, ClkUnique, SMTT(30) DEF Eps
  <2>4. start_clk(u - D) = start_clk(t) - 1
    BY <1>1, <1>2, <1>5, <2>2, ClkUnique, SMTT(30) DEF Eps
  <2>5. u \in Int /\ u <= t
    BY <1>1, <1>2 DEF Eps
  <2>6. QED
    BY <2>1, <2>3, <2>4, <2>5
<1>6. CASE Deps(n) # {} /\ ~ (t - D > s) /\ ~ (D + FF + Eps < Clk)
  <2> DEFINE u == s - (k - 1) * Clk - FF - Eps
  <2>1. TimeForInputs(n, t) = u
    BY <1>1, <1>2, <1>3, <1>6 DEF TimeForInputs
  <2>2. D + FF + Eps = Clk
    BY <1>1, <1>6 DEF Eps
  <2>3. /\ (start_clk(t) - k) * Clk = s - (k - 1) * Clk - Clk
        /\ start_clk(t) - k \in Int
        /\ (k - 1) * Clk \in Nat
    <3>1. start_clk(t) \in Int
      BY ClkBounds
    <3>2. k \in Nat \ {0}
      BY <1>1, <1>6
    <3>3. (k - 1) * Clk \in Nat
      BY <1>1, <3>2, EarlierClks
    <3>4. (start_clk(t) - k) * Clk = s - (k - 1) * Clk - Clk
      BY <1>1, <3>1, <3>2, EarlierClks DEF start_of_clk_period
    <3>5. QED
      BY <3>1, <3>2, <3>3, <3>4
  <2>4. u \in Int /\ u <= t
    BY <1>1, <1>2, <2>3 DEF Eps
  <2>5. start_clk(u) = start_clk(t) - k
    BY <1>1, <1>2, <2>2, <2>3, <2>4, ClkUnique DEF Eps
  <2>6. u - D = (start_clk(t) - k) * Clk
    BY <1>1, <1>2, <2>2, <2>3 DEF Eps
  <2>7. start_clk(u - D) = start_clk(t) - k
    BY <1>1, <2>3, <2>4, <2>6, ClkUnique
  <2>8. QED
    BY <2>1, <2>4, <2>5, <2>7
<1>7. QED
  BY <1>4, <1>5, <1>6

\* The IO limit moves a node only to earlier clks.
LEMMA IoTimeBounds ==
  ASSUME NEW t \in Int, NEW k \in Nat
  PROVE  IoTime(t, k) \in Int /\ IoTime(t, k) <= t
<1>1. CASE k = 0
  BY <1>1 DEF IoTime
<1>2. CASE k # 0
  <2>1. (k - 1) * Clk \in Nat
    BY <1>2, EarlierClks
  <2>2. IoTime(t, k) = start_of_clk_period(t) - (k - 1) * Clk - FF
    BY <1>2 DEF IoTime
  <2>3. start_of_clk_period(t) \in Int /\ start_of_clk_period(t) <= t
    BY ClkBounds
  <2>4. QED
    BY <2>1, <2>2, <2>3, SchedulerAssumption
<1>3. QED
  BY <1>1, <1>2

-----------------------------------------------------------------------------
(***************************************************************************)
(* The inductive invariant.  While ASAP runs the scheduled nodes are       *)
(* closed under dependencies, while the compaction runs under users, so a  *)
(* node that is being scheduled has scheduled neighbours on one side only  *)
(* and cannot break an edge that already holds.                            *)
(***************************************************************************)
ScheduledClosed ==
  /\ phase = "asap" => \A n \in scheduled : Deps(n) \subseteq scheduled
  /\ phase = "alap" => \A n \in scheduled : Users(n) \subseteq scheduled
  /\ phase \in {"offset", "check", "done"} => scheduled = Node

EdgesOrdered ==
  phase \in {"asap", "alap", "offset", "check", "done"} =>
    \A n \in scheduled : \A d \in Deps(n) \cap scheduled : scheduledIn[n] >= scheduledOut[d]

\* No node ends before it starts.
NeverBackwards == \A n \in scheduled : scheduledIn[n] <= scheduledOut[n]

IInv ==
  /\ net \in Netlists
  /\ TypeOK
  /\ ScheduledClosed
  /\ EdgesOrdered
  /\ ChecksNeverFail
  /\ NodesFitInClk
  /\ NeverBackwards
  /\ phase = "asap" => \A n \in Node : scheduledOut[n] >= 0
  /\ phase = "alap" => OfKind("gate") \subseteq scheduled

LEMMA InitInv == Init => IInv
  BY SchedulerAssumption
     DEF WellFormed, Init, IInv, TypeOK, Phase, ScheduledClosed, EdgesOrdered, ChecksNeverFail,
         NodesFitInClk, NeverBackwards, FitsInClk, OfKind

\* Setting the time of one node.
LEMMA SetTimeFacts ==
  ASSUME IInv, NEW n \in Node, NEW t \in Int, SetTime(n, t)
  PROVE  /\ scheduled' = scheduled \cup {n}
         /\ scheduledIn'  \in [Node -> Int]
         /\ scheduledOut' \in [Node -> Int]
         /\ scheduledIn'[n] = t - net.delay[n]
         /\ scheduledOut'[n] = t
         /\ \A m \in Node \ {n} : /\ scheduledIn'[m] = scheduledIn[m]
                                  /\ scheduledOut'[m] = scheduledOut[m]
<1>1. net.delay[n] \in Nat
  BY NetlistFields DEF IInv
<1>2. QED
  BY <1>1 DEF SetTime, IInv, TypeOK

\* An ASAP step.
LEMMA AsapStep ==
  ASSUME IInv, NEW n \in Node, ScheduleAsap(n)
  PROVE  IInv'
<1> DEFINE D == net.delay[n]
<1>1. /\ phase = "asap" /\ phase' = "asap"
      /\ net' = net /\ net \in Netlists
      /\ asapSchedule' = asapSchedule
      /\ n \notin scheduled
      /\ Deps(n) \subseteq scheduled
      /\ scheduled \subseteq Node
      /\ scheduledOut \in [Node -> Int]
      /\ D \in Nat
  BY NetlistFields DEF ScheduleAsap, AsapReady, IInv, TypeOK
<1>2. PICK t \in {0} \cup {InputTime(n, d) : d \in Deps(n)} :
        /\ IsMax(t, {0} \cup {InputTime(n, d) : d \in Deps(n)})
        /\ SetTime(n, IF TooManyIos(n, t, OrderingInputs)
                      THEN start_of_next_clk_period(t) ELSE t)
  BY DEF ScheduleAsap
<1> DEFINE u == IF TooManyIos(n, t, OrderingInputs) THEN start_of_next_clk_period(t) ELSE t
<1>3. \A d \in Deps(n) : /\ InputTime(n, d) \in Int
                         /\ InputTime(n, d) - D >= scheduledOut[d]
                         /\ start_clk(InputTime(n, d) - D) = start_clk(InputTime(n, d))
  <2>1. Deps(n) # {} => D < Clk
    BY DEF ScheduleAsap
  <2>2. QED
    BY <1>1, <2>1, InputTimeBounds
<1>4. /\ t \in Int
      /\ \A d \in Deps(n) : InputTime(n, d) <= t
  BY <1>2, <1>3 DEF IsMax
<1>5. start_clk(t - D) = start_clk(t)
  <2>1. CASE \E d \in Deps(n) : t = InputTime(n, d)
    BY <2>1, <1>3
  <2>2. CASE Deps(n) = {}
    BY <1>1, <1>4, <2>2, NetlistFields
  <2>3. CASE t = 0 /\ Deps(n) # {}
    <3>1. PICK d \in Deps(n) : InputTime(n, d) <= 0
      BY <1>4, <2>3
    <3>2. scheduledOut[d] >= 0
      BY <1>1 DEF IInv
    <3>3. InputTime(n, d) = t
      BY <1>1, <1>3, <2>3, <3>1, <3>2
    <3>4. QED
      BY <2>1, <3>3
  <2>4. QED
    BY <1>2, <2>1, <2>2, <2>3
<1>6. /\ u \in Int
      /\ t <= u
      /\ u >= 0
      /\ start_clk(u - D) = start_clk(u)
  <2>1. t >= 0
    BY <1>2, <1>3 DEF IsMax
  <2>2. CASE TooManyIos(n, t, OrderingInputs)
    <3>1. D = 0
      BY <1>1, <2>2, NetlistFields DEF TooManyIos
    <3>2. u = start_of_clk_period(t) + Clk /\ t < u /\ u \in Int
      BY <1>4, <2>2, ClkBounds, SchedulerAssumption
    <3>3. QED
      BY <2>1, <1>4, <3>1, <3>2
  <2>3. CASE ~ TooManyIos(n, t, OrderingInputs)
    BY <1>4, <1>5, <2>1, <2>3
  <2>4. QED
    BY <2>2, <2>3
<1>7. /\ scheduled' = scheduled \cup {n}
      /\ scheduledIn'  \in [Node -> Int]
      /\ scheduledOut' \in [Node -> Int]
      /\ scheduledIn'[n] = u - D
      /\ scheduledOut'[n] = u
      /\ \A m \in Node \ {n} : /\ scheduledIn'[m] = scheduledIn[m]
                               /\ scheduledOut'[m] = scheduledOut[m]
  <2>1. SetTime(n, u)
    BY <1>2
  <2>2. QED
    BY <1>6, <2>1, SetTimeFacts
<1>8. \A m \in Node : Deps(m)' = Deps(m)
  BY <1>1 DEF Deps
<1>9. TypeOK'
  <2>1. u - D >= 0
    <3>1. CASE Deps(n) = {}
      BY <1>1, <1>6, <3>1, NetlistFields
    <3>2. CASE Deps(n) # {}
      <4>1. PICK d \in Deps(n) : TRUE
        BY <3>2
      <4>2. /\ InputTime(n, d) \in Int
            /\ InputTime(n, d) - D >= scheduledOut[d]
            /\ InputTime(n, d) <= t
        BY <1>3, <1>4, <4>1
      <4>3. scheduledOut[d] \in Int /\ scheduledOut[d] >= 0
        BY <1>1, <4>1 DEF IInv
      <4>4. QED
        BY <1>1, <1>4, <1>6, <4>2, <4>3
    <3>3. QED
      BY <3>1, <3>2
  <2>2. /\ scheduledIn  \in [Node -> Nat]
        /\ scheduledOut \in [Node -> Nat]
    BY <1>1 DEF IInv, TypeOK
  <2>3. \A m \in Node : scheduledIn'[m] \in Nat /\ scheduledOut'[m] \in Nat
    BY <1>1, <1>6, <1>7, <2>1, <2>2
  <2>4. /\ scheduledIn'  \in [Node -> Nat]
        /\ scheduledOut' \in [Node -> Nat]
    BY <1>7, <2>3
  <2>5. QED
    BY <1>1, <1>7, <2>4 DEF IInv, TypeOK
<1>10. ScheduledClosed'
  BY <1>1, <1>7, <1>8 DEF IInv, ScheduledClosed
<1>11. EdgesOrdered'
  <2> SUFFICES ASSUME NEW m \in scheduled', NEW d \in Deps(m)' \cap scheduled'
               PROVE  scheduledIn'[m] >= scheduledOut'[d]
    BY DEF EdgesOrdered
  <2>1. m \in Node /\ d \in Deps(m) \cap scheduled'
    BY <1>1, <1>7, <1>8
  <2>2. CASE m = n
    <3>1. d \in scheduled /\ d # n /\ d \in Deps(n)
      BY <1>1, <2>1, <2>2
    <3>2. scheduledOut'[d] = scheduledOut[d]
      BY <1>1, <1>7, <3>1
    <3>3. scheduledOut[d] <= u - D
      <4>1. /\ InputTime(n, d) \in Int
            /\ InputTime(n, d) - D >= scheduledOut[d]
            /\ InputTime(n, d) <= u
        BY <1>3, <1>4, <1>6, <3>1
      <4>2. scheduledOut[d] \in Int
        BY <1>1, <3>1
      <4>3. QED
        BY <1>1, <1>6, <4>1, <4>2
    <3>4. QED
      BY <1>7, <2>2, <3>2, <3>3, <1>1, <1>6
  <2>3. CASE m # n
    <3>1. m \in scheduled /\ Deps(m) \subseteq scheduled
      BY <1>1, <1>7, <2>3 DEF IInv, ScheduledClosed
    <3>2. d # n /\ d \in scheduled
      BY <1>1, <2>1, <3>1
    <3>3. scheduledIn[m] >= scheduledOut[d]
      BY <1>1, <2>1, <3>1, <3>2 DEF IInv, EdgesOrdered
    <3>4. QED
      BY <1>1, <1>7, <2>1, <2>3, <3>1, <3>2, <3>3
  <2>4. QED
    BY <2>2, <2>3
<1>12. NodesFitInClk' /\ NeverBackwards'
  BY <1>1, <1>6, <1>7 DEF IInv, NodesFitInClk, FitsInClk, NeverBackwards
<1>13. \A m \in Node : scheduledOut'[m] >= 0
  BY <1>1, <1>6, <1>7 DEF IInv
<1>14. QED
  BY <1>1, <1>9, <1>10, <1>11, <1>12, <1>13 DEF IInv, ChecksNeverFail

\* A step of the compaction.
LEMMA AlapStep ==
  ASSUME IInv, NEW n \in Node, ScheduleAlapCompaction(n)
  PROVE  IInv'
<1> DEFINE D == net.delay[n]
           required == IF Users(n) = {}
                       THEN {end_of_clk_before_ff(asapSchedule.out[n])}
                       ELSE {scheduledIn[u] : u \in Users(n)}
<1>1. /\ phase = "alap" /\ phase' = "alap"
      /\ net' = net /\ net \in Netlists
      /\ asapSchedule' = asapSchedule
      /\ n \notin scheduled
      /\ Users(n) \subseteq scheduled
      /\ scheduled \subseteq Node
      /\ scheduledIn \in [Node -> Int]
      /\ asapSchedule.out[n] \in Int
      /\ D \in Nat
  BY NetlistFields DEF ScheduleAlapCompaction, AlapReady, IInv, TypeOK
<1>2. PICK r \in required, k \in 0..Cardinality(Node) :
        /\ IsMin(r, required)
        /\ SetTime(n, IoTime(TimeForInputs(n, r), k))
        /\ k # 0 => TooManyIos(n, IoTime(TimeForInputs(n, r), 0), OrderingUsers)
  <2>1. PICK r \in required, k \in 0..Cardinality(Node) :
          /\ IsMin(r, required)
          /\ \A j \in 0..(k - 1) :
               TooManyIos(n, IoTime(TimeForInputs(n, r), j), OrderingUsers)
          /\ SetTime(n, IoTime(TimeForInputs(n, r), k))
    BY DEF ScheduleAlapCompaction
  <2>2. k # 0 => 0 \in 0..(k - 1)
    BY <2>1
  <2>3. QED
    BY <2>1, <2>2
<1> DEFINE t == TimeForInputs(n, r)
           u == IoTime(t, k)
<1>3. /\ r \in Int
      /\ \A s \in Users(n) : r <= scheduledIn[s]
  <2>1. end_of_clk_before_ff(asapSchedule.out[n]) \in Int
    BY <1>1, ClkBounds, SchedulerAssumption DEF end_of_clk_before_ff, Eps
  <2>2. Users(n) \subseteq Node
    BY <1>1
  <2>3. QED
    BY <1>1, <1>2, <2>1, <2>2 DEF IsMin
<1>4. /\ t \in Int
      /\ t <= r
      /\ start_clk(t - D) = start_clk(t)
  <2>1. Deps(n) # {} => D + FF < Clk
    BY DEF ScheduleAlapCompaction
  <2>2. QED
    BY <1>1, <1>3, <2>1, TimeForInputsBounds
<1>5. /\ u \in Int
      /\ u <= r
      /\ start_clk(u - D) = start_clk(u)
  <2>1. k \in Nat
    BY <1>2
  <2>2. u \in Int /\ u <= t
    BY <1>4, <2>1, IoTimeBounds
  <2>3. CASE k = 0
    BY <1>4, <2>3 DEF IoTime
  <2>4. CASE k # 0
    <3>1. D = 0
      BY <1>1, <1>2, <2>4, NetlistFields DEF TooManyIos
    <3>2. QED
      BY <1>3, <1>4, <2>2, <3>1
  <2>5. QED
    BY <1>3, <1>4, <2>2, <2>3, <2>4
<1>6. /\ scheduled' = scheduled \cup {n}
      /\ scheduledIn'  \in [Node -> Int]
      /\ scheduledOut' \in [Node -> Int]
      /\ scheduledIn'[n] = u - D
      /\ scheduledOut'[n] = u
      /\ \A m \in Node \ {n} : /\ scheduledIn'[m] = scheduledIn[m]
                               /\ scheduledOut'[m] = scheduledOut[m]
  BY <1>2, <1>5, SetTimeFacts
<1>7. \A m \in Node : Deps(m)' = Deps(m) /\ Users(m)' = Users(m)
  BY <1>1 DEF Deps, Users
<1>8. TypeOK'
  BY <1>1, <1>6 DEF IInv, TypeOK
<1>9. ScheduledClosed'
  BY <1>1, <1>6, <1>7 DEF IInv, ScheduledClosed
<1>10. EdgesOrdered'
  <2> SUFFICES ASSUME NEW m \in scheduled', NEW d \in Deps(m)' \cap scheduled'
               PROVE  scheduledIn'[m] >= scheduledOut'[d]
    BY DEF EdgesOrdered
  <2>1. m \in Node /\ d \in Deps(m) \cap scheduled'
    BY <1>1, <1>6, <1>7
  <2>2. d \in Node /\ m \in Users(d)
    BY <1>1, <2>1, NetlistFields DEF Users, UsersOf, Deps
  <2>3. d \in scheduled => m \in scheduled
    BY <1>1, <2>2 DEF IInv, ScheduledClosed
  <2>4. CASE d = n
    <3>1. m \in scheduled /\ m # n
      BY <1>1, <2>2, <2>4
    <3>2. u <= scheduledIn[m]
      BY <1>1, <1>3, <1>5, <2>2, <2>4
    <3>3. QED
      BY <1>1, <1>5, <1>6, <2>2, <2>4, <3>1, <3>2
  <2>5. CASE d # n
    <3>1. d \in scheduled /\ m \in scheduled /\ m # n
      BY <1>1, <1>6, <2>1, <2>3, <2>5
    <3>2. scheduledIn[m] >= scheduledOut[d]
      BY <1>1, <2>1, <3>1 DEF IInv, EdgesOrdered
    <3>3. QED
      BY <1>6, <2>1, <2>2, <2>5, <3>1, <3>2
  <2>6. QED
    BY <2>4, <2>5
<1>11. NodesFitInClk' /\ NeverBackwards'
  BY <1>1, <1>5, <1>6 DEF IInv, NodesFitInClk, FitsInClk, NeverBackwards
<1>12. OfKind("gate")' \subseteq scheduled'
  BY <1>1, <1>6 DEF IInv, OfKind
<1>13. QED
  BY <1>1, <1>8, <1>9, <1>10, <1>11, <1>12 DEF IInv, ChecksNeverFail

\* Placing a constant next to its first user.
LEMMA ConstStep ==
  ASSUME IInv, NEW c \in Node, ScheduleConst(c)
  PROVE  IInv'
<1>1. /\ phase = "alap" /\ phase' = "alap"
      /\ net' = net /\ net \in Netlists
      /\ asapSchedule' = asapSchedule
      /\ c \notin scheduled
      /\ c \in OfKind("const")
      /\ Deps(c) = {} /\ net.delay[c] = 0
      /\ Users(c) \subseteq Node
      /\ scheduled \subseteq Node
      /\ scheduledIn \in [Node -> Int]
  BY NetlistFields DEF ScheduleConst, IInv, TypeOK
<1>2. PICK t \in {scheduledIn[u] : u \in Users(c)} :
        /\ IsMin(t, {scheduledIn[u] : u \in Users(c)})
        /\ SetTime(c, t)
  BY DEF ScheduleConst
<1>3. t \in Int /\ \A u \in Users(c) : t <= scheduledIn[u]
  BY <1>1, <1>2 DEF IsMin
<1>4. /\ scheduled' = scheduled \cup {c}
      /\ scheduledIn'  \in [Node -> Int]
      /\ scheduledOut' \in [Node -> Int]
      /\ scheduledIn'[c] = t
      /\ scheduledOut'[c] = t
      /\ \A m \in Node \ {c} : /\ scheduledIn'[m] = scheduledIn[m]
                               /\ scheduledOut'[m] = scheduledOut[m]
  BY <1>1, <1>2, <1>3, SetTimeFacts
<1>5. \A m \in Node : Deps(m)' = Deps(m) /\ Users(m)' = Users(m)
  BY <1>1 DEF Deps, Users
<1>6. TypeOK'
  BY <1>1, <1>4 DEF IInv, TypeOK
<1>7. Users(c) \subseteq scheduled
  <2>1. SUFFICES ASSUME NEW u \in Users(c)
                 PROVE  u \in scheduled
    OBVIOUS
  <2>2. u \in Node /\ Deps(u) # {}
    BY <1>1, <2>1 DEF Users, UsersOf, Deps
  <2>3. u \notin OfKind("const")
    BY <1>1, <2>2, NetlistFields
  <2>4. QED
    BY <2>2, <2>3 DEF ScheduleConst
<1>8. ScheduledClosed'
  BY <1>1, <1>4, <1>5, <1>7 DEF IInv, ScheduledClosed
<1>9. EdgesOrdered'
  <2> SUFFICES ASSUME NEW m \in scheduled', NEW d \in Deps(m)' \cap scheduled'
               PROVE  scheduledIn'[m] >= scheduledOut'[d]
    BY DEF EdgesOrdered
  <2>1. m \in Node /\ d \in Deps(m) \cap scheduled'
    BY <1>1, <1>4, <1>5
  <2>2. m # c
    BY <1>1, <2>1
  <2>3. m \in scheduled /\ d \in Node
    BY <1>1, <1>4, <2>1, <2>2
  <2>4. CASE d = c
    <3>1. t <= scheduledIn[m]
      BY <1>3, <2>1, <2>3, <2>4 DEF Users, UsersOf, Deps
    <3>2. QED
      BY <1>3, <1>4, <2>1, <2>2, <2>4, <3>1
  <2>5. CASE d # c
    <3>1. scheduledIn[m] >= scheduledOut[d]
      BY <1>1, <1>4, <2>1, <2>3, <2>5 DEF IInv, EdgesOrdered
    <3>2. QED
      BY <1>4, <2>1, <2>2, <2>3, <2>5, <3>1
  <2>6. QED
    BY <2>4, <2>5
<1>10. NodesFitInClk' /\ NeverBackwards'
  BY <1>1, <1>3, <1>4 DEF IInv, NodesFitInClk, FitsInClk, NeverBackwards
<1>11. OfKind("gate")' \subseteq scheduled'
  BY <1>1, <1>4 DEF IInv, OfKind
<1>12. QED
  BY <1>1, <1>6, <1>8, <1>9, <1>10, <1>11 DEF IInv, ChecksNeverFail

\* The check after ASAP holds and the gates that stay scheduled have no users.
LEMMA CheckAsapStep ==
  ASSUME IInv, CheckAsapSchedule
  PROVE  IInv'
<1>1. /\ phase = "asap" /\ scheduled = Node
      /\ net' = net /\ net \in Netlists
  BY DEF CheckAsapSchedule, IInv, TypeOK
<1>2. \A n \in Node : /\ Deps(n) \subseteq Node
                      /\ n \in OfKind("gate") => Users(n) = {}
  BY <1>1, NetlistFields
<1>3. AllNodesScheduled
  BY <1>1, <1>2 DEF AllNodesScheduled, IInv, EdgesOrdered
<1>4. phase' = "alap" /\ StartAlap
  BY <1>3 DEF CheckAsapSchedule
<1>5. OfKind("gate")' = OfKind("gate") /\ OfKind("gate") \subseteq Node
  BY <1>1 DEF OfKind
<1>6. \A m \in Node : Deps(m)' = Deps(m) /\ Users(m)' = Users(m)
  BY <1>1 DEF Deps, Users
<1>7. TypeOK'
  <2>1. scheduledOut \in [Node -> Nat]
    BY <1>1 DEF IInv, TypeOK
  <2>2. QED
    BY <1>1, <1>4, <1>5, <2>1 DEF IInv, TypeOK, StartAlap, Phase
<1>8. ScheduledClosed'
  BY <1>2, <1>4, <1>5, <1>6 DEF ScheduledClosed, StartAlap
<1>9. EdgesOrdered'
  <2> SUFFICES ASSUME NEW m \in OfKind("gate"), NEW d \in Deps(m) \cap OfKind("gate")
               PROVE  FALSE
    BY <1>4, <1>5, <1>6 DEF EdgesOrdered, StartAlap
  <2>1. m \in Users(d)
    BY <1>5 DEF Users, UsersOf, Deps
  <2>2. QED
    BY <1>2, <1>5, <2>1
<1>10. NodesFitInClk' /\ NeverBackwards'
  BY <1>1, <1>4, <1>5 DEF IInv, NodesFitInClk, FitsInClk, NeverBackwards, StartAlap
<1>11. QED
  BY <1>1, <1>4, <1>5, <1>7, <1>8, <1>9, <1>10 DEF IInv, ChecksNeverFail, StartAlap

\* The offset is a number of clk periods.
LEMMA OffsetInClks ==
  ASSUME NEW minTime \in Int
  PROVE  \E k \in Int : OffsetFor(minTime) = k * Clk
<1>1. minTime \div Clk \in Int /\ (- minTime) \div Clk \in Int
  BY SchedulerAssumption, SMTT(30)
<1>2. \A a \in Int : (- a) * Clk = - (a * Clk) /\ (- (- a)) = a /\ 0 * Clk = 0 /\ - a \in Int
  BY SchedulerAssumption, SMTT(30)
<1>3. QED
  BY <1>1, <1>2 DEF OffsetFor, Ceil

\* Times of one clk are still of one clk when they are moved by clk periods and cut
\* at 0.
LEMMA OffsetKeepsClk ==
  ASSUME NEW k \in Int, NEW a \in Int, NEW b \in Int, start_clk(a) = start_clk(b)
  PROVE  start_clk(Clamped(a + k * Clk)) = start_clk(Clamped(b + k * Clk))
<1> DEFINE c == start_clk(a)
<1>1. /\ Clk \in Int /\ Clk > 0 /\ c \in Int /\ c * Clk \in Int /\ k * Clk \in Int
      /\ c * Clk <= a /\ a < c * Clk + Clk /\ c * Clk <= b /\ b < c * Clk + Clk
  BY ClkBounds, SchedulerAssumption DEF start_of_clk_period
<1>2. (c + k) * Clk = c * Clk + k * Clk /\ (c + k) * Clk \in Int
  BY <1>1, SMTT(30)
<1>3. CASE c + k >= 0
  <2>1. (c + k) * Clk >= 0
    BY <1>1, <1>3, SMTT(30)
  <2>2. a + k * Clk >= 0 /\ b + k * Clk >= 0
    BY <1>1, <1>2, <2>1
  <2>3. Clamped(a + k * Clk) = a + k * Clk /\ Clamped(b + k * Clk) = b + k * Clk
    BY <1>1, <2>2 DEF Clamped
  <2>4. start_clk(a + k * Clk) = c + k /\ start_clk(b + k * Clk) = c + k
    BY <1>1, <1>2, ClkUnique
  <2>5. QED
    BY <2>3, <2>4
<1>4. CASE c + k < 0
  <2>1. (c + k) * Clk + Clk <= 0
    BY <1>1, <1>4, SMTT(30)
  <2>2. Clamped(a + k * Clk) = 0 /\ Clamped(b + k * Clk) = 0
    BY <1>1, <1>2, <2>1 DEF Clamped
  <2>3. QED
    BY <2>2
<1>5. QED
  BY <1>1, <1>3, <1>4

\* Adding one offset to all times and cutting them at 0 keeps their order.
LEMMA OffsetStep ==
  ASSUME IInv, MoveToFirstClk
  PROVE  IInv'
<1>1. /\ phase = "offset" /\ phase' = "check"
      /\ net' = net /\ net \in Netlists
      /\ scheduled' = scheduled /\ scheduled = Node
      /\ asapSchedule' = asapSchedule
      /\ scheduledIn \in [Node -> Int]
      /\ scheduledOut \in [Node -> Int]
  BY DEF MoveToFirstClk, IInv, TypeOK, ScheduledClosed
<1>2. PICK minTime \in Times :
        IF 0 <= minTime /\ minTime < Clk
        THEN UNCHANGED <<scheduledIn, scheduledOut>>
        ELSE /\ scheduledIn'  = [n \in Node |-> Clamped(scheduledIn[n]  + OffsetFor(minTime))]
             /\ scheduledOut' = [n \in Node |-> Clamped(scheduledOut[n] + OffsetFor(minTime))]
  BY DEF MoveToFirstClk
<1>3. PICK k \in Int : OffsetFor(minTime) = k * Clk
  BY <1>1, OffsetInClks DEF Times
<1> DEFINE off == OffsetFor(minTime)
<1>13. off \in Int
  BY <1>3, SchedulerAssumption
<1>4. \A n \in Node : \A d \in Deps(n) : d \in Node /\ scheduledIn[n] >= scheduledOut[d]
  BY <1>1, NetlistFields DEF IInv, EdgesOrdered
<1>5. \A a, b \in Int : a >= b => Clamped(a + off) >= Clamped(b + off)
  BY <1>13 DEF Clamped
<1>6. \A a \in Int : Clamped(a + off) \in Int
  BY <1>13 DEF Clamped
<1>7. scheduledIn' \in [Node -> Int] /\ scheduledOut' \in [Node -> Int]
  BY <1>1, <1>2, <1>6
<1>8. \A n \in Node : \A d \in Deps(n) : scheduledIn'[n] >= scheduledOut'[d]
  <2> SUFFICES ASSUME NEW n \in Node, NEW d \in Deps(n)
               PROVE  scheduledIn'[n] >= scheduledOut'[d]
    OBVIOUS
  <2>1. d \in Node /\ scheduledIn[n] >= scheduledOut[d]
    BY <1>4
  <2>2. CASE UNCHANGED <<scheduledIn, scheduledOut>>
    BY <2>1, <2>2
  <2>3. CASE /\ scheduledIn'[n] = Clamped(scheduledIn[n] + off)
             /\ scheduledOut'[d] = Clamped(scheduledOut[d] + off)
    BY <1>1, <1>5, <2>1, <2>3
  <2>4. QED
    BY <1>2, <2>1, <2>2, <2>3
<1>9. TypeOK'
  BY <1>1, <1>7 DEF IInv, TypeOK, Phase
<1>10. EdgesOrdered'
  BY <1>1, <1>8 DEF EdgesOrdered, Deps
<1>11. NodesFitInClk' /\ NeverBackwards'
  <2>1. \A n \in Node : /\ scheduledIn[n] \in Int /\ scheduledOut[n] \in Int
                        /\ start_clk(scheduledIn[n]) = start_clk(scheduledOut[n])
                        /\ scheduledIn[n] <= scheduledOut[n]
    BY <1>1 DEF IInv, NodesFitInClk, FitsInClk, NeverBackwards
  <2>2. CASE UNCHANGED <<scheduledIn, scheduledOut>>
    BY <1>1, <2>1, <2>2 DEF NodesFitInClk, FitsInClk, NeverBackwards
  <2>3. CASE /\ scheduledIn'  = [n \in Node |-> Clamped(scheduledIn[n]  + off)]
             /\ scheduledOut' = [n \in Node |-> Clamped(scheduledOut[n] + off)]
    <3>1. \A a, b \in Int : start_clk(a) = start_clk(b) =>
            start_clk(Clamped(a + off)) = start_clk(Clamped(b + off))
      BY <1>3, OffsetKeepsClk
    <3>2. QED
      BY <1>1, <1>5, <2>1, <2>3, <3>1 DEF NodesFitInClk, FitsInClk, NeverBackwards
  <2>4. QED
    BY <1>2, <2>2, <2>3
<1>12. QED
  BY <1>1, <1>9, <1>10, <1>11 DEF IInv, ScheduledClosed, ChecksNeverFail

\* The steps that change nothing but the phase.
LEMMA PhaseStep ==
  ASSUME IInv,
         UNCHANGED <<net, scheduled, scheduledIn, scheduledOut, asapSchedule>>,
         phase' \in {"TimeConstraintError", "CycleInGraph"} \/ AlapScheduled \/ CheckSchedule
  PROVE  IInv'
<1>1. CASE phase' \in {"TimeConstraintError", "CycleInGraph"}
  BY <1>1
     DEF IInv, TypeOK, Phase, ScheduledClosed, EdgesOrdered, ChecksNeverFail, NodesFitInClk,
         NeverBackwards, FitsInClk, OfKind
<1>2. CASE AlapScheduled
  <2>1. phase = "alap" /\ phase' = "offset" /\ scheduled = Node
    BY <1>2 DEF AlapScheduled
  <2>2. EdgesOrdered'
    BY <2>1 DEF IInv, EdgesOrdered, Deps
  <2>3. NodesFitInClk' /\ NeverBackwards'
    BY <2>1 DEF IInv, NodesFitInClk, FitsInClk, NeverBackwards
  <2>4. QED
    BY <2>1, <2>2, <2>3 DEF IInv, TypeOK, Phase, ScheduledClosed, ChecksNeverFail
<1>3. CASE CheckSchedule
  <2>1. phase = "check" /\ scheduled = Node /\ net \in Netlists
    BY <1>3 DEF CheckSchedule, IInv, ScheduledClosed, TypeOK
  <2>2. \A n \in Node : Deps(n) \subseteq Node
    BY <2>1, NetlistFields
  <2>3. AllNodesScheduled
    BY <2>1, <2>2 DEF AllNodesScheduled, IInv, EdgesOrdered
  <2>4. phase' = "done"
    BY <1>3, <2>3 DEF CheckSchedule
  <2>5. EdgesOrdered'
    BY <2>1 DEF IInv, EdgesOrdered, Deps
  <2>6. NodesFitInClk' /\ NeverBackwards'
    BY <2>1 DEF IInv, NodesFitInClk, FitsInClk, NeverBackwards
  <2>7. QED
    BY <2>1, <2>4, <2>5, <2>6 DEF IInv, TypeOK, Phase, ScheduledClosed, ChecksNeverFail, OfKind
<1>4. QED
  BY <1>1, <1>2, <1>3

LEMMA NextInv == IInv /\ [Next]_vars => IInv'
<1> SUFFICES ASSUME IInv, [Next]_vars
             PROVE  IInv'
  OBVIOUS
<1>1. ASSUME NEW n \in Node, AsapTimeConstraintError(n) \/ AlapTimeConstraintError(n)
      PROVE  IInv'
  BY <1>1, PhaseStep DEF AsapTimeConstraintError, AlapTimeConstraintError, Raise
<1>2. CASE CycleInGraph
  BY <1>2, PhaseStep DEF CycleInGraph, Raise
<1>3. CASE AlapScheduled
  BY <1>3, PhaseStep DEF AlapScheduled
<1>4. CASE CheckSchedule
  BY <1>4, PhaseStep DEF CheckSchedule
<1>5. CASE UNCHANGED vars
  <2>1. /\ UNCHANGED <<phase, net, scheduled, scheduledIn, scheduledOut, asapSchedule>>
    BY <1>5 DEF vars
  <2>2. \A n : Deps(n)' = Deps(n) /\ Users(n)' = Users(n)
    BY <2>1 DEF Deps, Users
  <2>3. QED
    BY <2>1, <2>2
       DEF IInv, TypeOK, ScheduledClosed, EdgesOrdered, ChecksNeverFail, NodesFitInClk,
           NeverBackwards, FitsInClk, OfKind
<1>6. QED
  BY <1>1, <1>2, <1>3, <1>4, <1>5, AsapStep, AlapStep, ConstStep, CheckAsapStep, OffsetStep
     DEF Next, NextAsap, NextAlap, Terminated

-----------------------------------------------------------------------------
\* Every variable keeps its type.
THEOREM TypeCorrect == Spec => []TypeOK
<1>1. IInv => TypeOK
  BY DEF IInv
<1>2. QED
  BY <1>1, InitInv, NextInv, PTL DEF Spec

\* The assertions of _checkAllNodesScheduled hold after ASAP and after the
\* compaction, for every netlist the scheduler can be given.
THEOREM SchedulerAssertionsHold == Spec => []ChecksNeverFail
<1>1. IInv => ChecksNeverFail
  BY DEF IInv
<1>2. QED
  BY <1>1, InitInv, NextInv, PTL DEF Spec

\* Every node starts and ends in one clk, in the final schedule too.
THEOREM NoNodeCrossesClk == Spec => []NodesFitInClk
<1>1. IInv => NodesFitInClk
  BY DEF IInv
<1>2. QED
  BY <1>1, InitInv, NextInv, PTL DEF Spec

-----------------------------------------------------------------------------
\* The net decides on dependencies, users and what is away from the gates.
LEMMA NetUnchanged ==
  ASSUME net' = net
  PROVE  /\ \A n : Deps(n)' = Deps(n) /\ Users(n)' = Users(n)
         /\ AwayFromGates' = AwayFromGates
         /\ Acyclic' = Acyclic
         /\ \A k : OfKind(k)' = OfKind(k)
  BY DEF Deps, Users, AwayFromGates, OfKind, Acyclic

\* The users of a node away from the gates are away from them too.
LEMMA AwayClosed ==
  ASSUME NEW n \in AwayFromGates
  PROVE  /\ n \in Node
         /\ n \notin OfKind("gate")
         /\ Users(n) \subseteq AwayFromGates
<1>1. PICK S \in SUBSET (Node \ OfKind("gate")) :
         n \in S /\ \A m \in S : Users(m) \subseteq S
  BY DEF AwayFromGates
<1>2. S \subseteq AwayFromGates
  BY <1>1 DEF AwayFromGates
<1>3. QED
  BY <1>1, <1>2

-----------------------------------------------------------------------------
\* An earlier time of the same clk leaves the register even more time.
LEMMA SetupMetBefore ==
  ASSUME NEW t \in Int, NEW u \in Int, u <= t, start_clk(u) = start_clk(t),
         SetupTimeMet(t)
  PROVE  SetupTimeMet(u)
<1>1. start_of_next_clk_period(u) = start_of_next_clk_period(t)
  BY DEF start_of_next_clk_period
<1>2. start_of_next_clk_period(t) \in Int
  BY ClkBounds, SchedulerAssumption
<1>3. QED
  BY <1>1, <1>2, SchedulerAssumption DEF SetupTimeMet

\* Each place the code moves a node to is FF before the end of a clk.
LEMMA SetupMetAtEnd ==
  ASSUME NEW t \in Int, NEW k \in Nat \ {0}, NEW e \in {FF, FF + Eps}
  PROVE  SetupTimeMet(start_of_clk_period(t) - (k - 1) * Clk - e)
<1> DEFINE s == start_of_clk_period(t)
           u == s - (k - 1) * Clk - e
           c == start_clk(t)
<1>1. /\ c \in Int
      /\ s \in Int
      /\ Clk \in Nat /\ e \in Nat
      /\ 0 < e /\ e < Clk
  BY ClkBounds, SchedulerAssumption DEF Eps
<1>2. /\ (k - 1) * Clk \in Nat
      /\ (c - k) * Clk = s - (k - 1) * Clk - Clk
  BY <1>1, EarlierClks DEF start_of_clk_period
<1>3. u \in Int /\ c - k \in Int /\ (c - k) * Clk \in Int
  BY <1>1, <1>2
<1>4. start_clk(u) = c - k
  <2>1. (c - k) * Clk <= u /\ u < (c - k) * Clk + Clk
    BY <1>1, <1>2
  <2>2. QED
    BY <1>3, <2>1, ClkUnique
<1>5. start_of_clk_period(u) = (c - k) * Clk
  BY <1>4 DEF start_of_clk_period
<1>6. start_of_next_clk_period(u) = u + e
  <2>1. start_of_next_clk_period(u) = start_of_clk_period(u) + Clk
    BY <1>3, ClkBounds
  <2>2. QED
    BY <1>1, <1>2, <1>5, <2>1
<1>7. QED
  BY <1>1, <1>3, <1>6, SchedulerAssumption DEF SetupTimeMet, Eps

\* The output without a user.
LEMMA SetupMetWithoutUser ==
  ASSUME NEW t \in Int
  PROVE  /\ end_of_clk_before_ff(t) \in Int
         /\ SetupTimeMet(end_of_clk_before_ff(t))
<1> DEFINE n == start_of_next_clk_period(t)
<1>1. /\ start_clk(t) + 1 \in Int
      /\ n = (start_clk(t) + 1) * Clk
      /\ n \in Int
  BY ClkBounds, SchedulerAssumption DEF start_of_next_clk_period
<1>2. start_clk(n) = start_clk(t) + 1
  BY <1>1, SchedulerAssumption, ClkUnique
<1>3. start_of_clk_period(n) = n
  BY <1>1, <1>2 DEF start_of_clk_period
<1>4. (1 - 1) * Clk = 0
  BY SchedulerAssumption
<1>5. SetupTimeMet(start_of_clk_period(n) - (1 - 1) * Clk - (FF + Eps))
  BY <1>1, SetupMetAtEnd
<1>6. end_of_clk_before_ff(t) = start_of_clk_period(n) - (1 - 1) * Clk - (FF + Eps)
  BY <1>1, <1>3, <1>4, SchedulerAssumption DEF end_of_clk_before_ff, Eps
<1>7. end_of_clk_before_ff(t) \in Int
  BY <1>1, SchedulerAssumption DEF end_of_clk_before_ff, Eps
<1>8. QED
  BY <1>5, <1>6, <1>7

\* The clk boundary and the IO limit move a node only to such places.
LEMMA TimeForInputsSetup ==
  ASSUME net \in Netlists, NEW n \in Node, NEW t \in Int, SetupTimeMet(t)
  PROVE  SetupTimeMet(TimeForInputs(n, t))
<1>1. /\ NumberOfInputs(n) \in Nat
      /\ Deps(n) # {} => NumberOfInputs(n) >= 1
      /\ start_of_clk_period(t) \in Int
      /\ Clk \in Nat /\ FF \in Nat
  BY NetlistFields, ClkBounds, SchedulerAssumption
<1>2. Deps(n) = {} <=> net.dataDeps[n] = {} /\ net.ordDeps[n] = {}
  BY DEF Deps, DepsOf
<1>3. CASE Deps(n) = {} \/ t - net.delay[n] > start_of_clk_period(t)
  BY <1>2, <1>3 DEF TimeForInputs
<1>4. CASE ~ (Deps(n) = {} \/ t - net.delay[n] > start_of_clk_period(t))
  <2>1. PICK k \in Nat \ {0} :
          TimeForInputs(n, t) = start_of_clk_period(t) - (k - 1) * Clk - FF - Eps
    <3>1. CASE net.delay[n] + FF + Eps < Clk
      BY <1>2, <1>4, <3>1 DEF TimeForInputs
    <3>2. CASE ~ (net.delay[n] + FF + Eps < Clk)
      <4>1. TimeForInputs(n, t) =
              start_of_clk_period(t) - (NumberOfInputs(n) - 1) * Clk - FF - Eps
        BY <1>1, <1>2, <1>4, <3>2 DEF TimeForInputs
      <4>2. NumberOfInputs(n) \in Nat \ {0}
        BY <1>1, <1>4
      <4>3. QED
        BY <4>1, <4>2
    <3>3. QED
      BY <3>1, <3>2
  <2>2. (k - 1) * Clk \in Nat
    BY <2>1, EarlierClks
  <2>3. TimeForInputs(n, t) = start_of_clk_period(t) - (k - 1) * Clk - (FF + Eps)
    BY <1>1, <2>1, <2>2 DEF Eps
  <2>4. QED
    BY <2>3, SetupMetAtEnd
<1>5. QED
  BY <1>3, <1>4

LEMMA IoTimeSetup ==
  ASSUME NEW t \in Int, NEW k \in Nat, SetupTimeMet(t)
  PROVE  SetupTimeMet(IoTime(t, k))
<1>1. CASE k = 0
  BY <1>1 DEF IoTime
<1>2. CASE k # 0
  BY <1>2, SetupMetAtEnd DEF IoTime
<1>3. QED
  BY <1>1, <1>2

-----------------------------------------------------------------------------
(***************************************************************************)
(* SetupTimeKept talks about the end of the compaction.  While it runs the *)
(* setup time holds for what is scheduled: a node gets the time of one of  *)
(* its users, which has it, or one of the places above.                    *)
(***************************************************************************)
SetupSoFar ==
  phase \in {"alap", "offset"} =>
    \A n \in scheduled \cap AwayFromGates :
      /\ scheduledIn[n] <= scheduledOut[n]
      /\ SetupTimeMet(scheduledOut[n])

LEMMA AlapSetup ==
  ASSUME IInv, SetupSoFar, NEW n \in Node, ScheduleAlapCompaction(n)
  PROVE  SetupSoFar'
<1> DEFINE D == net.delay[n]
           required == IF Users(n) = {}
                       THEN {end_of_clk_before_ff(asapSchedule.out[n])}
                       ELSE {scheduledIn[u] : u \in Users(n)}
<1>1. /\ phase = "alap"
      /\ net' = net /\ net \in Netlists
      /\ Users(n) \subseteq scheduled
      /\ scheduled \subseteq Node
      /\ scheduledIn \in [Node -> Int]
      /\ scheduledOut \in [Node -> Int]
      /\ asapSchedule.out[n] \in Int
      /\ D \in Nat
      /\ Deps(n) # {} => D + FF < Clk
  BY NetlistFields DEF ScheduleAlapCompaction, AlapReady, IInv, TypeOK
<1>2. PICK r \in required, k \in 0..Cardinality(Node) :
        SetTime(n, IoTime(TimeForInputs(n, r), k))
  BY DEF ScheduleAlapCompaction
<1> DEFINE t == TimeForInputs(n, r)
           u == IoTime(t, k)
<1>3. r \in Int
  BY <1>1, <1>2, SetupMetWithoutUser
<1>4. t \in Int /\ u \in Int
  <2>1. t \in Int
    BY <1>1, <1>3, TimeForInputsBounds
  <2>2. k \in Nat
    BY <1>2
  <2>3. QED
    BY <2>1, <2>2, IoTimeBounds
<1>5. /\ scheduled' = scheduled \cup {n}
      /\ scheduledIn'[n] = u - D
      /\ scheduledOut'[n] = u
      /\ \A m \in Node \ {n} : /\ scheduledIn'[m] = scheduledIn[m]
                               /\ scheduledOut'[m] = scheduledOut[m]
  BY <1>2, <1>4, SetTimeFacts
<1>6. AwayFromGates' = AwayFromGates
  BY <1>1, NetUnchanged
<1>7. n \in AwayFromGates => SetupTimeMet(u)
  <2> SUFFICES ASSUME n \in AwayFromGates
               PROVE  SetupTimeMet(u)
    OBVIOUS
  <2>1. SetupTimeMet(r)
    <3>1. CASE Users(n) = {}
      BY <1>1, <1>2, <3>1, SetupMetWithoutUser
    <3>2. CASE Users(n) # {}
      <4>1. PICK m \in Users(n) : r = scheduledIn[m]
        BY <1>2, <3>2
      <4>2. m \in scheduled /\ m \in AwayFromGates /\ m \in Node
        BY <1>1, <4>1, AwayClosed
      <4>3. /\ scheduledIn[m] <= scheduledOut[m]
            /\ SetupTimeMet(scheduledOut[m])
        BY <1>1, <4>2 DEF SetupSoFar
      <4>4. start_clk(scheduledIn[m]) = start_clk(scheduledOut[m])
        BY <1>1, <4>2 DEF IInv, NodesFitInClk, FitsInClk, NeverBackwards
      <4>5. QED
        BY <1>1, <4>1, <4>2, <4>3, <4>4, SetupMetBefore
    <3>3. QED
      BY <3>1, <3>2
  <2>2. SetupTimeMet(t)
    BY <1>1, <1>3, <2>1, TimeForInputsSetup
  <2>3. k \in Nat
    BY <1>2
  <2>4. QED
    BY <1>4, <2>2, <2>3, IoTimeSetup
<1>8. ASSUME NEW m \in scheduled' \cap AwayFromGates
      PROVE  /\ scheduledIn'[m] <= scheduledOut'[m]
             /\ SetupTimeMet(scheduledOut'[m])
  <2>1. CASE m = n
    BY <1>1, <1>4, <1>5, <1>7, <2>1, <1>8
  <2>2. CASE m # n
    <3>1. m \in scheduled \cap AwayFromGates /\ m \in Node \ {n}
      BY <1>1, <1>5, <1>8, <2>2
    <3>2. QED
      BY <1>1, <1>5, <3>1 DEF SetupSoFar
  <2>3. QED
    BY <2>1, <2>2
<1>9. QED
  BY <1>6, <1>8 DEF SetupSoFar, SetupTimeMet, start_of_next_clk_period, start_clk

LEMMA ConstSetup ==
  ASSUME IInv, SetupSoFar, NEW c \in Node, ScheduleConst(c), IInv'
  PROVE  SetupSoFar'
<1>1. /\ phase = "alap"
      /\ net' = net /\ net \in Netlists
      /\ scheduled \subseteq Node
      /\ scheduledIn \in [Node -> Int]
      /\ scheduledOut \in [Node -> Int]
      /\ net.delay[c] = 0
      /\ Users(c) \subseteq Node
      /\ phase' = "alap"
  BY NetlistFields DEF ScheduleConst, IInv, TypeOK
<1>2. PICK t \in {scheduledIn[u] : u \in Users(c)} : SetTime(c, t)
  BY DEF ScheduleConst
<1>3. PICK m \in Users(c) : t = scheduledIn[m]
  BY <1>2
<1>4. t \in Int /\ m \in Node
  BY <1>1, <1>3
<1>5. /\ scheduled' = scheduled \cup {c}
      /\ scheduledIn'[c] = t
      /\ scheduledOut'[c] = t
      /\ \A n \in Node \ {c} : /\ scheduledIn'[n] = scheduledIn[n]
                               /\ scheduledOut'[n] = scheduledOut[n]
  BY <1>1, <1>2, <1>4, SetTimeFacts
<1>6. AwayFromGates' = AwayFromGates /\ Users(c)' = Users(c)
  BY <1>1, NetUnchanged
<1>7. c \in AwayFromGates => SetupTimeMet(t)
  <2> SUFFICES ASSUME c \in AwayFromGates
               PROVE  SetupTimeMet(t)
    OBVIOUS
  <2>1. m \in AwayFromGates
    BY <1>3, AwayClosed
  <2>2. m \in scheduled' /\ m # c
    <3>1. c \in scheduled'
      BY <1>5
    <3>2. m \in scheduled'
      BY <1>1, <1>3, <1>6, <3>1 DEF IInv, ScheduledClosed
    <3>3. Deps(m) # {}
      BY <1>3, <1>4 DEF Users, UsersOf, Deps
    <3>4. Deps(c) = {}
      BY <1>1, NetlistFields DEF ScheduleConst
    <3>5. QED
      BY <3>2, <3>3, <3>4
  <2>3. m \in scheduled
    BY <1>5, <2>2
  <2>4. /\ scheduledIn[m] <= scheduledOut[m]
        /\ SetupTimeMet(scheduledOut[m])
    BY <1>1, <2>1, <2>3 DEF SetupSoFar
  <2>5. start_clk(scheduledIn[m]) = start_clk(scheduledOut[m])
    BY <1>1, <2>3 DEF IInv, NodesFitInClk, FitsInClk, NeverBackwards
  <2>6. QED
    BY <1>1, <1>3, <1>4, <2>4, <2>5, SetupMetBefore
<1>8. ASSUME NEW n \in scheduled' \cap AwayFromGates
      PROVE  /\ scheduledIn'[n] <= scheduledOut'[n]
             /\ SetupTimeMet(scheduledOut'[n])
  <2>1. CASE n = c
    BY <1>4, <1>5, <1>7, <1>8, <2>1
  <2>2. CASE n # c
    <3>1. n \in scheduled \cap AwayFromGates /\ n \in Node \ {c}
      BY <1>1, <1>5, <1>8, <2>2
    <3>2. QED
      BY <1>1, <1>5, <3>1 DEF SetupSoFar
  <2>3. QED
    BY <2>1, <2>2
<1>9. QED
  BY <1>6, <1>8 DEF SetupSoFar, SetupTimeMet, start_of_next_clk_period, start_clk

LEMMA SetupNext == IInv /\ SetupSoFar /\ [Next]_vars => SetupSoFar'
<1> SUFFICES ASSUME IInv, SetupSoFar, [Next]_vars
             PROVE  SetupSoFar'
  OBVIOUS
<1>1. IInv'
  BY NextInv
<1>2. CASE CheckAsapSchedule
  <2>1. net' = net /\ (phase' = "alap" => scheduled' = OfKind("gate"))
    BY <1>2 DEF CheckAsapSchedule, StartAlap
  <2>2. phase' # "offset"
    BY <1>2 DEF CheckAsapSchedule
  <2>3. AwayFromGates' \cap OfKind("gate") = {}
    BY <2>1, NetUnchanged, AwayClosed
  <2>4. QED
    BY <2>1, <2>2, <2>3 DEF SetupSoFar
<1>3. CASE MoveToFirstClk
  BY <1>3 DEF MoveToFirstClk, SetupSoFar
<1>4. ASSUME phase' \in {"alap", "offset"} => phase \in {"alap", "offset"},
             UNCHANGED <<net, scheduled, scheduledIn, scheduledOut>>
      PROVE  SetupSoFar'
  <2>1. AwayFromGates' = AwayFromGates
    BY <1>4, NetUnchanged
  <2>2. QED
    BY <1>4, <2>1 DEF SetupSoFar, SetupTimeMet, start_of_next_clk_period, start_clk
<1>5. ASSUME NEW n \in Node, AsapTimeConstraintError(n) \/ AlapTimeConstraintError(n)
      PROVE  SetupSoFar'
  BY <1>5 DEF AsapTimeConstraintError, AlapTimeConstraintError, Raise, SetupSoFar
<1>6. ASSUME NEW n \in Node, ScheduleAsap(n)
      PROVE  SetupSoFar'
  BY <1>6 DEF ScheduleAsap, AsapReady, SetupSoFar
<1>7. CASE CycleInGraph \/ CheckSchedule
  BY <1>7 DEF CycleInGraph, Raise, CheckSchedule, SetupSoFar
<1>8. CASE AlapScheduled
  BY <1>4, <1>8 DEF AlapScheduled
<1>9. CASE UNCHANGED vars
  BY <1>4, <1>9 DEF vars
<1>10. QED
  BY <1>1, <1>2, <1>3, <1>5, <1>6, <1>7, <1>8, <1>9, AlapSetup, ConstSetup
     DEF Next, NextAsap, NextAlap, Terminated

\* scheduleAlapCompaction leaves every register its setup time, in every
\* netlist and for every clk period and register delay.
THEOREM RegistersHaveSetupTime == Spec => []SetupTimeKept
<1>1. Init => SetupSoFar
  BY DEF Init, SetupSoFar
<1>2. IInv /\ SetupSoFar => SetupTimeKept
  <2> SUFFICES ASSUME IInv, SetupSoFar, phase = "offset", NEW n \in AwayFromGates
               PROVE  SetupTimeMet(scheduledOut[n])
    BY DEF SetupTimeKept
  <2>1. n \in scheduled
    BY AwayClosed DEF IInv, ScheduledClosed
  <2>2. QED
    BY <2>1 DEF SetupSoFar
<1>3. QED
  BY <1>1, <1>2, InitInv, NextInv, SetupNext, PTL DEF Spec

-----------------------------------------------------------------------------
(***************************************************************************)
(* The move to clk 0.  Whatever the smallest time is, it is moved into the *)
(* first clk, or cut there.                                                *)
(***************************************************************************)
LEMMA SmallestTimeMoved ==
  ASSUME NEW m \in Int, ~ (0 <= m /\ m < Clk)
  PROVE  /\ OffsetFor(m) \in Int
         /\ start_clk(Clamped(m + OffsetFor(m))) = 0
<1> DEFINE k == start_clk(m)
           j == start_clk(- m)
<1>1. Clk \in Nat /\ Clk > 0
  BY SchedulerAssumption
<1>2. /\ k \in Int /\ k * Clk \in Int /\ k * Clk <= m /\ m < k * Clk + Clk
      /\ j \in Int /\ j * Clk \in Int /\ j * Clk <= - m
  BY <1>1, ClkBounds DEF start_of_clk_period
<1>3. \A t \in Int : 0 <= t /\ t < Clk => start_clk(t) = 0
  <2>1. 0 * Clk = 0
    BY <1>1
  <2>2. QED
    BY <1>1, <2>1, ClkUnique
<1>4. CASE m < 0
  <2>1. OffsetFor(m) = - ((- j) * Clk)
    BY <1>4 DEF OffsetFor, Ceil, start_clk
  <2>2. \A a, b \in Int : - ((- a) * b) = a * b
    BY SMTT(30)
  <2>3. OffsetFor(m) = j * Clk
    BY <1>1, <1>2, <2>1, <2>2
  <2>4. OffsetFor(m) \in Int /\ m + OffsetFor(m) <= 0
    <3>1. \A q \in Int : q <= - m => m + q <= 0
      OBVIOUS
    <3>2. QED
      BY <1>2, <2>3, <3>1
  <2>5. Clamped(m + OffsetFor(m)) = 0
    BY <2>4 DEF Clamped
  <2>6. QED
    BY <1>1, <1>3, <2>4, <2>5
<1>5. CASE m >= Clk
  <2>1. OffsetFor(m) = - (k * Clk)
    BY <1>1, <1>5 DEF OffsetFor, start_clk
  <2>2. m + OffsetFor(m) \in Int /\ 0 <= m + OffsetFor(m) /\ m + OffsetFor(m) < Clk
    BY <1>1, <1>2, <2>1
  <2>3. QED
    BY <1>2, <1>3, <2>1, <2>2 DEF Clamped
<1>6. QED
  BY <1>1, <1>4, <1>5

LEMMA MovedToFirstClk ==
  ASSUME IInv, MoveToFirstClk
  PROVE  ScheduleStartsInFirstClk'
<1>1. /\ scheduledIn \in [Node -> Int]
      /\ scheduledOut \in [Node -> Int]
  BY DEF MoveToFirstClk, IInv, TypeOK
<1>2. PICK m \in Times :
        /\ IsMin(m, Times)
        /\ IF 0 <= m /\ m < Clk
           THEN UNCHANGED <<scheduledIn, scheduledOut>>
           ELSE /\ scheduledIn'  = [n \in Node |-> Clamped(scheduledIn[n]  + OffsetFor(m))]
                /\ scheduledOut' = [n \in Node |-> Clamped(scheduledOut[n] + OffsetFor(m))]
  BY DEF MoveToFirstClk
<1>3. m \in Int /\ Times \subseteq Int
  BY <1>1 DEF Times
<1>4. CASE 0 <= m /\ m < Clk
  <2>1. Times' = Times
    BY <1>2, <1>4 DEF Times
  <2>2. \A t \in Times : t >= 0
    <3>1. \A t \in Times : t \in Int /\ m <= t
      BY <1>2, <1>3 DEF IsMin
    <3>2. QED
      BY <1>3, <1>4, <3>1
  <2>3. start_clk(m) = 0
    <3>1. 0 * Clk = 0 /\ Clk \in Int
      BY SchedulerAssumption
    <3>2. QED
      BY <1>3, <1>4, <3>1, ClkUnique
  <2>4. \E t \in Times : start_clk(t) = 0
    BY <1>2, <2>3
  <2>5. QED
    BY <2>1, <2>2, <2>4 DEF ScheduleStartsInFirstClk, start_clk
<1>5. CASE ~ (0 <= m /\ m < Clk)
  <2>1. OffsetFor(m) \in Int /\ start_clk(Clamped(m + OffsetFor(m))) = 0
    BY <1>3, <1>5, SmallestTimeMoved
  <2>2. Times' = {Clamped(t + OffsetFor(m)) : t \in Times}
    BY <1>2, <1>5 DEF Times
  <2>3. \A t \in Int : Clamped(t + OffsetFor(m)) >= 0
    BY <2>1 DEF Clamped
  <2>4. \A t \in Times' : t >= 0
    BY <1>3, <2>2, <2>3
  <2>5. Clamped(m + OffsetFor(m)) \in Times'
    BY <2>2
  <2>6. QED
    BY <2>1, <2>4, <2>5 DEF ScheduleStartsInFirstClk, start_clk
<1>6. QED
  BY <1>4, <1>5

\* The end of _scheduleAlapCompaction: for every schedule, however far the
\* compaction went below 0, no time is negative and clk 0 is used.
THEOREM FirstClkIsUsed == Spec => []ScheduleStartsInFirstClk
<1>1. Init => ScheduleStartsInFirstClk
  BY DEF Init, ScheduleStartsInFirstClk
<1>2. ASSUME IInv, ScheduleStartsInFirstClk, [Next]_vars
      PROVE  ScheduleStartsInFirstClk'
  <2>1. CASE MoveToFirstClk
    BY <1>2, <2>1, MovedToFirstClk
  <2>2. ASSUME phase' \in {"check", "done"} => phase \in {"check", "done"},
               UNCHANGED <<scheduledIn, scheduledOut>>
        PROVE  ScheduleStartsInFirstClk'
    BY <1>2, <2>2 DEF ScheduleStartsInFirstClk, Times, start_clk
  <2>3. ASSUME phase' \notin {"check", "done"}
        PROVE  ScheduleStartsInFirstClk'
    BY <2>3 DEF ScheduleStartsInFirstClk
  <2>4. CASE CheckSchedule
    BY <2>2, <2>4 DEF CheckSchedule
  <2>5. CASE UNCHANGED vars
    BY <2>2, <2>5 DEF vars
  <2>6. CASE NextAsap \/ AlapScheduled \/ \E n \in Node : AlapTimeConstraintError(n)
    BY <2>3, <2>6
       DEF NextAsap, AsapTimeConstraintError, AlapTimeConstraintError, Raise, AsapReady,
           ScheduleAsap, CycleInGraph, CheckAsapSchedule, AlapScheduled
  <2>7. CASE \E n \in Node : ScheduleAlapCompaction(n) \/ ScheduleConst(n)
    BY <2>3, <2>7 DEF ScheduleAlapCompaction, AlapReady, ScheduleConst
  <2>8. QED
    BY <1>2, <2>1, <2>4, <2>5, <2>6, <2>7 DEF Next, NextAlap, Terminated
<1>3. QED
  BY <1>1, <1>2, InitInv, NextInv, PTL DEF Spec

-----------------------------------------------------------------------------
(***************************************************************************)
(* The report of a cycle.  A set of nodes without a first one can never    *)
(* get its first node scheduled.                                           *)
(***************************************************************************)
ScheduledHaveFirst ==
  phase = "asap" =>
    \A S \in SUBSET Node : S \cap scheduled # {} => \E n \in S : Deps(n) \cap S = {}

LEMMA CycleNext ==
  IInv /\ ScheduledHaveFirst /\ CycleIffReported /\ [Next]_vars
    => ScheduledHaveFirst' /\ CycleIffReported'
<1> SUFFICES ASSUME IInv, ScheduledHaveFirst, CycleIffReported, [Next]_vars
             PROVE  ScheduledHaveFirst' /\ CycleIffReported'
  OBVIOUS
<1>1. /\ net' = net
      /\ \A n : Deps(n)' = Deps(n)
      /\ Acyclic' = Acyclic
  <2>1. net' = net
    BY DEF Next, NextAsap, NextAlap, Terminated, vars, AsapTimeConstraintError,
           AlapTimeConstraintError, Raise, ScheduleAsap, CycleInGraph, CheckAsapSchedule,
           ScheduleAlapCompaction, ScheduleConst, AlapScheduled, MoveToFirstClk, CheckSchedule
  <2>2. QED
    BY <2>1, NetUnchanged
<1>2. \A n \in Node : Deps(n) \subseteq Node
  BY NetlistFields DEF IInv
<1>3. ASSUME NEW n \in Node, ScheduleAsap(n)
      PROVE  ScheduledHaveFirst' /\ CycleIffReported'
  <2>1. /\ phase = "asap" /\ phase' = "asap"
        /\ Deps(n) \subseteq scheduled
        /\ n \notin scheduled
        /\ scheduled' = scheduled \cup {n}
    BY <1>3 DEF ScheduleAsap, AsapReady, SetTime
  <2>2. ASSUME NEW S \in SUBSET Node, S \cap scheduled' # {}
        PROVE  \E m \in S : Deps(m) \cap S = {}
    <3>1. CASE S \cap scheduled # {}
      BY <2>1, <3>1 DEF ScheduledHaveFirst
    <3>2. CASE S \cap scheduled = {}
      BY <2>1, <2>2, <3>2
    <3>3. QED
      BY <3>1, <3>2
  <2>3. QED
    BY <1>1, <2>1, <2>2 DEF ScheduledHaveFirst, CycleIffReported
<1>4. CASE CycleInGraph
  <2>1. /\ phase = "asap" /\ phase' = "CycleInGraph"
        /\ scheduled # Node
        /\ \A n \in Node \ scheduled : ~ AsapReady(n)
        /\ scheduled \subseteq Node
    BY <1>4 DEF CycleInGraph, Raise, IInv, TypeOK
  <2>2. \A n \in Node \ scheduled : Deps(n) \cap (Node \ scheduled) # {}
    BY <1>2, <2>1 DEF AsapReady
  <2>3. ~ Acyclic
    <3>1. Node \ scheduled \in SUBSET Node /\ Node \ scheduled # {}
      BY <2>1
    <3>2. QED
      BY <2>2, <3>1 DEF Acyclic
  <2>4. QED
    BY <1>1, <2>1, <2>3 DEF ScheduledHaveFirst, CycleIffReported
<1>5. CASE CheckAsapSchedule
  <2>1. phase = "asap" /\ phase' # "asap" /\ phase' # "CycleInGraph" /\ scheduled = Node
    BY <1>5 DEF CheckAsapSchedule
  <2>2. Acyclic
    <3> SUFFICES ASSUME NEW S \in SUBSET Node, S # {}
                 PROVE  \E n \in S : Deps(n) \cap S = {}
      BY DEF Acyclic
    <3>1. S \cap scheduled # {}
      BY <2>1
    <3>2. QED
      BY <2>1, <3>1 DEF ScheduledHaveFirst
  <2>3. QED
    BY <1>1, <2>1, <2>2 DEF ScheduledHaveFirst, CycleIffReported
<1>6. ASSUME phase' \notin {"asap", "CycleInGraph"},
             phase' \in {"alap", "offset", "check", "done"}
               => phase \in {"alap", "offset", "check", "done"}
      PROVE  ScheduledHaveFirst' /\ CycleIffReported'
  BY <1>1, <1>6 DEF ScheduledHaveFirst, CycleIffReported
<1>7. ASSUME NEW n \in Node, AsapTimeConstraintError(n) \/ AlapTimeConstraintError(n)
      PROVE  ScheduledHaveFirst' /\ CycleIffReported'
  BY <1>6, <1>7 DEF AsapTimeConstraintError, AlapTimeConstraintError, Raise
<1>8. ASSUME NEW n \in Node, ScheduleAlapCompaction(n) \/ ScheduleConst(n)
      PROVE  ScheduledHaveFirst' /\ CycleIffReported'
  BY <1>6, <1>8 DEF ScheduleAlapCompaction, AlapReady, ScheduleConst
<1>9. CASE AlapScheduled \/ MoveToFirstClk \/ CheckSchedule
  BY <1>6, <1>9 DEF AlapScheduled, MoveToFirstClk, CheckSchedule
<1>10. CASE UNCHANGED vars
  <2>1. scheduled' = scheduled /\ phase' = phase
    BY <1>10 DEF vars
  <2>2. QED
    BY <1>1, <2>1 DEF ScheduledHaveFirst, CycleIffReported
<1>11. QED
  BY <1>3, <1>4, <1>5, <1>7, <1>8, <1>9, <1>10 DEF Next, NextAsap, NextAlap, Terminated

\* schedule() reports a cycle only for a netlist which has one, and finishes or
\* gives up on a timing constraint only for one which has none, in each order
\* of the recursion.
THEOREM CyclesAreReported == Spec => []CycleIffReported
<1>1. Init => ScheduledHaveFirst /\ CycleIffReported
  BY DEF Init, ScheduledHaveFirst, CycleIffReported
<1>2. QED
  BY <1>1, InitInv, NextInv, CycleNext, PTL DEF Spec

-----------------------------------------------------------------------------
\* Numbers: a set of them has a least one, a finite set a largest one.
LEMMA LeastNat ==
  ASSUME NEW T \in SUBSET Nat, T # {}
  PROVE  \E x \in T : \A y \in T : x <= y
<1> DEFINE R == {p \in Nat \X Nat : p[1] < p[2]}
<1>1. OpToRel(<, Nat) = R
  BY DEF OpToRel
<1>2. IsWellFoundedOn(R, Nat)
  BY NatLessThanWellFounded, <1>1
<1> HIDE DEF R
<1>3. PICK x \in T : \A y \in T : ~ (<<y, x>> \in R)
  BY <1>2, WFMin
<1>4. ASSUME NEW y \in T, y < x
      PROVE  FALSE
  <2>1. y \in Nat /\ x \in Nat /\ <<y, x>> \in Nat \X Nat
    OBVIOUS
  <2>2. <<y, x>>[1] < <<y, x>>[2]
    BY <1>4
  <2>3. <<y, x>> \in R
    BY <2>1, <2>2 DEF R
  <2>4. QED
    BY <1>3, <2>3
<1>5. QED
  BY <1>4

LEMMA LargestOfFinite ==
  ASSUME NEW K \in SUBSET Nat, IsFiniteSet(K), K # {}
  PROVE  IsMax(Largest(K), K)
<1> DEFINE Bad == {c \in Nat : \E L \in SUBSET Nat :
                     IsFiniteSet(L) /\ L # {} /\ Cardinality(L) = c /\ ~ \E t : IsMax(t, L)}
<1>1. Bad = {}
  <2> SUFFICES ASSUME Bad # {}
               PROVE  FALSE
    OBVIOUS
  <2>1. PICK c \in Bad : \A b \in Bad : c <= b
    BY LeastNat
  <2>2. PICK L \in SUBSET Nat :
          IsFiniteSet(L) /\ L # {} /\ Cardinality(L) = c /\ ~ \E t : IsMax(t, L)
    BY <2>1
  <2>3. PICK x \in L : TRUE
    BY <2>2
  <2>4. /\ IsFiniteSet(L \ {x})
        /\ Cardinality(L \ {x}) = c - 1
        /\ Cardinality(L \ {x}) \in Nat
    BY <2>2, <2>3, FS_RemoveElement, FS_CardinalityType
  <2>5. L \ {x} # {}
    <3>1. L \ {x} = {} => IsMax(x, L)
      BY <2>3 DEF IsMax
    <3>2. QED
      BY <2>2, <3>1
  <2>6. c - 1 \notin Bad
    <3>1. c \in Nat /\ ~ (c <= c - 1)
      BY <2>1
    <3>2. QED
      BY <2>1, <3>1
  <2>7. PICK y : IsMax(y, L \ {x})
    BY <2>4, <2>5, <2>6
  <2>8. IsMax(x, L) \/ IsMax(y, L)
    <3>1. x \in Nat /\ y \in Nat
      BY <2>3, <2>7 DEF IsMax
    <3>2. \A s \in L : s = x \/ s <= y
      BY <2>7 DEF IsMax
    <3>3. \A s \in L : s \in Nat
      OBVIOUS
    <3>4. CASE x <= y
      <4>1. y \in L
        BY <2>7 DEF IsMax
      <4>2. QED
        BY <3>1, <3>2, <3>4, <4>1 DEF IsMax
    <3>5. CASE y <= x
      BY <2>3, <3>1, <3>2, <3>3, <3>5 DEF IsMax
    <3>6. QED
      BY <3>1, <3>4, <3>5
  <2>9. QED
    BY <2>2, <2>8
<1>2. Cardinality(K) \in Nat
  BY FS_CardinalityType
<1>3. \E t : IsMax(t, K)
  BY <1>1, <1>2
<1>4. PICK t \in K : IsMax(t, K)
  BY <1>3 DEF IsMax
<1>5. QED
  BY <1>4 DEF Largest

\* The longest of some chains.
LEMMA LongestFacts ==
  ASSUME NEW nodes, IsFiniteSet(nodes), NEW cnt, \A k \in nodes : cnt[k] \in Nat
  PROVE  /\ LongestOf(cnt, nodes) \in Nat
         /\ \A k \in nodes : cnt[k] <= LongestOf(cnt, nodes)
         /\ LongestOf(cnt, nodes) # 0 => \E k \in nodes : cnt[k] >= 1
<1> DEFINE K == {0} \cup {cnt[k] : k \in nodes}
<1>1. IsFiniteSet({cnt[k] : k \in nodes})
  <2> DEFINE T == {cnt[k] : k \in nodes}
             f == [k \in nodes |-> cnt[k]]
  <2>1. f \in Surjection(nodes, T)
    BY DEF Surjection
  <2>2. QED
    BY <2>1, FS_Surjection
<1>2. K \in SUBSET Nat /\ IsFiniteSet(K) /\ K # {}
  <2>1. K = {cnt[k] : k \in nodes} \cup {0}
    OBVIOUS
  <2>2. IsFiniteSet(K)
    BY <1>1, <2>1, FS_AddElement
  <2>3. QED
    BY <2>2
<1>3. IsMax(Largest(K), K)
  BY <1>2, LargestOfFinite
<1>4. LongestOf(cnt, nodes) = Largest(K)
  BY DEF LongestOf
<1>5. QED
  BY <1>2, <1>3, <1>4 DEF IsMax

\* A time between two times of one clk is in this clk.
LEMMA ClkBetween ==
  ASSUME NEW a \in Int, NEW b \in Int, NEW c \in Int, a <= b, b <= c,
         start_clk(a) = start_clk(c)
  PROVE  start_clk(b) = start_clk(a)
<1>1. start_of_clk_period(a) = start_of_clk_period(c)
  BY DEF start_of_clk_period
<1>2. start_of_clk_period(a) <= b /\ b < start_of_clk_period(a) + Clk
  BY <1>1, ClkBounds, SchedulerAssumption
<1>3. QED
  BY <1>2, SameClk

-----------------------------------------------------------------------------
(***************************************************************************)
(* The counts of a set D of nodes placed at the times out, along the       *)
(* edges next, and when they are defined: next leads from D only to D, and *)
(* every part of D has a node with no edge into this part.                 *)
(***************************************************************************)
InClkOf(m, next, out) == {k \in next[m] : start_clk(out[k]) = start_clk(out[m])}

IsCount(cnt, intf, intfs, next, D, out) ==
  cnt = [m \in D |-> LongestOf(cnt, InClkOf(m, next, out)) + IF intfs[m] = intf THEN 1 ELSE 0]

HasFirst(next, D) ==
  \A S \in SUBSET D : S # {} => \E m \in S : next[m] \cap S = {}

CountsDefined(intfs, next, D, out) ==
  /\ \A m \in D : next[m] \subseteq D
  /\ HasFirst(next, D)
  /\ \A intf \in Intf : \E cnt : IsCount(cnt, intf, intfs, next, D, out)

LEMMA CountValue ==
  ASSUME NEW intf, NEW next, NEW D, NEW out, NEW cnt, IsCount(cnt, intf, net.intf, next, D, out),
         NEW m \in D
  PROVE  cnt[m] = LongestOf(cnt, InClkOf(m, next, out)) + IF net.intf[m] = intf THEN 1 ELSE 0
  BY DEF IsCount

\* The count is the recursive function of the specification.
LEMMA CountChosen ==
  ASSUME NEW intf, NEW next, \E cnt : IsCount(cnt, intf, net.intf, next, scheduled, scheduledOut)
  PROVE  IsCount(IoCounts(intf, next), intf, net.intf, next, scheduled, scheduledOut)
<1>1. IoCounts(intf, next) = CHOOSE cnt : IsCount(cnt, intf, net.intf, next, scheduled, scheduledOut)
  BY DEF IoCounts, IsCount, NextInClk, InClkOf
<1>2. QED
  BY <1>1

\* A count over more nodes, with the same times, agrees with the one before.
LEMMA CountUnique ==
  ASSUME NEW intf, NEW next, NEW D, NEW B, D \subseteq B, NEW out, NEW out2,
         \A m \in D : next[m] \subseteq D /\ out2[m] = out[m],
         HasFirst(next, D),
         NEW f, IsCount(f, intf, net.intf, next, D, out),
         NEW g, IsCount(g, intf, net.intf, next, B, out2)
  PROVE  \A m \in D : f[m] = g[m]
<1> DEFINE S == {m \in D : f[m] # g[m]}
<1> SUFFICES ASSUME S # {}
             PROVE  FALSE
  OBVIOUS
<1>1. PICK m \in S : next[m] \cap S = {}
  BY DEF HasFirst
<1>2. InClkOf(m, next, out2) = InClkOf(m, next, out)
  BY DEF InClkOf
<1>3. \A k \in InClkOf(m, next, out) : f[k] = g[k]
  BY <1>1 DEF InClkOf
<1>4. {f[k] : k \in InClkOf(m, next, out)} = {g[k] : k \in InClkOf(m, next, out)}
  BY <1>3
<1>5. LongestOf(f, InClkOf(m, next, out)) = LongestOf(g, InClkOf(m, next, out))
  BY <1>4 DEF LongestOf
<1>6. f[m] = g[m]
  BY <1>1, <1>2, <1>5, CountValue
<1>7. QED
  BY <1>1, <1>6

\* The counts are numbers, they do not decrease along a chain, and an access
\* to the interface itself counts.
LEMMA CountFacts ==
  ASSUME NEW intf, NEW next, NEW D, NEW out,
         \A m \in D : next[m] \subseteq D /\ IsFiniteSet(next[m]),
         HasFirst(next, D),
         NEW cnt, IsCount(cnt, intf, net.intf, next, D, out),
         NEW m \in D
  PROVE  /\ cnt[m] \in Nat
         /\ \A k \in InClkOf(m, next, out) : cnt[k] <= cnt[m]
         /\ net.intf[m] = intf => cnt[m] >= 1
<1> DEFINE S == {k \in D : cnt[k] \notin Nat}
<1>1. ASSUME NEW j \in D
      PROVE  IsFiniteSet(InClkOf(j, next, out)) /\ InClkOf(j, next, out) \subseteq D
  BY FS_Subset DEF InClkOf
<1>2. S = {}
  <2> SUFFICES ASSUME S # {}
               PROVE  FALSE
    OBVIOUS
  <2>1. PICK j \in S : next[j] \cap S = {}
    BY DEF HasFirst
  <2>2. \A k \in InClkOf(j, next, out) : cnt[k] \in Nat
    BY <2>1 DEF InClkOf
  <2>3. LongestOf(cnt, InClkOf(j, next, out)) \in Nat
    BY <1>1, <2>1, <2>2, LongestFacts
  <2>4. cnt[j] \in Nat
    BY <2>1, <2>3, CountValue
  <2>5. QED
    BY <2>1, <2>4
<1>3. \A k \in InClkOf(m, next, out) : cnt[k] \in Nat
  BY <1>1, <1>2
<1>4. /\ LongestOf(cnt, InClkOf(m, next, out)) \in Nat
      /\ \A k \in InClkOf(m, next, out) : cnt[k] <= LongestOf(cnt, InClkOf(m, next, out))
  BY <1>1, <1>3, LongestFacts
<1>5. cnt[m] = LongestOf(cnt, InClkOf(m, next, out)) + IF net.intf[m] = intf THEN 1 ELSE 0
  BY CountValue
<1>6. QED
  BY <1>3, <1>4, <1>5

\* The count stays defined when a node is added behind those it leads to.
LEMMA CountsExtended ==
  ASSUME NEW next, NEW D, NEW out, NEW out2, CountsDefined(net.intf, next, D, out),
         NEW n, n \notin D, next[n] \subseteq D, \A m \in D : out2[m] = out[m]
  PROVE  CountsDefined(net.intf, next, D \cup {n}, out2)
<1>1. \A m \in D : next[m] \subseteq D
  BY DEF CountsDefined
<1>2. HasFirst(next, D \cup {n})
  <2> SUFFICES ASSUME NEW S \in SUBSET (D \cup {n}), S # {}
               PROVE  \E m \in S : next[m] \cap S = {}
    BY DEF HasFirst
  <2>1. CASE S \cap D = {}
    <3>1. n \in S
      BY <2>1
    <3>2. next[n] \cap S = {}
      BY <2>1
    <3>3. QED
      BY <3>1, <3>2
  <2>2. CASE S \cap D # {}
    <3>1. PICK m \in S \cap D : next[m] \cap (S \cap D) = {}
      BY <2>2 DEF CountsDefined, HasFirst
    <3>2. next[m] \cap S = {}
      BY <1>1, <3>1
    <3>3. QED
      BY <3>1, <3>2
  <2>3. QED
    BY <2>1, <2>2
<1>3. ASSUME NEW intf \in Intf
      PROVE  \E cnt : IsCount(cnt, intf, net.intf, next, D \cup {n}, out2)
  <2>1. PICK f : IsCount(f, intf, net.intf, next, D, out)
    BY DEF CountsDefined
  <2> DEFINE one(m) == IF net.intf[m] = intf THEN 1 ELSE 0
             g == [m \in D \cup {n} |->
                     IF m = n THEN LongestOf(f, InClkOf(n, next, out2)) + one(n) ELSE f[m]]
  <2>2. ASSUME NEW m \in D \cup {n}
        PROVE  LongestOf(g, InClkOf(m, next, out2)) = LongestOf(f, InClkOf(m, next, out2))
    <3>1. \A k \in InClkOf(m, next, out2) : g[k] = f[k]
      BY <1>1 DEF InClkOf
    <3> HIDE DEF g
    <3>2. {g[k] : k \in InClkOf(m, next, out2)} = {f[k] : k \in InClkOf(m, next, out2)}
      BY <3>1
    <3>3. QED
      BY <3>2 DEF LongestOf
  <2>3. ASSUME NEW m \in D
        PROVE  f[m] = LongestOf(f, InClkOf(m, next, out2)) + one(m)
    <3>1. InClkOf(m, next, out2) = InClkOf(m, next, out)
      BY <1>1 DEF InClkOf
    <3>2. QED
      BY <2>1, <3>1, CountValue
  <2>4. ASSUME NEW m \in D \cup {n}
        PROVE  g[m] = LongestOf(g, InClkOf(m, next, out2)) + one(m)
    BY <2>2, <2>3
  <2>5. g = [m \in D \cup {n} |-> LongestOf(g, InClkOf(m, next, out2)) + one(m)]
    <3> DEFINE h == [m \in D \cup {n} |-> LongestOf(g, InClkOf(m, next, out2)) + one(m)]
    <3>1. \A m \in D \cup {n} : g[m] = h[m]
      BY <2>4
    <3> HIDE DEF h
    <3>2. DOMAIN h = D \cup {n} /\ DOMAIN g = D \cup {n} /\ h = [m \in D \cup {n} |-> h[m]]
      BY DEF h
    <3>3. g = [m \in D \cup {n} |-> g[m]]
      OBVIOUS
    <3> HIDE DEF g
    <3>4. g = h
      BY <3>1, <3>2, <3>3
    <3>5. QED
      BY <3>4 DEF h
  <2>6. IsCount(g, intf, net.intf, next, D \cup {n}, out2)
    BY <2>5 DEF IsCount
  <2>7. QED
    BY <2>6
<1>4. QED
  BY <1>1, <1>2, <1>3 DEF CountsDefined

-----------------------------------------------------------------------------
\* The edges of the two passes.
LEMMA EdgesFacts ==
  ASSUME net \in Netlists, NEW n \in Node
  PROVE  /\ OrderingInputs[n] = net.ordDeps[n]
         /\ OrderingInputs[n] \subseteq Deps(n)
         /\ OrderingUsers[n] = {u \in Node : n \in net.ordDeps[u]}
         /\ OrderingUsers[n] \subseteq Users(n)
         /\ IsFiniteSet(OrderingInputs[n])
         /\ IsFiniteSet(OrderingUsers[n])
         /\ net.kind[n] = "io" => net.intf[n] \in Intf
<1>1. net \in NetlistType
  BY SchedulerAssumption DEF WellFormed
<1>2. /\ OrderingInputs[n] = net.ordDeps[n]
      /\ OrderingUsers[n] = {u \in Node : n \in net.ordDeps[u]}
      /\ net.ordDeps[n] \subseteq Node
      /\ net.intf[n] \in Intf
  BY <1>1 DEF OrderingInputs, OrderingUsers, NetlistType
<1>3. IsFiniteSet(net.ordDeps[n]) /\ IsFiniteSet({u \in Node : n \in net.ordDeps[u]})
  BY <1>2, SchedulerAssumption, FS_Subset
<1>4. QED
  BY <1>2, <1>3 DEF Deps, DepsOf, Users, UsersOf

\* The limit is exceeded exactly if a neighbour in the clk counts an access.
LEMMA TooManyMeans ==
  ASSUME net \in Netlists, NEW n \in Node, net.kind[n] = "io", NEW t,
         NEW next, next[n] \subseteq scheduled, IsFiniteSet(next[n]),
         \A m \in scheduled : IsFiniteSet(next[m]),
         CountsDefined(net.intf, next, scheduled, scheduledOut)
  PROVE  TooManyIos(n, t, next)
           <=> \E k \in NextInClk(n, t, next) : IoCounts(net.intf[n], next)[k] >= 1
<1> DEFINE cnt == IoCounts(net.intf[n], next)
           nodes == NextInClk(n, t, next)
<1>1. IsCount(cnt, net.intf[n], net.intf, next, scheduled, scheduledOut)
  BY EdgesFacts, CountChosen DEF CountsDefined
<1>2. nodes \subseteq scheduled /\ IsFiniteSet(nodes)
  BY FS_Subset DEF NextInClk
<1> HIDE DEF cnt, nodes
<1>3. \A k \in nodes : cnt[k] \in Nat
  BY <1>1, <1>2, CountFacts DEF CountsDefined
<1>4. /\ LongestOf(cnt, nodes) \in Nat
      /\ \A k \in nodes : cnt[k] <= LongestOf(cnt, nodes)
      /\ LongestOf(cnt, nodes) # 0 => \E k \in nodes : cnt[k] >= 1
  BY <1>2, <1>3, LongestFacts
<1>5. TooManyIos(n, t, next) <=> LongestOf(cnt, nodes) + 1 > 1
  BY DEF TooManyIos, NumberOfIoInThisClkPeriod, maxIosPerClk, cnt, nodes
<1>6. QED
  BY <1>3, <1>4, <1>5 DEF cnt, nodes

\* Times are assigned with the delay of the node in between.
LatencySoFar ==
  phase \in {"asap", "alap", "offset"} =>
    \A n \in scheduled : scheduledIn[n] = scheduledOut[n] - net.delay[n]

CountsInv ==
  /\ phase = "asap" => CountsDefined(net.intf, OrderingInputs, scheduled, scheduledOut)
  /\ phase = "alap" => CountsDefined(net.intf, OrderingUsers, scheduled, scheduledOut)

-----------------------------------------------------------------------------
\* Where the ordering edges lead to from b, and from a the other way.
LEMMA ReachedBackwards ==
  ASSUME NEW a, NEW b, OrderedBefore(a, b), NEW S \in SUBSET Node,
         net.ordDeps[b] \subseteq S, \A m \in S : net.ordDeps[m] \subseteq S
  PROVE  a \in S
  BY DEF OrderedBefore

LEMMA ReachedForwards ==
  ASSUME net \in Netlists, NEW a \in Node, NEW b \in Node, OrderedBefore(a, b),
         NEW T \in SUBSET Node,
         OrderingUsers[a] \subseteq T, \A m \in T : OrderingUsers[m] \subseteq T
  PROVE  b \in T
<1> DEFINE S == Node \ (T \cup {a})
<1> SUFFICES ASSUME b \notin T
             PROVE  FALSE
  OBVIOUS
<1>1. \A m \in Node : /\ OrderingUsers[m] = {u \in Node : m \in net.ordDeps[u]}
                      /\ OrderingInputs[m] = net.ordDeps[m]
                      /\ OrderingInputs[m] \subseteq Node
  <2>1. \A m \in Node : Deps(m) \subseteq Node
    BY NetlistFields
  <2>2. QED
    BY <2>1, EdgesFacts
<1>2. \A m \in Node : m \notin T => net.ordDeps[m] \subseteq S
  BY <1>1
<1>3. S \in SUBSET (Node \ {a})
  OBVIOUS
<1>4. QED
  BY <1>2, <1>3 DEF OrderedBefore

-----------------------------------------------------------------------------
\* What the steps that place a node do.
LEMMA AsapFacts ==
  ASSUME IInv, NEW n \in Node, ScheduleAsap(n)
  PROVE  \E t \in Int, u \in Int :
           /\ t >= 0
           /\ t = 0 \/ \E d \in Deps(n) : t = InputTime(n, d)
           /\ \A d \in Deps(n) : /\ InputTime(n, d) \in Int
                                 /\ InputTime(n, d) <= t
                                 /\ scheduledOut[d] <= t - net.delay[n]
           /\ u = IF TooManyIos(n, t, OrderingInputs) THEN start_of_next_clk_period(t) ELSE t
           /\ t <= u
           /\ scheduled' = scheduled \cup {n}
           /\ scheduledIn'[n] = u - net.delay[n]
           /\ scheduledOut'[n] = u
           /\ \A m \in Node \ {n} : /\ scheduledIn'[m] = scheduledIn[m]
                                    /\ scheduledOut'[m] = scheduledOut[m]
<1> DEFINE D == net.delay[n]
<1>1. /\ net \in Netlists
      /\ Deps(n) \subseteq scheduled
      /\ scheduled \subseteq Node
      /\ scheduledOut \in [Node -> Int]
      /\ D \in Nat
  BY NetlistFields DEF ScheduleAsap, AsapReady, IInv, TypeOK
<1>2. PICK t \in {0} \cup {InputTime(n, d) : d \in Deps(n)} :
        /\ IsMax(t, {0} \cup {InputTime(n, d) : d \in Deps(n)})
        /\ SetTime(n, IF TooManyIos(n, t, OrderingInputs)
                      THEN start_of_next_clk_period(t) ELSE t)
  BY DEF ScheduleAsap
<1> DEFINE u == IF TooManyIos(n, t, OrderingInputs) THEN start_of_next_clk_period(t) ELSE t
<1>3. \A d \in Deps(n) : /\ InputTime(n, d) \in Int
                         /\ InputTime(n, d) - D >= scheduledOut[d]
                         /\ scheduledOut[d] \in Int
  <2>1. Deps(n) # {} => D < Clk
    BY DEF ScheduleAsap
  <2>2. QED
    BY <1>1, <2>1, InputTimeBounds
<1>4. /\ t \in Int
      /\ t >= 0
      /\ \A d \in Deps(n) : InputTime(n, d) <= t
  BY <1>2, <1>3 DEF IsMax
<1>5. \A d \in Deps(n) : scheduledOut[d] <= t - D
  BY <1>1, <1>3, <1>4
<1>6. u \in Int /\ t <= u
  BY <1>4, ClkBounds, SchedulerAssumption
<1>7. SetTime(n, u)
  BY <1>2
<1>8. /\ scheduled' = scheduled \cup {n}
      /\ scheduledIn'[n] = u - D
      /\ scheduledOut'[n] = u
      /\ \A m \in Node \ {n} : /\ scheduledIn'[m] = scheduledIn[m]
                               /\ scheduledOut'[m] = scheduledOut[m]
  BY <1>6, <1>7, SetTimeFacts
<1>9. QED
  BY <1>2, <1>3, <1>4, <1>5, <1>6, <1>8

LEMMA AlapFacts ==
  ASSUME IInv, NEW n \in Node, ScheduleAlapCompaction(n)
  PROVE  \E u \in Int :
           /\ \A v \in Users(n) : u <= scheduledIn[v]
           /\ ~ TooManyIos(n, u, OrderingUsers)
           /\ scheduled' = scheduled \cup {n}
           /\ scheduledIn'[n] = u - net.delay[n]
           /\ scheduledOut'[n] = u
           /\ \A m \in Node \ {n} : /\ scheduledIn'[m] = scheduledIn[m]
                                    /\ scheduledOut'[m] = scheduledOut[m]
<1> DEFINE required == IF Users(n) = {}
                       THEN {end_of_clk_before_ff(asapSchedule.out[n])}
                       ELSE {scheduledIn[v] : v \in Users(n)}
<1>1. /\ net \in Netlists
      /\ Users(n) \subseteq Node
      /\ scheduledIn \in [Node -> Int]
      /\ asapSchedule.out[n] \in Int
      /\ Deps(n) # {} => net.delay[n] + FF < Clk
  BY NetlistFields DEF ScheduleAlapCompaction, AlapReady, IInv, TypeOK
<1>2. PICK r \in required, k \in 0..Cardinality(Node) :
        /\ IsMin(r, required)
        /\ ~ TooManyIos(n, IoTime(TimeForInputs(n, r), k), OrderingUsers)
        /\ SetTime(n, IoTime(TimeForInputs(n, r), k))
  BY DEF ScheduleAlapCompaction
<1> DEFINE u == IoTime(TimeForInputs(n, r), k)
<1>3. r \in Int /\ \A v \in Users(n) : r <= scheduledIn[v]
  <2>1. end_of_clk_before_ff(asapSchedule.out[n]) \in Int
    BY <1>1, SetupMetWithoutUser
  <2>2. QED
    BY <1>1, <1>2, <2>1 DEF IsMin
<1>4. TimeForInputs(n, r) \in Int /\ TimeForInputs(n, r) <= r
  BY <1>1, <1>3, TimeForInputsBounds
<1>5. u \in Int /\ u <= TimeForInputs(n, r)
  BY <1>2, <1>4, IoTimeBounds
<1>6. \A v \in Users(n) : u <= scheduledIn[v]
  BY <1>1, <1>3, <1>4, <1>5
<1>7. SetTime(n, u)
  BY <1>2
<1>8. /\ scheduled' = scheduled \cup {n}
      /\ scheduledIn'[n] = u - net.delay[n]
      /\ scheduledOut'[n] = u
      /\ \A m \in Node \ {n} : /\ scheduledIn'[m] = scheduledIn[m]
                               /\ scheduledOut'[m] = scheduledOut[m]
  BY <1>5, <1>7, SetTimeFacts
<1>9. QED
  BY <1>2, <1>5, <1>6, <1>8

-----------------------------------------------------------------------------
\* The counts stay defined.
LEMMA CountsAsap ==
  ASSUME IInv, CountsInv, NEW n \in Node, ScheduleAsap(n)
  PROVE  CountsInv'
<1>1. /\ phase = "asap" /\ phase' = "asap" /\ net' = net
      /\ n \notin scheduled /\ Deps(n) \subseteq scheduled /\ net \in Netlists
      /\ scheduled \subseteq Node
  BY DEF ScheduleAsap, AsapReady, IInv, TypeOK
<1>2. scheduled' = scheduled \cup {n} /\ \A m \in scheduled : scheduledOut'[m] = scheduledOut[m]
  BY <1>1, AsapFacts
<1>3. CountsDefined(net.intf, OrderingInputs, scheduled, scheduledOut)
  BY <1>1 DEF CountsInv
<1>4. CountsDefined(net.intf, OrderingInputs, scheduled', scheduledOut')
  <2>1. OrderingInputs[n] \subseteq scheduled
    BY <1>1, EdgesFacts
  <2>2. QED
    BY <1>1, <1>2, <1>3, <2>1, CountsExtended
<1>5. QED
  BY <1>1, <1>4 DEF CountsInv, OrderingInputs

LEMMA CountsAlap ==
  ASSUME IInv, CountsInv, NEW n \in Node, ScheduleAlapCompaction(n) \/ ScheduleConst(n)
  PROVE  CountsInv'
<1>1. /\ phase = "alap" /\ phase' = "alap" /\ net' = net
      /\ n \notin scheduled /\ net \in Netlists
      /\ scheduled \subseteq Node
  BY DEF ScheduleAlapCompaction, AlapReady, ScheduleConst, IInv, TypeOK
<1>2. OrderingUsers[n] \subseteq scheduled
  <2>1. CASE ScheduleAlapCompaction(n)
    BY <1>1, <2>1, EdgesFacts DEF ScheduleAlapCompaction, AlapReady
  <2>2. CASE ScheduleConst(n)
    <3>1. \A u \in Node : n \in net.ordDeps[u] => net.kind[n] = "io"
      BY <1>1, SchedulerAssumption DEF WellFormed
    <3>2. net.kind[n] = "const"
      BY <2>2 DEF ScheduleConst, OfKind
    <3>3. QED
      BY <1>1, <3>1, <3>2, EdgesFacts
  <2>3. QED
    BY <2>1, <2>2
<1>3. scheduled' = scheduled \cup {n} /\ \A m \in scheduled : scheduledOut'[m] = scheduledOut[m]
  <2>1. CASE ScheduleAlapCompaction(n)
    BY <1>1, <2>1, AlapFacts
  <2>2. CASE ScheduleConst(n)
    BY <1>1, <2>2 DEF ScheduleConst, SetTime, IInv, TypeOK
  <2>3. QED
    BY <2>1, <2>2
<1>4. CountsDefined(net.intf, OrderingUsers, scheduled, scheduledOut)
  BY <1>1 DEF CountsInv
<1>5. CountsDefined(net.intf, OrderingUsers, scheduled', scheduledOut')
  BY <1>1, <1>2, <1>3, <1>4, CountsExtended
<1>6. QED
  BY <1>1, <1>5 DEF CountsInv, OrderingUsers

LEMMA CountsCheckAsap ==
  ASSUME IInv, CountsInv, CheckAsapSchedule
  PROVE  CountsInv'
<1>1. /\ net' = net /\ net \in Netlists /\ phase' # "asap"
      /\ phase' = "alap" => scheduled' = OfKind("gate")
  BY DEF CheckAsapSchedule, StartAlap, IInv
<1> DEFINE G == OfKind("gate")
<1>2. \A m \in G : OrderingUsers[m] = {}
  BY <1>1, NetlistFields, EdgesFacts DEF OfKind
<1>3. ASSUME NEW intf \in Intf
      PROVE  \E cnt : IsCount(cnt, intf, net.intf, OrderingUsers, G, scheduledOut')
  <2> DEFINE one(m) == IF net.intf[m] = intf THEN 1 ELSE 0
             cnt == [m \in G |-> Largest({0}) + one(m)]
  <2>1. \A m \in G : LongestOf(cnt, InClkOf(m, OrderingUsers, scheduledOut')) = Largest({0})
    <3> HIDE DEF cnt
    <3>1. \A m \in G : InClkOf(m, OrderingUsers, scheduledOut') = {}
      BY <1>2 DEF InClkOf
    <3>2. LongestOf(cnt, {}) = Largest({0})
      <4>1. {0} \cup {cnt[k] : k \in {}} = {0}
        OBVIOUS
      <4>2. QED
        BY <4>1 DEF LongestOf
    <3>3. QED
      BY <3>1, <3>2
  <2>2. IsCount(cnt, intf, net.intf, OrderingUsers, G, scheduledOut')
    <3> DEFINE h == [m \in G |-> LongestOf(cnt, InClkOf(m, OrderingUsers, scheduledOut')) + one(m)]
    <3>1. \A m \in G : h[m] = cnt[m]
      BY <2>1
    <3>2. h = [m \in G |-> h[m]] /\ cnt = [m \in G |-> cnt[m]]
      OBVIOUS
    <3> HIDE DEF cnt, h
    <3>3. h = cnt
      BY <3>1, <3>2
    <3>4. QED
      BY <3>3 DEF IsCount, h
  <2>3. QED
    BY <2>2
<1>4. CountsDefined(net.intf, OrderingUsers, G, scheduledOut')
  BY <1>2, <1>3 DEF CountsDefined, HasFirst
<1>5. QED
  BY <1>1, <1>4 DEF CountsInv, OrderingUsers

\* The counts are defined when schedule() begins and each step keeps them.
LEMMA CountsInit == Init => CountsInv
<1> SUFFICES ASSUME Init
             PROVE  CountsDefined(net.intf, OrderingInputs, {}, scheduledOut)
  BY DEF Init, CountsInv
<1>1. ASSUME NEW intf \in Intf
      PROVE  \E cnt : IsCount(cnt, intf, net.intf, OrderingInputs, {}, scheduledOut)
  <2> DEFINE cnt == [m \in {} |-> 0]
  <2>1. IsCount(cnt, intf, net.intf, OrderingInputs, {}, scheduledOut)
    BY DEF IsCount
  <2>2. QED
    BY <2>1
<1>2. QED
  BY <1>1 DEF CountsDefined, HasFirst

LEMMA LatencyNext == IInv /\ LatencySoFar /\ [Next]_vars => LatencySoFar'
<1> SUFFICES ASSUME IInv, LatencySoFar, [Next]_vars
             PROVE  LatencySoFar'
  OBVIOUS
<1>1. net \in Netlists /\ scheduled \subseteq Node
  BY DEF IInv, TypeOK
<1>2. ASSUME net' = net, phase \in {"asap", "alap"}, NEW n \in Node,
             scheduled' = scheduled \cup {n},
             NEW u, scheduledIn'[n] = u - net.delay[n], scheduledOut'[n] = u,
             \A m \in Node \ {n} : /\ scheduledIn'[m] = scheduledIn[m]
                                   /\ scheduledOut'[m] = scheduledOut[m]
      PROVE  LatencySoFar'
  BY <1>1, <1>2 DEF LatencySoFar
<1>3. ASSUME NEW n \in Node, ScheduleAsap(n)
      PROVE  LatencySoFar'
  BY <1>2, <1>3, AsapFacts DEF ScheduleAsap, AsapReady
<1>4. ASSUME NEW n \in Node, ScheduleAlapCompaction(n)
      PROVE  LatencySoFar'
  BY <1>2, <1>4, AlapFacts DEF ScheduleAlapCompaction, AlapReady
<1>5. ASSUME NEW c \in Node, ScheduleConst(c)
      PROVE  LatencySoFar'
  <2>1. PICK t \in {scheduledIn[v] : v \in Users(c)} : SetTime(c, t)
    BY <1>5 DEF ScheduleConst
  <2>2. t \in Int
    BY <1>1, <2>1, NetlistFields DEF IInv, TypeOK, ScheduleConst
  <2>3. QED
    BY <1>2, <1>5, <2>1, <2>2, SetTimeFacts DEF ScheduleConst
<1>6. CASE CheckAsapSchedule
  <2>1. /\ net' = net /\ phase = "asap" /\ scheduled = Node
        /\ phase' = "alap" => StartAlap
        /\ phase' \in {"alap", "AssertionError"}
    BY <1>6 DEF CheckAsapSchedule
  <2>2. CASE phase' = "alap"
    <3>1. /\ scheduled' = OfKind("gate")
          /\ \A n \in OfKind("gate") : /\ scheduledIn'[n] = scheduledIn[n]
                                       /\ scheduledOut'[n] = scheduledOut[n]
      BY <2>1, <2>2 DEF StartAlap, OfKind
    <3>2. \A n \in OfKind("gate") : n \in scheduled
      BY <2>1 DEF OfKind
    <3>3. QED
      BY <2>1, <2>2, <3>1, <3>2 DEF LatencySoFar
  <2>3. QED
    BY <2>1, <2>2 DEF LatencySoFar
<1>7. ASSUME UNCHANGED <<net, scheduled, scheduledIn, scheduledOut>>,
             phase' \in {"asap", "alap", "offset"} => phase \in {"asap", "alap", "offset"}
      PROVE  LatencySoFar'
  BY <1>7 DEF LatencySoFar
<1>8. ASSUME NEW n \in Node, AsapTimeConstraintError(n) \/ AlapTimeConstraintError(n)
      PROVE  LatencySoFar'
  BY <1>7, <1>8 DEF AsapTimeConstraintError, AlapTimeConstraintError, Raise
<1>9. CASE CycleInGraph \/ AlapScheduled \/ UNCHANGED vars
  BY <1>7, <1>9 DEF CycleInGraph, Raise, AlapScheduled, vars
<1>10. CASE MoveToFirstClk \/ CheckSchedule
  BY <1>10 DEF MoveToFirstClk, CheckSchedule, LatencySoFar
<1>11. QED
  BY <1>3, <1>4, <1>5, <1>6, <1>8, <1>9, <1>10 DEF Next, NextAsap, NextAlap, Terminated

LEMMA CountsNext == IInv /\ CountsInv /\ [Next]_vars => CountsInv'
<1> SUFFICES ASSUME IInv, CountsInv, [Next]_vars
             PROVE  CountsInv'
  OBVIOUS
<1>1. ASSUME phase' \notin {"asap", "alap"}
      PROVE  CountsInv'
  BY <1>1 DEF CountsInv
<1>2. ASSUME NEW n \in Node, AsapTimeConstraintError(n) \/ AlapTimeConstraintError(n)
      PROVE  CountsInv'
  BY <1>1, <1>2 DEF AsapTimeConstraintError, AlapTimeConstraintError, Raise
<1>3. CASE CycleInGraph \/ AlapScheduled \/ MoveToFirstClk \/ CheckSchedule
  BY <1>1, <1>3 DEF CycleInGraph, Raise, AlapScheduled, MoveToFirstClk, CheckSchedule
<1>4. CASE UNCHANGED vars
  BY <1>4 DEF vars, CountsInv, OrderingInputs, OrderingUsers
<1>5. QED
  BY <1>2, <1>3, <1>4, CountsAsap, CountsAlap, CountsCheckAsap
     DEF Next, NextAsap, NextAlap, Terminated

-----------------------------------------------------------------------------
(***************************************************************************)
(* The IO limit.  All the nodes n comes after are at most as late as n.    *)
(* If n was not moved, those of its clk lie on a chain which counts no     *)
(* access to its interface; if it was moved, none of them is in its clk.   *)
(***************************************************************************)
LEMMA AsapIoLimit ==
  ASSUME IInv, CountsInv, LatencySoFar, IoLimitKept, NEW n \in Node, ScheduleAsap(n)
  PROVE  IoLimitKept'
<1>1. /\ phase = "asap" /\ phase' = "asap" /\ net' = net
      /\ n \notin scheduled /\ Deps(n) \subseteq scheduled /\ net \in Netlists
      /\ scheduled \subseteq Node
      /\ scheduledOut \in [Node -> Int]
      /\ scheduledIn \in [Node -> Int]
  BY DEF ScheduleAsap, AsapReady, IInv, TypeOK
<1>2. PICK t \in Int, u \in Int :
        /\ \A d \in Deps(n) : scheduledOut[d] <= t - net.delay[n]
        /\ u = IF TooManyIos(n, t, OrderingInputs) THEN start_of_next_clk_period(t) ELSE t
        /\ t <= u
        /\ scheduled' = scheduled \cup {n}
        /\ scheduledOut'[n] = u
        /\ \A m \in Node \ {n} : scheduledOut'[m] = scheduledOut[m]
  BY AsapFacts
<1>3. \A m \in Node : /\ net.ordDeps[m] = OrderingInputs[m]
                      /\ net.ordDeps[m] \subseteq Deps(m)
                      /\ net.delay[m] \in Nat
  BY <1>1, EdgesFacts, NetlistFields
<1>4. \A m \in scheduled : /\ net.ordDeps[m] \subseteq scheduled
                           /\ \A k \in net.ordDeps[m] : scheduledOut[k] <= scheduledOut[m]
  <2> SUFFICES ASSUME NEW m \in scheduled
               PROVE  /\ net.ordDeps[m] \subseteq scheduled
                      /\ \A k \in net.ordDeps[m] : scheduledOut[k] <= scheduledOut[m]
    OBVIOUS
  <2>1. Deps(m) \subseteq scheduled
    BY <1>1 DEF IInv, ScheduledClosed
  <2>2. \A k \in Deps(m) : scheduledOut[k] <= scheduledIn[m]
    BY <1>1, <2>1 DEF IInv, EdgesOrdered
  <2>3. scheduledIn[m] = scheduledOut[m] - net.delay[m]
    BY <1>1 DEF LatencySoFar
  <2>4. \A k \in net.ordDeps[m] : scheduledOut[k] <= scheduledOut[m]
    <3>1. scheduledIn[m] \in Int /\ scheduledOut[m] \in Int
      BY <1>1
    <3>2. \A k \in net.ordDeps[m] : scheduledOut[k] \in Int
      BY <1>1, <1>3, <2>1
    <3>3. QED
      BY <1>1, <1>3, <2>2, <2>3, <3>1, <3>2
  <2>5. QED
    BY <1>1, <1>3, <2>1, <2>4
<1>5. net.ordDeps[n] \subseteq scheduled /\ \A k \in net.ordDeps[n] : scheduledOut[k] <= t
  <2>1. \A k \in net.ordDeps[n] : k \in scheduled /\ scheduledOut[k] \in Int /\ k \in Deps(n)
    BY <1>1, <1>3
  <2>2. net.delay[n] \in Nat
    BY <1>3
  <2>3. QED
    BY <1>2, <2>1, <2>2
<1>6. \A a : OrderedBefore(a, n) => a \in scheduled /\ scheduledOut[a] <= t
  <2> DEFINE S == {m \in scheduled : scheduledOut[m] <= t}
  <2>1. net.ordDeps[n] \subseteq S
    BY <1>5
  <2>2. \A m \in S : net.ordDeps[m] \subseteq S
    <3> SUFFICES ASSUME NEW m \in S, NEW k \in net.ordDeps[m]
                 PROVE  k \in S
      OBVIOUS
    <3>1. k \in scheduled /\ scheduledOut[k] <= scheduledOut[m] /\ scheduledOut[m] <= t
      BY <1>4
    <3>2. scheduledOut[k] \in Int /\ scheduledOut[m] \in Int
      BY <1>1, <3>1
    <3>3. QED
      BY <3>1, <3>2
  <2>3. S \in SUBSET Node
    BY <1>1
  <2> HIDE DEF S
  <2>4. \A a : OrderedBefore(a, n) => a \in S
    BY <2>1, <2>2, <2>3, ReachedBackwards
  <2>5. QED
    BY <2>4 DEF S
<1>7. \A b \in scheduled : ~ OrderedBefore(n, b)
  BY <1>1, <1>4, ReachedBackwards
<1>8. ASSUME NEW a \in scheduled, net.kind[n] = "io", net.intf[a] = net.intf[n],
             OrderedBefore(a, n), start_clk(scheduledOut[a]) = start_clk(u)
      PROVE  FALSE
  <2>1. scheduledOut[a] \in Int /\ scheduledOut[a] <= t /\ a \in Node
    BY <1>1, <1>6, <1>8
  <2>2. CASE TooManyIos(n, t, OrderingInputs)
    <3>1. u = start_of_next_clk_period(t)
      BY <1>2, <2>2
    <3>2. /\ u = start_of_clk_period(t) + Clk
          /\ t < u
          /\ start_of_clk_period(u) <= u
      BY <3>1, ClkBounds
    <3>3. start_clk(u) = start_clk(t) + 1
      <4>1. (start_clk(t) + 1) * Clk = u /\ start_clk(t) + 1 \in Int
        BY <3>1, ClkBounds DEF start_of_next_clk_period
      <4>2. QED
        BY <4>1, ClkUnique, SchedulerAssumption
    <3>4. start_of_clk_period(scheduledOut[a]) = u
      BY <1>8, <3>1, <3>3 DEF start_of_clk_period, start_of_next_clk_period
    <3>5. u <= scheduledOut[a]
      BY <2>1, <3>4, ClkBounds
    <3>6. QED
      BY <2>1, <3>2, <3>5
  <2>3. CASE ~ TooManyIos(n, t, OrderingInputs)
    <3> DEFINE cnt == IoCounts(net.intf[n], OrderingInputs)
               S == {m \in scheduled :
                       /\ scheduledOut[m] <= t
                       /\ start_clk(scheduledOut[m]) = start_clk(t) => cnt[m] = 0}
    <3>1. u = t
      BY <1>2, <2>3
    <3>2. CountsDefined(net.intf, OrderingInputs, scheduled, scheduledOut)
      BY <1>1 DEF CountsInv
    <3>3. \A m \in scheduled : IsFiniteSet(OrderingInputs[m])
      BY <1>1, EdgesFacts
    <3>4. IsCount(cnt, net.intf[n], net.intf, OrderingInputs, scheduled, scheduledOut)
      BY <1>1, <1>8, <3>2, EdgesFacts, CountChosen DEF CountsDefined
    <3>5. \A k \in NextInClk(n, t, OrderingInputs) : ~ (cnt[k] >= 1)
      <4>1. OrderingInputs[n] \subseteq scheduled /\ IsFiniteSet(OrderingInputs[n])
        BY <1>1, <1>3, <1>5, EdgesFacts
      <4>2. QED
        BY <1>1, <1>8, <2>3, <3>2, <3>3, <4>1, TooManyMeans
    <3> HIDE DEF cnt
    <3>6. \A m \in scheduled :
            /\ cnt[m] \in Nat
            /\ \A k \in InClkOf(m, OrderingInputs, scheduledOut) : cnt[k] <= cnt[m]
            /\ net.intf[m] = net.intf[n] => cnt[m] >= 1
      BY <3>2, <3>3, <3>4, CountFacts DEF CountsDefined
    <3>7. net.ordDeps[n] \subseteq S
      BY <1>3, <1>5, <3>5, <3>6 DEF NextInClk
    <3>8. \A m \in S : net.ordDeps[m] \subseteq S
      <4> SUFFICES ASSUME NEW m \in S, NEW k \in net.ordDeps[m]
                   PROVE  k \in S
        OBVIOUS
      <4>1. /\ k \in scheduled /\ scheduledOut[k] <= scheduledOut[m]
            /\ scheduledOut[m] <= t
            /\ scheduledOut[k] \in Int /\ scheduledOut[m] \in Int
        BY <1>1, <1>4
      <4>2. scheduledOut[k] <= t
        BY <4>1
      <4>3. ASSUME start_clk(scheduledOut[k]) = start_clk(t)
            PROVE  cnt[k] = 0
        <5>1. start_clk(scheduledOut[m]) = start_clk(t)
          BY <4>1, <4>3, ClkBetween
        <5>2. cnt[m] = 0
          BY <5>1
        <5>3. k \in InClkOf(m, OrderingInputs, scheduledOut)
          BY <1>1, <1>3, <4>3, <5>1 DEF InClkOf
        <5>4. cnt[k] <= cnt[m] /\ cnt[k] \in Nat
          BY <3>6, <4>1, <5>3
        <5>5. QED
          BY <5>2, <5>4
      <4>4. QED
        BY <4>1, <4>2, <4>3
    <3>9. a \in S
      <4>1. S \in SUBSET Node
        BY <1>1
      <4> HIDE DEF S
      <4>2. QED
        BY <1>8, <3>7, <3>8, <4>1, ReachedBackwards
    <3>10. QED
      BY <1>8, <3>1, <3>6, <3>9
  <2>4. QED
    BY <2>2, <2>3
<1>9. \A a, b : OrderedBefore(a, b)' = OrderedBefore(a, b)
  BY <1>1 DEF OrderedBefore
<1>10. ASSUME NEW a \in scheduled', NEW b \in scheduled', a \in OfKind("io"), b \in OfKind("io"),
              net.intf[a] = net.intf[b], start_clk(scheduledOut'[a]) = start_clk(scheduledOut'[b]),
              OrderedBefore(a, b)
       PROVE  FALSE
  <2>1. CASE b = n
    <3>1. a \in scheduled /\ a # n
      BY <1>1, <1>6, <1>10, <2>1
    <3>2. scheduledOut'[a] = scheduledOut[a] /\ scheduledOut'[b] = u
      BY <1>1, <1>2, <2>1, <3>1
    <3>3. QED
      BY <1>8, <1>10, <2>1, <3>1, <3>2 DEF OfKind
  <2>2. CASE b # n
    <3>1. b \in scheduled
      BY <1>2, <2>2
    <3>2. a \in scheduled /\ a # n
      BY <1>1, <1>2, <1>7, <1>10, <3>1
    <3>3. scheduledOut'[a] = scheduledOut[a] /\ scheduledOut'[b] = scheduledOut[b]
      BY <1>1, <1>2, <2>2, <3>1, <3>2
    <3>4. QED
      BY <1>1, <1>10, <3>1, <3>2, <3>3 DEF IoLimitKept, OneIoPerClk, SharedClk
  <2>3. QED
    BY <2>1, <2>2
<1>11. OfKind("io")' = OfKind("io")
  BY <1>1 DEF OfKind
<1>12. QED
  BY <1>1, <1>9, <1>10, <1>11 DEF IoLimitKept, OneIoPerClk, SharedClk

\* The compaction goes the other way: all the nodes that come after n are at
\* least as late as n.
LEMMA AlapIoLimit ==
  ASSUME IInv, CountsInv, LatencySoFar, IoLimitKept, NEW n \in Node, ScheduleAlapCompaction(n)
  PROVE  IoLimitKept'
<1>1. /\ phase = "alap" /\ phase' = "alap" /\ net' = net
      /\ n \notin scheduled /\ Users(n) \subseteq scheduled /\ net \in Netlists
      /\ scheduled \subseteq Node
      /\ scheduledOut \in [Node -> Int]
      /\ scheduledIn \in [Node -> Int]
  BY DEF ScheduleAlapCompaction, AlapReady, IInv, TypeOK
<1>2. PICK u \in Int :
        /\ \A v \in Users(n) : u <= scheduledIn[v]
        /\ ~ TooManyIos(n, u, OrderingUsers)
        /\ scheduled' = scheduled \cup {n}
        /\ scheduledOut'[n] = u
        /\ \A m \in Node \ {n} : scheduledOut'[m] = scheduledOut[m]
  BY AlapFacts
<1>3. \A m \in Node : /\ OrderingUsers[m] \subseteq Users(m)
                      /\ IsFiniteSet(OrderingUsers[m])
                      /\ net.delay[m] \in Nat
  BY <1>1, EdgesFacts, NetlistFields
<1>4. \A m \in scheduled : scheduledIn[m] <= scheduledOut[m]
  <2> SUFFICES ASSUME NEW m \in scheduled
               PROVE  scheduledIn[m] <= scheduledOut[m]
    OBVIOUS
  <2>1. scheduledIn[m] = scheduledOut[m] - net.delay[m]
    BY <1>1 DEF LatencySoFar
  <2>2. scheduledOut[m] \in Int /\ net.delay[m] \in Nat
    BY <1>1, <1>3
  <2>3. QED
    BY <2>1, <2>2
<1>5. \A m \in scheduled : /\ OrderingUsers[m] \subseteq scheduled
                           /\ \A k \in OrderingUsers[m] : scheduledOut[m] <= scheduledOut[k]
  <2> SUFFICES ASSUME NEW m \in scheduled, NEW k \in OrderingUsers[m]
               PROVE  k \in scheduled /\ scheduledOut[m] <= scheduledOut[k]
    OBVIOUS
  <2>1. k \in scheduled /\ k \in Node
    BY <1>1, <1>3 DEF IInv, ScheduledClosed
  <2>2. m \in Deps(k)
    BY <1>1, <1>3 DEF Users, UsersOf, Deps
  <2>3. scheduledOut[m] <= scheduledIn[k] /\ scheduledIn[k] <= scheduledOut[k]
    BY <1>1, <1>4, <2>1, <2>2 DEF IInv, EdgesOrdered
  <2>4. scheduledOut[m] \in Int /\ scheduledIn[k] \in Int /\ scheduledOut[k] \in Int
    BY <1>1, <2>1
  <2>5. QED
    BY <2>1, <2>3, <2>4
<1>6. OrderingUsers[n] \subseteq scheduled /\ \A k \in OrderingUsers[n] : u <= scheduledOut[k]
  <2> SUFFICES ASSUME NEW k \in OrderingUsers[n]
               PROVE  k \in scheduled /\ u <= scheduledOut[k]
    OBVIOUS
  <2>1. k \in scheduled /\ u <= scheduledIn[k]
    BY <1>1, <1>2, <1>3
  <2>2. scheduledIn[k] <= scheduledOut[k] /\ scheduledIn[k] \in Int /\ scheduledOut[k] \in Int
    BY <1>1, <1>4, <2>1
  <2>3. QED
    BY <2>1, <2>2
<1>7. \A b \in Node : OrderedBefore(n, b) => b \in scheduled
  BY <1>1, <1>5, <1>6, ReachedForwards
<1>8. \A a \in scheduled : ~ OrderedBefore(a, n)
  <2> SUFFICES ASSUME NEW a \in scheduled, OrderedBefore(a, n)
               PROVE  FALSE
    OBVIOUS
  <2>1. OrderingUsers[a] \subseteq scheduled /\ a \in Node
    BY <1>1, <1>5
  <2>2. n \in scheduled
    BY <1>1, <1>5, <2>1, ReachedForwards
  <2>3. QED
    BY <1>1, <2>2
<1>9. ASSUME NEW b \in scheduled, net.kind[n] = "io", net.intf[n] = net.intf[b],
             OrderedBefore(n, b), start_clk(u) = start_clk(scheduledOut[b])
      PROVE  FALSE
  <2> DEFINE cnt == IoCounts(net.intf[n], OrderingUsers)
             S == {m \in scheduled :
                     /\ u <= scheduledOut[m]
                     /\ start_clk(scheduledOut[m]) = start_clk(u) => cnt[m] = 0}
  <2>1. CountsDefined(net.intf, OrderingUsers, scheduled, scheduledOut)
    BY <1>1 DEF CountsInv
  <2>2. \A m \in scheduled : IsFiniteSet(OrderingUsers[m])
    BY <1>1, <1>3
  <2>3. IsCount(cnt, net.intf[n], net.intf, OrderingUsers, scheduled, scheduledOut)
    BY <1>1, <1>9, <2>1, EdgesFacts, CountChosen DEF CountsDefined
  <2>4. \A k \in NextInClk(n, u, OrderingUsers) : ~ (cnt[k] >= 1)
    BY <1>1, <1>2, <1>3, <1>6, <1>9, <2>1, <2>2, TooManyMeans
  <2> HIDE DEF cnt
  <2>5. \A m \in scheduled :
          /\ cnt[m] \in Nat
          /\ \A k \in InClkOf(m, OrderingUsers, scheduledOut) : cnt[k] <= cnt[m]
          /\ net.intf[m] = net.intf[n] => cnt[m] >= 1
    BY <2>1, <2>2, <2>3, CountFacts DEF CountsDefined
  <2>6. OrderingUsers[n] \subseteq S
    BY <1>6, <2>4, <2>5 DEF NextInClk
  <2>7. \A m \in S : OrderingUsers[m] \subseteq S
    <3> SUFFICES ASSUME NEW m \in S, NEW k \in OrderingUsers[m]
                 PROVE  k \in S
      OBVIOUS
    <3>1. /\ k \in scheduled /\ scheduledOut[m] <= scheduledOut[k]
          /\ u <= scheduledOut[m]
          /\ scheduledOut[k] \in Int /\ scheduledOut[m] \in Int
      BY <1>1, <1>5
    <3>2. u <= scheduledOut[k]
      BY <3>1
    <3>3. ASSUME start_clk(scheduledOut[k]) = start_clk(u)
          PROVE  cnt[k] = 0
      <4>1. start_clk(scheduledOut[m]) = start_clk(u)
        BY <3>1, <3>3, ClkBetween
      <4>2. cnt[m] = 0
        BY <4>1
      <4>3. k \in InClkOf(m, OrderingUsers, scheduledOut)
        BY <3>3, <4>1 DEF InClkOf
      <4>4. cnt[k] <= cnt[m] /\ cnt[k] \in Nat
        BY <2>5, <3>1, <4>3
      <4>5. QED
        BY <4>2, <4>4
    <3>4. QED
      BY <3>1, <3>2, <3>3
  <2>8. b \in S
    <3>1. S \in SUBSET Node /\ b \in Node
      BY <1>1
    <3> HIDE DEF S
    <3>2. QED
      BY <1>1, <1>9, <2>6, <2>7, <3>1, ReachedForwards
  <2>9. QED
    BY <1>9, <2>5, <2>8
<1>10. \A a, b : OrderedBefore(a, b)' = OrderedBefore(a, b)
  BY <1>1 DEF OrderedBefore
<1>11. ASSUME NEW a \in scheduled', NEW b \in scheduled', a \in OfKind("io"), b \in OfKind("io"),
              net.intf[a] = net.intf[b], start_clk(scheduledOut'[a]) = start_clk(scheduledOut'[b]),
              OrderedBefore(a, b)
       PROVE  FALSE
  <2>1. a \in Node /\ b \in Node
    BY <1>11 DEF OfKind
  <2>2. CASE a = n
    <3>1. b \in scheduled /\ b # n
      BY <1>1, <1>7, <1>11, <2>1, <2>2
    <3>2. scheduledOut'[a] = u /\ scheduledOut'[b] = scheduledOut[b]
      BY <1>1, <1>2, <2>1, <2>2, <3>1
    <3>3. QED
      BY <1>9, <1>11, <2>2, <3>1, <3>2 DEF OfKind
  <2>3. CASE a # n
    <3>1. a \in scheduled
      BY <1>2, <1>11, <2>3
    <3>2. b \in scheduled /\ b # n
      BY <1>2, <1>8, <1>11, <3>1
    <3>3. scheduledOut'[a] = scheduledOut[a] /\ scheduledOut'[b] = scheduledOut[b]
      BY <1>1, <1>2, <2>1, <2>3, <3>2
    <3>4. QED
      BY <1>1, <1>11, <3>1, <3>2, <3>3 DEF IoLimitKept, OneIoPerClk, SharedClk
  <2>4. QED
    BY <2>2, <2>3
<1>12. OfKind("io")' = OfKind("io")
  BY <1>1 DEF OfKind
<1>13. QED
  BY <1>1, <1>10, <1>11, <1>12 DEF IoLimitKept, OneIoPerClk, SharedClk

\* The clk of a later time is not an earlier one.
LEMMA ClkMonotone ==
  ASSUME NEW t \in Int, NEW u \in Int, t <= u
  PROVE  start_clk(t) <= start_clk(u)
<1> DEFINE x == start_clk(t)
           y == start_clk(u)
<1>1. /\ x \in Int /\ y \in Int /\ x * Clk \in Int /\ y * Clk \in Int
      /\ x * Clk <= t /\ u < y * Clk + Clk
      /\ Clk \in Int /\ Clk > 0
  BY ClkBounds, SchedulerAssumption DEF start_of_clk_period
<1> HIDE DEF x, y
<1>2. x * Clk < y * Clk + Clk
  BY <1>1
<1>3. y + 1 <= x => y * Clk + Clk <= x * Clk
  BY <1>1, SMTT(30)
<1>4. x <= y
  BY <1>1, <1>2, <1>3
<1>5. QED
  BY <1>4 DEF x, y

\* The final move changes the clk of every time by the same number, and what
\* is cut at 0 was moved to clk -1: the smallest time m gets above - Clk.
LEMMA MovedClks ==
  ASSUME NEW m \in Int, ~ (0 <= m /\ m < Clk)
  PROVE  \E k \in Int : \A t \in Int : m <= t =>
           \/ /\ start_clk(t) + k = - 1
              /\ Clamped(t + OffsetFor(m)) = 0
           \/ /\ start_clk(t) + k >= 0
              /\ start_clk(Clamped(t + OffsetFor(m))) = start_clk(t) + k
<1>1. Clk \in Nat /\ Clk > 0
  BY SchedulerAssumption
<1>2. PICK k \in Int : OffsetFor(m) = k * Clk
  BY OffsetInClks
<1>3. k * Clk \in Int
  BY <1>1, <1>2, SMTT(30)
<1>4. m + k * Clk > - Clk
  <2>1. CASE m < 0
    <3> DEFINE j == start_clk(- m)
    <3>1. j \in Int /\ j * Clk \in Int /\ - m < j * Clk + Clk
      BY ClkBounds DEF start_of_clk_period
    <3>2. OffsetFor(m) = - ((- j) * Clk)
      BY <2>1 DEF OffsetFor, Ceil, start_clk
    <3>3. \A a, b \in Int : - ((- a) * b) = a * b
      BY SMTT(30)
    <3>4. k * Clk = j * Clk
      BY <1>1, <1>2, <3>1, <3>2, <3>3
    <3>5. \A q \in Int : - m < q + Clk => m + q > - Clk
      BY <1>1
    <3>6. QED
      BY <3>1, <3>4, <3>5
  <2>2. CASE m >= Clk
    <3>1. k * Clk = - (start_clk(m) * Clk)
      BY <1>1, <1>2, <2>2 DEF OffsetFor, start_clk
    <3>2. start_clk(m) * Clk \in Int /\ start_clk(m) * Clk <= m
      BY ClkBounds DEF start_of_clk_period
    <3>3. QED
      BY <1>1, <3>1, <3>2
  <2>3. QED
    BY <1>1, <2>1, <2>2
<1>5. ASSUME NEW t \in Int, m <= t
      PROVE  \/ /\ start_clk(t) + k = - 1
                /\ Clamped(t + k * Clk) = 0
             \/ /\ start_clk(t) + k >= 0
                /\ start_clk(Clamped(t + k * Clk)) = start_clk(t) + k
  <2> DEFINE c == start_clk(t)
             d == c + k
  <2>1. c \in Int /\ c * Clk \in Int /\ c * Clk <= t /\ t < c * Clk + Clk
    BY ClkBounds DEF start_of_clk_period
  <2> HIDE DEF c
  <2>2. d \in Int /\ d * Clk \in Int /\ d * Clk = c * Clk + k * Clk
    BY <1>1, <2>1, SMTT(30)
  <2> HIDE DEF d
  <2>3. d * Clk <= t + k * Clk /\ t + k * Clk < d * Clk + Clk
    BY <1>1, <1>3, <2>1, <2>2
  <2>4. d * Clk + Clk > - Clk
    BY <1>1, <1>3, <1>4, <1>5, <2>2, <2>3
  <2>5. d >= - 1
    <3>1. d <= - 2 => d * Clk + Clk <= - Clk
      BY <1>1, <2>2, SMTT(30)
    <3>2. QED
      BY <1>1, <2>2, <2>4, <3>1
  <2>6. CASE d = - 1
    <3>1. d * Clk = - Clk
      BY <1>1, <2>6
    <3>2. t + k * Clk < 0
      BY <1>1, <1>3, <2>3, <3>1
    <3>3. QED
      BY <2>6, <3>2 DEF Clamped, d, c
  <2>7. CASE d >= 0
    <3>1. d * Clk >= 0
      BY <1>1, <2>2, <2>7, SMTT(30)
    <3>2. t + k * Clk \in Int /\ t + k * Clk >= 0
      BY <1>3, <2>2, <2>3, <3>1
    <3>3. start_clk(t + k * Clk) = d
      BY <2>2, <2>3, <3>2, ClkUnique
    <3>4. Clamped(t + k * Clk) = t + k * Clk
      BY <3>2 DEF Clamped
    <3>5. QED
      BY <2>7, <3>3, <3>4 DEF d, c
  <2>8. QED
    BY <2>2, <2>5, <2>6, <2>7
<1>6. QED
  BY <1>2, <1>5

\* What comes before b along the ordering edges is not later than b.
LEMMA OrderedTimes ==
  ASSUME IInv, phase = "offset", NEW a, NEW b \in Node, OrderedBefore(a, b)
  PROVE  a \in Node /\ scheduledOut[a] <= scheduledOut[b]
<1>1. /\ net \in Netlists /\ scheduled = Node
      /\ scheduledIn \in [Node -> Int] /\ scheduledOut \in [Node -> Int]
  BY DEF IInv, TypeOK, ScheduledClosed
<1>2. \A m \in Node : net.ordDeps[m] \subseteq Deps(m) /\ Deps(m) \subseteq Node
  BY <1>1, NetlistFields DEF Deps, DepsOf
<1>3. ASSUME NEW m \in Node, NEW k \in net.ordDeps[m]
      PROVE  k \in Node /\ scheduledOut[k] <= scheduledOut[m]
  <2>1. k \in Node /\ k \in Deps(m)
    BY <1>2
  <2>2. scheduledIn[m] >= scheduledOut[k] /\ scheduledIn[m] <= scheduledOut[m]
    BY <1>1, <2>1 DEF IInv, EdgesOrdered, NeverBackwards
  <2>3. scheduledIn[m] \in Int /\ scheduledOut[m] \in Int /\ scheduledOut[k] \in Int
    BY <1>1, <2>1
  <2>4. QED
    BY <2>1, <2>2, <2>3
<1> DEFINE S == {m \in Node : scheduledOut[m] <= scheduledOut[b]}
<1>4. net.ordDeps[b] \subseteq S
  BY <1>3
<1>5. ASSUME NEW m \in S, NEW k \in net.ordDeps[m]
      PROVE  k \in S
  <2>1. k \in Node /\ scheduledOut[k] <= scheduledOut[m] /\ scheduledOut[m] <= scheduledOut[b]
    BY <1>3
  <2>2. scheduledOut[k] \in Int /\ scheduledOut[m] \in Int /\ scheduledOut[b] \in Int
    BY <1>1, <2>1
  <2>3. QED
    BY <2>1, <2>2
<1>6. S \in SUBSET Node
  OBVIOUS
<1> HIDE DEF S
<1>7. a \in S
  BY <1>4, <1>5, <1>6, ReachedBackwards
<1>8. QED
  BY <1>7 DEF S

(***************************************************************************)
(* The move to clk 0.  Accesses of different clks meet only where clk -1   *)
(* is cut to time 0; the later one of the two was in clk 0 already, so it  *)
(* meets none that follows.                                                *)
(***************************************************************************)
LEMMA MoveIoLimit ==
  ASSUME IInv, IoLimitKept, MoveToFirstClk
  PROVE  IoLimitKept'
<1>1. /\ phase = "offset" /\ phase' = "check" /\ net' = net
      /\ scheduled = Node
      /\ scheduledIn \in [Node -> Int] /\ scheduledOut \in [Node -> Int]
  BY DEF MoveToFirstClk, IInv, TypeOK, ScheduledClosed
<1>2. /\ OfKind("io")' = OfKind("io") /\ OfKind("io") \subseteq Node
      /\ \A a, b : OrderedBefore(a, b)' = OrderedBefore(a, b)
  BY <1>1 DEF OfKind, OrderedBefore
<1>3. OneIoPerClk(Node, scheduledOut)
  BY <1>1 DEF IoLimitKept
<1>4. SUFFICES OnlyCutAccessesMeet(scheduledOut)'
  BY <1>1 DEF IoLimitKept
<1>5. PICK m \in Times :
        /\ IsMin(m, Times)
        /\ IF 0 <= m /\ m < Clk
           THEN UNCHANGED <<scheduledIn, scheduledOut>>
           ELSE /\ scheduledIn'  = [n \in Node |-> Clamped(scheduledIn[n]  + OffsetFor(m))]
                /\ scheduledOut' = [n \in Node |-> Clamped(scheduledOut[n] + OffsetFor(m))]
  BY DEF MoveToFirstClk
<1>6. CASE 0 <= m /\ m < Clk
  <2>1. scheduledOut' = scheduledOut
    BY <1>5, <1>6
  <2>2. \A a, b \in OfKind("io") :
          SharedClk(a, b, scheduledOut)' => ~ OrderedBefore(a, b)
    BY <1>1, <1>2, <1>3, <2>1 DEF OneIoPerClk, SharedClk, start_clk
  <2>3. QED
    BY <1>2, <2>2 DEF OnlyCutAccessesMeet
<1>7. CASE ~ (0 <= m /\ m < Clk)
  <2>1. m \in Int /\ \A n \in Node : m <= scheduledOut[n]
    BY <1>1, <1>5 DEF Times, IsMin
  <2>2. PICK k \in Int : \A t \in Int : m <= t =>
          \/ /\ start_clk(t) + k = - 1
             /\ Clamped(t + OffsetFor(m)) = 0
          \/ /\ start_clk(t) + k >= 0
             /\ start_clk(Clamped(t + OffsetFor(m))) = start_clk(t) + k
    BY <1>7, <2>1, MovedClks
  <2> DEFINE clk(n) == start_clk(scheduledOut[n]) + k
  <2>3. ASSUME NEW n \in Node
        PROVE  \/ clk(n) = - 1 /\ scheduledOut'[n] = 0
               \/ clk(n) >= 0 /\ start_clk(scheduledOut'[n]) = clk(n)
    <3>1. scheduledOut'[n] = Clamped(scheduledOut[n] + OffsetFor(m))
      BY <1>5, <1>7
    <3>2. scheduledOut[n] \in Int /\ m <= scheduledOut[n]
      BY <1>1, <2>1
    <3>3. QED
      BY <2>2, <3>1, <3>2
  <2>4. ASSUME NEW a \in OfKind("io"), NEW b \in OfKind("io"),
               SharedClk(a, b, scheduledOut)', OrderedBefore(a, b)
        PROVE  clk(a) = - 1 /\ scheduledOut'[a] = 0 /\ clk(b) >= 0
    <3>1. /\ a \in Node /\ b \in Node
          /\ net.intf[a] = net.intf[b]
          /\ start_clk(scheduledOut'[a]) = start_clk(scheduledOut'[b])
      BY <1>1, <1>2, <2>4 DEF SharedClk, start_clk
    <3>2. /\ start_clk(scheduledOut[a]) \in Int /\ start_clk(scheduledOut[b]) \in Int
          /\ start_clk(scheduledOut[a]) <= start_clk(scheduledOut[b])
      BY <1>1, <2>4, <3>1, OrderedTimes, ClkMonotone, ClkBounds
    <3>3. start_clk(scheduledOut[a]) # start_clk(scheduledOut[b])
      BY <1>3, <2>4, <3>1 DEF OneIoPerClk, SharedClk
    <3>4. clk(a) \in Int /\ clk(b) \in Int /\ clk(a) < clk(b)
      BY <3>2, <3>3
    <3> HIDE DEF clk
    <3>5. clk(b) >= 0 /\ start_clk(scheduledOut'[b]) = clk(b)
      BY <2>3, <3>1, <3>4
    <3>6. ~ (clk(a) >= 0 /\ start_clk(scheduledOut'[a]) = clk(a))
      BY <3>1, <3>4, <3>5
    <3>7. QED
      BY <2>3, <3>1, <3>5, <3>6
  <2> HIDE DEF clk
  <2>5. ASSUME NEW a \in OfKind("io"), NEW b \in OfKind("io"), NEW c \in OfKind("io"),
               SharedClk(a, b, scheduledOut)', OrderedBefore(a, b),
               SharedClk(b, c, scheduledOut)', OrderedBefore(b, c)
        PROVE  FALSE
    <3>1. clk(b) >= 0
      BY <2>4, <2>5
    <3>2. clk(b) = - 1
      BY <2>4, <2>5
    <3>3. QED
      BY <3>1, <3>2
  <2>6. QED
    BY <1>2, <2>4, <2>5 DEF OnlyCutAccessesMeet
<1>8. QED
  BY <1>6, <1>7

\* Two ordered accesses to one interface never share a clk in the schedules of
\* ASAP and of the compaction; in the schedule that schedule() returns two of
\* them, never three, share clk 0 at most, the first one cut to time 0.  For
\* every netlist and every order of the recursion.
THEOREM OrderedAccessesApart == Spec => []IoLimitKept
<1>1. Init => LatencySoFar /\ IoLimitKept
  BY DEF Init, LatencySoFar, IoLimitKept, OneIoPerClk
<1>2. IInv /\ CountsInv /\ LatencySoFar /\ IoLimitKept /\ [Next]_vars => IoLimitKept'
  <2> SUFFICES ASSUME IInv, CountsInv, LatencySoFar, IoLimitKept, [Next]_vars
               PROVE  IoLimitKept'
    OBVIOUS
  <2>1. ASSUME phase' \notin {"asap", "alap", "offset", "check", "done"}
        PROVE  IoLimitKept'
    BY <2>1 DEF IoLimitKept
  <2>2. ASSUME NEW n \in Node, AsapTimeConstraintError(n) \/ AlapTimeConstraintError(n)
        PROVE  IoLimitKept'
    BY <2>1, <2>2 DEF AsapTimeConstraintError, AlapTimeConstraintError, Raise
  <2>3. CASE CycleInGraph
    BY <2>1, <2>3 DEF CycleInGraph, Raise
  <2>4. CASE AlapScheduled \/ CheckSchedule \/ UNCHANGED vars
    <3>1. net' = net /\ scheduled' = scheduled /\ scheduledOut' = scheduledOut
      BY <2>4 DEF AlapScheduled, CheckSchedule, vars
    <3>2. /\ OneIoPerClk(scheduled, scheduledOut)' <=> OneIoPerClk(scheduled, scheduledOut)
          /\ OnlyCutAccessesMeet(scheduledOut)' <=> OnlyCutAccessesMeet(scheduledOut)
      BY <3>1 DEF OneIoPerClk, OnlyCutAccessesMeet, SharedClk, OfKind, OrderedBefore, start_clk
    <3>3. \/ phase' = phase
          \/ phase = "alap" /\ phase' = "offset"
          \/ phase = "check" /\ phase' \in {"done", "AssertionError"}
      BY <2>4 DEF AlapScheduled, CheckSchedule, vars
    <3>4. QED
      BY <3>2, <3>3 DEF IoLimitKept
  <2>5. CASE CheckAsapSchedule
    <3>1. net' = net /\ (phase' = "alap" => scheduled' = OfKind("gate"))
          /\ phase' \in {"alap", "AssertionError"}
      BY <2>5 DEF CheckAsapSchedule, StartAlap
    <3>2. OfKind("gate") \cap OfKind("io")' = {}
      BY <3>1 DEF OfKind
    <3>3. QED
      BY <3>1, <3>2 DEF IoLimitKept, OneIoPerClk, SharedClk
  <2>6. ASSUME NEW c \in Node, ScheduleConst(c)
        PROVE  IoLimitKept'
    <3>1. /\ phase = "alap" /\ phase' = "alap" /\ net' = net
          /\ scheduled' = scheduled \cup {c}
          /\ c \notin OfKind("io")
      BY <2>6 DEF ScheduleConst, SetTime, OfKind
    <3>2. \A m \in Node \ {c} : scheduledOut'[m] = scheduledOut[m]
      BY <2>6 DEF ScheduleConst, SetTime, IInv, TypeOK
    <3>3. OfKind("io")' = OfKind("io") /\ OfKind("io") \subseteq Node
      BY <3>1 DEF OfKind
    <3>4. \A a, b : OrderedBefore(a, b)' = OrderedBefore(a, b)
      BY <3>1 DEF OrderedBefore
    <3>5. \A a \in scheduled' \cap OfKind("io") :
            a \in scheduled \cap OfKind("io") /\ scheduledOut'[a] = scheduledOut[a]
      BY <3>1, <3>2, <3>3
    <3>6. QED
      BY <3>1, <3>3, <3>4, <3>5 DEF IoLimitKept, OneIoPerClk, SharedClk
  <2>7. QED
    BY <2>2, <2>3, <2>4, <2>5, <2>6, AsapIoLimit, AlapIoLimit, MoveIoLimit
       DEF Next, NextAsap, NextAlap, Terminated
<1>3. QED
  BY <1>1, <1>2, InitInv, NextInv, CountsInit, CountsNext, LatencyNext, PTL DEF Spec

-----------------------------------------------------------------------------
(***************************************************************************)
(* ASAP is as soon as possible.  A node that is placed later has no part   *)
(* in the count of a node placed before, so what was too early stays so.   *)
(***************************************************************************)
LEMMA TooManyStable ==
  ASSUME IInv, CountsInv, NEW n \in Node, ScheduleAsap(n),
         NEW m \in scheduled', NEW t
  PROVE  TooManyIos(m, t, OrderingInputs)' <=> TooManyIos(m, t, OrderingInputs)
<1> DEFINE next == OrderingInputs
<1>1. /\ phase = "asap" /\ phase' = "asap" /\ net' = net
      /\ n \notin scheduled /\ Deps(n) \subseteq scheduled /\ net \in Netlists
      /\ scheduled \subseteq Node
  BY DEF ScheduleAsap, AsapReady, IInv, TypeOK
<1>2. /\ scheduled' = scheduled \cup {n}
      /\ \A k \in scheduled : scheduledOut'[k] = scheduledOut[k]
  BY <1>1, AsapFacts
<1>3. next' = next
  BY <1>1 DEF OrderingInputs
<1>4. m \in Node /\ next[m] \subseteq scheduled
  <2>1. Deps(m) \subseteq scheduled
    BY <1>1, <1>2 DEF IInv, ScheduledClosed
  <2>2. QED
    BY <1>1, <1>2, <2>1, EdgesFacts
<1>5. CountsInv'
  BY CountsAsap
<1>6. SUFFICES ASSUME net.kind[m] = "io"
               PROVE  TooManyIos(m, t, next)' <=> TooManyIos(m, t, next)
  BY <1>1 DEF TooManyIos
<1> DEFINE intf == net.intf[m]
           f == IoCounts(intf, next)
           g == IoCounts(intf, next)'
<1>7. intf \in Intf
  BY <1>1, <1>4, <1>6, EdgesFacts
<1>8. /\ CountsDefined(net.intf, next, scheduled, scheduledOut)
      /\ CountsDefined(net.intf, next, scheduled', scheduledOut')
  BY <1>1, <1>3, <1>5 DEF CountsInv
<1>9. IsCount(f, intf, net.intf, next, scheduled, scheduledOut)
  BY <1>7, <1>8, CountChosen DEF CountsDefined
<1>10. IsCount(g, intf, net.intf, next, scheduled', scheduledOut')
  <2>1. g = CHOOSE cnt : IsCount(cnt, intf, net.intf, next, scheduled', scheduledOut')
    BY <1>1, <1>3 DEF IoCounts, IsCount, NextInClk, InClkOf
  <2>2. QED
    BY <1>7, <1>8, <2>1 DEF CountsDefined
<1> HIDE DEF f, g, next
<1>11. \A k \in scheduled : f[k] = g[k]
  <2>1. \A k \in scheduled : next[k] \subseteq scheduled /\ scheduledOut'[k] = scheduledOut[k]
    BY <1>2, <1>8 DEF CountsDefined
  <2>2. scheduled \subseteq scheduled' /\ HasFirst(next, scheduled)
    BY <1>2, <1>8 DEF CountsDefined
  <2>3. QED
    BY <1>9, <1>10, <2>1, <2>2, CountUnique
<1> DEFINE nodes == {k \in next[m] : start_clk(scheduledOut[k]) = start_clk(t)}
<1>12. {k \in next[m] : start_clk(scheduledOut'[k]) = start_clk(t)} = nodes
  BY <1>2, <1>4
<1>13. LongestOf(f, nodes) = LongestOf(g, nodes)
  <2>1. \A k \in nodes : f[k] = g[k]
    BY <1>4, <1>11
  <2> HIDE DEF nodes
  <2>2. {f[k] : k \in nodes} = {g[k] : k \in nodes}
    BY <2>1
  <2>3. QED
    BY <2>2 DEF LongestOf
<1>14. TooManyIos(m, t, next) <=> LongestOf(f, nodes) + 1 > maxIosPerClk
  BY <1>6 DEF TooManyIos, NumberOfIoInThisClkPeriod, NextInClk, f
<1>15. TooManyIos(m, t, next)' <=> LongestOf(g, nodes) + 1 > maxIosPerClk
  BY <1>1, <1>3, <1>6, <1>12 DEF TooManyIos, NumberOfIoInThisClkPeriod, NextInClk, g, maxIosPerClk
<1>16. QED
  BY <1>13, <1>14, <1>15

\* At no earlier time the value of d is there and n fits in one clk.
LEMMA InputTimeEarliest ==
  ASSUME net \in Netlists, NEW n \in Node, NEW d \in Node, scheduledOut \in [Node -> Int],
         NEW t \in Int, t < InputTime(n, d),
         scheduledOut[d] <= t - net.delay[n],
         start_clk(t - net.delay[n]) = start_clk(t)
  PROVE  FALSE
<1> DEFINE a == scheduledOut[d]
           D == net.delay[n]
           s == start_of_clk_period(a)
<1>1. a \in Int /\ D \in Nat /\ Clk \in Int
  BY NetlistFields, SchedulerAssumption
<1>2. /\ s \in Int
      /\ s <= a
      /\ start_of_next_clk_period(a) = s + Clk
  BY <1>1, ClkBounds
<1>3. CASE D >= s + Clk - a
  <2>1. InputTime(n, d) = D + (s + Clk)
    BY <1>1, <1>2, <1>3 DEF InputTime
  <2>2. t - D \in Int /\ s <= t - D /\ t - D < s + Clk
    BY <1>1, <1>2, <2>1
  <2>3. start_clk(t) = start_clk(a)
    BY <1>1, <2>2, SameClk
  <2>4. t < s + Clk
    BY <2>3, ClkBounds DEF start_of_clk_period
  <2>5. QED
    BY <1>1, <1>2, <1>3, <2>4
<1>4. CASE ~ (D >= s + Clk - a)
  <2>1. InputTime(n, d) = D + a
    BY <1>1, <1>2, <1>4 DEF InputTime
  <2>2. QED
    BY <1>1, <2>1
<1>5. QED
  BY <1>3, <1>4

LEMMA AsapEarliest ==
  ASSUME IInv, CountsInv, AsapIsEarliest, NEW n \in Node, ScheduleAsap(n)
  PROVE  AsapIsEarliest'
<1>1. /\ phase = "asap" /\ phase' = "asap" /\ net' = net
      /\ n \notin scheduled /\ Deps(n) \subseteq scheduled /\ net \in Netlists
      /\ scheduled \subseteq Node
      /\ scheduledOut \in [Node -> Int]
  BY DEF ScheduleAsap, AsapReady, IInv, TypeOK
<1>2. PICK t0 \in Int, u \in Int :
        /\ t0 >= 0
        /\ t0 = 0 \/ \E d \in Deps(n) : t0 = InputTime(n, d)
        /\ u = IF TooManyIos(n, t0, OrderingInputs) THEN start_of_next_clk_period(t0) ELSE t0
        /\ scheduled' = scheduled \cup {n}
        /\ scheduledOut'[n] = u
        /\ \A m \in Node \ {n} : scheduledOut'[m] = scheduledOut[m]
  BY AsapFacts
<1>3. \A m \in scheduled' : /\ Deps(m)' = Deps(m)
                            /\ Deps(m) \subseteq scheduled
  BY <1>1, <1>2 DEF Deps, IInv, ScheduledClosed
<1>4. \A d \in scheduled : d \in Node /\ scheduledOut'[d] = scheduledOut[d]
  BY <1>1, <1>2
<1>5. SUFFICES ASSUME NEW m \in scheduled', NEW t \in 0..(scheduledOut'[m] - 1),
                      \A d \in Deps(m) : scheduledOut[d] <= t - net.delay[m],
                      start_clk(t - net.delay[m]) = start_clk(t),
                      ~ TooManyIos(m, t, OrderingInputs)
               PROVE  FALSE
  <2>1. \A t : \A m \in scheduled' : TooManyIos(m, t, OrderingInputs)' <=> TooManyIos(m, t, OrderingInputs)
    BY TooManyStable
  <2>2. \A m \in scheduled' : \A d \in Deps(m)' : d \in Deps(m) /\ scheduledOut'[d] = scheduledOut[d]
    BY <1>3, <1>4
  <2>3. \A m \in scheduled' : \A d \in Deps(m) : d \in Deps(m)'
    BY <1>3
  <2>4. QED
    BY <1>1, <2>1, <2>2, <2>3 DEF AsapIsEarliest
<1>6. CASE m # n
  <2>1. m \in scheduled /\ scheduledOut'[m] = scheduledOut[m]
    BY <1>2, <1>4, <1>6
  <2>2. QED
    BY <1>1, <1>5, <2>1 DEF AsapIsEarliest
<1>7. CASE m = n
  <2>1. t \in Int /\ 0 <= t /\ t < u
    BY <1>2, <1>5, <1>7
  <2>2. t0 <= t
    <3> SUFFICES ASSUME t < t0
                 PROVE  FALSE
      BY <2>1
    <3>1. PICK d \in Deps(n) : t0 = InputTime(n, d)
      BY <1>2, <2>1
    <3>2. d \in Node
      BY <1>1, <3>1
    <3>3. QED
      BY <1>1, <1>5, <1>7, <2>1, <3>1, <3>2, InputTimeEarliest
  <2>3. TooManyIos(n, t0, OrderingInputs) /\ u = start_of_next_clk_period(t0)
    BY <1>2, <2>1, <2>2
  <2>4. start_clk(t) = start_clk(t0)
    <3>1. t < start_of_clk_period(t0) + Clk /\ start_of_clk_period(t0) <= t0
          /\ start_of_clk_period(t0) \in Int
      BY <2>1, <2>3, ClkBounds
    <3>2. start_of_clk_period(t0) <= t
      BY <2>1, <2>2, <3>1
    <3>3. QED
      BY <2>1, <3>1, <3>2, SameClk
  <2>5. TooManyIos(n, t, OrderingInputs)
    BY <2>3, <2>4 DEF TooManyIos, NumberOfIoInThisClkPeriod, NextInClk
  <2>6. QED
    BY <1>5, <1>7, <2>5
<1>8. QED
  BY <1>6, <1>7

\* scheduleAsap gives each node the earliest time at which its inputs are
\* available, it fits in one clk and the IO limit holds, in every netlist and
\* every order of the recursion.
THEOREM AsapMeansIt == Spec => []AsapIsEarliest
<1>1. Init => AsapIsEarliest
  BY DEF Init, AsapIsEarliest
<1>2. IInv /\ CountsInv /\ AsapIsEarliest /\ [Next]_vars => AsapIsEarliest'
  <2> SUFFICES ASSUME IInv, CountsInv, AsapIsEarliest, [Next]_vars
               PROVE  AsapIsEarliest'
    OBVIOUS
  <2>1. ASSUME phase' # "asap"
        PROVE  AsapIsEarliest'
    BY <2>1 DEF AsapIsEarliest
  <2>2. ASSUME NEW n \in Node, AsapTimeConstraintError(n) \/ AlapTimeConstraintError(n)
        PROVE  AsapIsEarliest'
    BY <2>1, <2>2 DEF AsapTimeConstraintError, AlapTimeConstraintError, Raise
  <2>3. CASE CycleInGraph \/ CheckAsapSchedule \/ AlapScheduled \/ MoveToFirstClk \/ CheckSchedule
    BY <2>1, <2>3
       DEF CycleInGraph, Raise, CheckAsapSchedule, AlapScheduled, MoveToFirstClk, CheckSchedule
  <2>4. ASSUME NEW n \in Node, ScheduleAlapCompaction(n) \/ ScheduleConst(n)
        PROVE  AsapIsEarliest'
    BY <2>1, <2>4 DEF ScheduleAlapCompaction, AlapReady, ScheduleConst
  <2>5. CASE UNCHANGED vars
    <3>1. \A m, t : TooManyIos(m, t, OrderingInputs)' <=> TooManyIos(m, t, OrderingInputs)
      BY <2>5 DEF vars, TooManyIos, NumberOfIoInThisClkPeriod, NextInClk, IoCounts, OrderingInputs
    <3>2. QED
      BY <2>5, <3>1 DEF vars, AsapIsEarliest, Deps
  <2>6. QED
    BY <2>2, <2>3, <2>4, <2>5, AsapEarliest DEF Next, NextAsap, NextAlap, Terminated
<1>3. QED
  BY <1>1, <1>2, InitInv, NextInv, CountsInit, CountsNext, PTL DEF Spec

=============================================================================
