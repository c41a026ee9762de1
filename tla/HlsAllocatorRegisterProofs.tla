--------------------- MODULE HlsAllocatorRegisterProofs ---------------------
(***************************************************************************)
(* RegistersLoaded of HlsAllocator for every netlist and every schedule of *)
(* it: each register of a chain is listed in the stage of the pipeline     *)
(* which loads it, but for the kinds the property names.                   *)
(*                                                                         *)
(* Unlike the properties of HlsAllocatorProofs this one rests on the order *)
(* of the tasks.  The list todo is taken as a queue of which each task is  *)
(* followed by another one: the allocation of a node by                    *)
(* _afterNodeInstantiated for it, a use of an operand by                   *)
(* _afterNodeInstantiated for the user, a hand-over by _afterOutputUsed    *)
(* for the value.  So while a chain is longer than what is listed of it,   *)
(* the call that lists the rest is still to come; and no chain is extended *)
(* for another element before that call.                                   *)
(***************************************************************************)
EXTENDS HlsAllocatorProofs

-----------------------------------------------------------------------------
\* The order of the tasks.

\* Behind every member of A comes one of B.
Followed(q, A, B) ==
  \A i \in DOMAIN q : q[i] \in A => \E j \in DOMAIN q : i < j /\ q[j] \in B

\* The positions of two sequences one after the other.
LEMMA JoinedAt ==
  ASSUME NEW s, NEW r, IsSeq(s), IsSeq(r)
  PROVE  /\ DOMAIN s = 1..Len(s) /\ Len(s) \in Nat
         /\ DOMAIN r = 1..Len(r) /\ Len(r) \in Nat
         /\ DOMAIN (s \o r) = 1..(Len(s) + Len(r))
         /\ \A i \in DOMAIN s : (s \o r)[i] = s[i]
         /\ \A i \in DOMAIN r : (s \o r)[Len(s) + i] = r[i]
<1> DEFINE S == ToSet(r) \cup ToSet(s)
<1>1. s \in Seq(S) /\ r \in Seq(S)
  BY DEF IsSeq
<1> HIDE DEF S
<1>2. QED
  BY <1>1

\* Of two positions, the later one of which is in the first sequence, both are;
\* otherwise the later one is in the second one.
LEMMA JoinedPair ==
  ASSUME NEW s, NEW r, IsSeq(s), IsSeq(r), NEW i \in DOMAIN (s \o r), NEW j \in DOMAIN (s \o r),
         i < j
  PROVE  LET q == s \o r
         IN  \/ i \in DOMAIN s /\ j \in DOMAIN s /\ q[i] = s[i] /\ q[j] = s[j]
             \/ q[i] \in ToSet(s) /\ q[j] \in ToSet(r)
             \/ \E k, l \in DOMAIN r : k < l /\ q[i] = r[k] /\ q[j] = r[l]
<1> DEFINE q == s \o r
<1>1. /\ DOMAIN s = 1..Len(s) /\ Len(s) \in Nat
      /\ DOMAIN r = 1..Len(r) /\ Len(r) \in Nat
      /\ DOMAIN q = 1..(Len(s) + Len(r))
      /\ \A k \in DOMAIN s : q[k] = s[k]
      /\ \A k \in DOMAIN r : q[Len(s) + k] = r[k]
  BY JoinedAt
<1> HIDE DEF q
<1>2. CASE j <= Len(s)
  BY <1>1, <1>2 DEF q
<1>3. CASE j > Len(s)
  <2>1. j - Len(s) \in DOMAIN r /\ Len(s) + (j - Len(s)) = j
    BY <1>1, <1>3 DEF q
  <2>2. q[j] = r[j - Len(s)] /\ q[j] \in ToSet(r)
    BY <1>1, <2>1 DEF ToSet
  <2>3. CASE i <= Len(s)
    BY <1>1, <2>2, <2>3 DEF q, ToSet
  <2>4. CASE i > Len(s)
    <3>1. i - Len(s) \in DOMAIN r /\ Len(s) + (i - Len(s)) = i /\ i - Len(s) < j - Len(s)
      BY <1>1, <2>1, <2>4 DEF q
    <3>2. q[i] = r[i - Len(s)]
      BY <1>1, <3>1
    <3>3. QED
      BY <2>1, <2>2, <3>1, <3>2 DEF q
  <2>5. QED
    BY <1>1, <2>3, <2>4 DEF q
<1>4. QED
  BY <1>1, <1>2, <1>3 DEF q

\* The positions of the rest of a sequence.
LEMMA RestAt ==
  ASSUME NEW q, IsSeq(q), q # <<>>
  PROVE  /\ 1 \in DOMAIN q /\ q[1] = Head(q)
         /\ DOMAIN q \subseteq Nat \ {0}
         /\ IsSeq(Tail(q))
         /\ \A i \in DOMAIN Tail(q) : i + 1 \in DOMAIN q /\ Tail(q)[i] = q[i + 1]
         /\ \A j \in DOMAIN q : 1 < j => j - 1 \in DOMAIN Tail(q) /\ Tail(q)[j - 1] = q[j]
<1> DEFINE S == ToSet(q)
           r == Tail(q)
<1>1. q \in Seq(S) /\ IsSeq(r)
  BY FirstAndRest DEF IsSeq
<1>2. /\ Len(q) \in Nat \ {0} /\ DOMAIN q = 1..Len(q) /\ r \in Seq(S) /\ Len(r) = Len(q) - 1
      /\ DOMAIN r = 1..Len(r) /\ Head(q) = q[1] /\ \A i \in 1..Len(r) : r[i] = q[i + 1]
  BY <1>1
<1> HIDE DEF S, r
<1>3. ASSUME NEW j \in DOMAIN q, 1 < j
      PROVE  j - 1 \in DOMAIN r /\ r[j - 1] = q[j]
  <2>1. j - 1 \in 1..Len(r) /\ (j - 1) + 1 = j
    BY <1>2, <1>3
  <2>2. QED
    BY <1>2, <2>1
<1>4. \A i \in DOMAIN r : i + 1 \in DOMAIN q /\ r[i] = q[i + 1]
  BY <1>2
<1>5. 1 \in DOMAIN q /\ q[1] = Head(q) /\ DOMAIN q \subseteq Nat \ {0}
  BY <1>2
<1>6. QED
  BY <1>1, <1>3, <1>4, <1>5 DEF r

\* What is followed stays so when the first member is taken; and when that was
\* in A, one of B is left.
LEMMA FollowedRest ==
  ASSUME NEW q, IsSeq(q), q # <<>>, NEW A, NEW B, Followed(q, A, B), NEW A2,
         A2 \cap ToSet(Tail(q)) \subseteq A
  PROVE  /\ Followed(Tail(q), A2, B)
         /\ Head(q) \in A => B \cap ToSet(Tail(q)) # {}
<1> DEFINE r == Tail(q)
<1>1. /\ 1 \in DOMAIN q /\ q[1] = Head(q)
      /\ DOMAIN q \subseteq Nat \ {0}
      /\ \A i \in DOMAIN r : i + 1 \in DOMAIN q /\ r[i] = q[i + 1]
      /\ \A j \in DOMAIN q : 1 < j => j - 1 \in DOMAIN r /\ r[j - 1] = q[j]
      /\ IsSeq(r)
  BY RestAt
<1>2. DOMAIN r \subseteq Nat
  BY <1>1, JoinedAt
<1> HIDE DEF r
<1>3. ASSUME NEW i \in DOMAIN r, r[i] \in A2
      PROVE  \E j \in DOMAIN r : i < j /\ r[j] \in B
  <2>1. r[i] \in A /\ i + 1 \in DOMAIN q /\ q[i + 1] = r[i]
    BY <1>1, <1>3 DEF ToSet, r
  <2>2. PICK j \in DOMAIN q : i + 1 < j /\ q[j] \in B
    BY <2>1 DEF Followed
  <2>3. 1 < j /\ i < j - 1
    BY <1>1, <1>2, <2>2
  <2>4. QED
    BY <1>1, <2>2, <2>3
<1>4. ASSUME Head(q) \in A
      PROVE  B \cap ToSet(r) # {}
  <2>1. PICK j \in DOMAIN q : 1 < j /\ q[j] \in B
    BY <1>1, <1>4 DEF Followed
  <2>2. QED
    BY <1>1, <2>1 DEF ToSet
<1>5. QED
  BY <1>3, <1>4 DEF Followed, r

\* In two sequences one after the other: the second one has it, and the first
\* one has no member of A, or has it too, or the second one has a member of B.
LEMMA FollowedJoined ==
  ASSUME NEW s, NEW r, IsSeq(s), IsSeq(r), NEW A, NEW B, Followed(r, A, B),
         A \cap ToSet(s) = {} \/ Followed(s, A, B) \/ B \cap ToSet(r) # {}
  PROVE  Followed(s \o r, A, B)
<1> DEFINE q == s \o r
<1>1. /\ DOMAIN s = 1..Len(s) /\ Len(s) \in Nat
      /\ DOMAIN r = 1..Len(r) /\ Len(r) \in Nat
      /\ DOMAIN q = 1..(Len(s) + Len(r))
      /\ \A k \in DOMAIN s : q[k] = s[k]
      /\ \A k \in DOMAIN r : q[Len(s) + k] = r[k]
  BY JoinedAt
<1> HIDE DEF q
<1>2. ASSUME NEW i \in DOMAIN q, q[i] \in A
      PROVE  \E j \in DOMAIN q : i < j /\ q[j] \in B
  <2>1. CASE i <= Len(s)
    <3>1. i \in DOMAIN s /\ s[i] \in A /\ s[i] \in ToSet(s)
      BY <1>1, <1>2, <2>1 DEF ToSet
    <3>2. CASE Followed(s, A, B)
      <4>1. PICK j \in DOMAIN s : i < j /\ s[j] \in B
        BY <3>1, <3>2 DEF Followed
      <4>2. j \in DOMAIN q
        BY <1>1
      <4>3. QED
        BY <1>1, <4>1, <4>2
    <3>3. CASE B \cap ToSet(r) # {}
      <4>1. PICK k \in DOMAIN r : r[k] \in B
        BY <3>3 DEF ToSet
      <4>2. Len(s) + k \in DOMAIN q /\ i < Len(s) + k
        BY <1>1, <2>1
      <4>3. QED
        BY <1>1, <4>1, <4>2
    <3>4. QED
      BY <3>1, <3>2, <3>3
  <2>2. CASE i > Len(s)
    <3>1. i - Len(s) \in DOMAIN r /\ Len(s) + (i - Len(s)) = i
      BY <1>1, <2>2
    <3>2. r[i - Len(s)] \in A
      BY <1>1, <1>2, <3>1
    <3>3. PICK k \in DOMAIN r : i - Len(s) < k /\ r[k] \in B
      BY <3>1, <3>2 DEF Followed
    <3>4. Len(s) + k \in DOMAIN q /\ i < Len(s) + k
      BY <1>1, <3>3
    <3>5. QED
      BY <1>1, <3>3, <3>4
  <2>3. QED
    BY <1>1, <2>1, <2>2
<1>3. QED
  BY <1>2 DEF Followed, q

\* A member that is followed is not the last one.
LEMMA FollowedMeets ==
  ASSUME NEW q, NEW A, NEW B, Followed(q, A, B), A \cap ToSet(q) # {}
  PROVE  B \cap ToSet(q) # {}
  BY DEF Followed, ToSet

-----------------------------------------------------------------------------
\* The tasks that one task is replaced by.

\* m takes its operand d, and asks for it.
UseCall(e, d, m) == GetCall(e, d, scheduledIn[m], <<"node", m>>)

\* What brings it there.
OperandCall(e, d, m) == [step |-> "operand", elm |-> e, node |-> d, user |-> m]

\* The calls for a node that is not there yet.
NodeCalls(e, n) == {TaskOf("alloc", e, n), TaskOf("after", e, n)}

\* The tasks S are those which are done for h.
Makes(h, S) ==
  /\ h.step = "element" =>
       S = {[step |-> "stage", elm |-> h.elm, stage |-> s] : s \in DOMAIN archElements[h.elm].nodes}
  /\ h.step = "stage" =>
       S = {TaskOf("node", h.elm, n) : n \in ToSet(archElements[h.elm].nodes[h.stage])}
  /\ h.step = "node" =>
       S = (IF wasInstantiated(h.elm, h.node) THEN NodeCalls(h.elm, h.node)
            ELSE {TaskOf("alloc", h.elm, h.node)})
             \cup (IF net.kind[h.node] = "io" THEN {TaskOf("io", h.elm, h.node)} ELSE {})
  /\ h.step = "io" =>
       S = {UseCall(h.elm, d, h.node) : d \in {k \in net.dataDeps[h.node] : ~ IsConst(k)}}
  /\ h.step = "alloc" =>
       S = IF HasRtl(h.elm, h.node) THEN {}
           ELSE IF IsRead(h.node) THEN {TaskOf("alloc", h.elm, d) : d \in Deps(h.node)}
           ELSE IF IsWrite(h.node)
           THEN OperandTasks(h.elm, h.node) \cup {TaskOf("drive", h.elm, h.node)}
           ELSE IF net.kind[h.node] = "op"
           THEN OperandTasks(h.elm, h.node) \cup {TaskOf("create", h.elm, h.node)}
           ELSE {}
  /\ h.step = "operand" =>
       S = (IF HasRtl(h.elm, h.node) THEN {} ELSE NodeCalls(h.elm, h.node))
             \cup (IF IsConst(h.node) THEN {} ELSE {UseCall(h.elm, h.node, h.user)})
  /\ h.step = "after" => S = {TaskOf("used", h.elm, d) : d \in net.dataDeps[h.node]}
  /\ h.step = "connect" => S = {} \/ S = ToSet(HandOver(h.node, Owner(h.user)))
  /\ h.step \in {"used", "get", "create", "drive", "makeValid", "sync"} => S = {}

\* The order in which they are done.
InOrder(s) ==
  /\ \A e, n : TaskOf("after", e, n) \in ToSet(s) =>
       Followed(s, {TaskOf("alloc", e, n)}, {TaskOf("after", e, n)})
  /\ \A i, j \in DOMAIN s : i < j /\ s[j].step = "create" => s[i].step = "operand"
  /\ \A i \in DOMAIN s : s[i].step = "get" /\ s[i].user[1] = "element" =>
       \E j \in DOMAIN s : i < j /\ s[j] = TaskOf("used", s[i].elm, s[i].node)
  /\ \A i \in DOMAIN s : s[i].step = "makeValid" => i = 1
  /\ \A t \in ToSet(s) : t.step # "connect"

\* The tasks s take the place of the first one.
Put(s) ==
  /\ IsSeq(todo) /\ todo # <<>> /\ IsSeq(s)
  /\ todo' = s \o Tail(todo)
  /\ Makes(Head(todo), ToSet(s))
  /\ InOrder(s)

\* Most tasks need no order.
LEMMA AnyOrder ==
  ASSUME NEW s, IsSeq(s),
         \A t \in ToSet(s) : t.step \notin {"after", "create", "makeValid", "connect"}
                             /\ (t.step = "get" => t.user[1] = "node")
  PROVE  InOrder(s)
<1>1. \A i \in DOMAIN s : s[i] \in ToSet(s)
  BY DEF ToSet
<1>2. \A e, n : TaskOf("after", e, n).step = "after"
  BY DEF TaskOf
<1>3. QED
  BY <1>1, <1>2 DEF InOrder

\* Continue with tasks in their order.
LEMMA PutBy ==
  ASSUME AllocOK, NEW step, NextIs(step), NEW s, IsSeq(s), Continue(s),
         Makes(Head(todo), ToSet(s)), InOrder(s)
  PROVE  Put(s)
<1>1. IsSeq(todo) /\ todo # <<>>
  BY HeadIs DEF AllocOK
<1>2. QED
  BY <1>1 DEF Put, Continue

\* A task that is done.
LEMMA PutNothing ==
  ASSUME AllocOK, NEW step, NextIs(step), Continue(<<>>), Makes(Head(todo), {})
  PROVE  Put(<<>>)
<1>1. IsSeq(<<>>) /\ ToSet(<<>>) = {}
  BY NoTask
<1>2. InOrder(<<>>)
  BY <1>1, AnyOrder
<1>3. QED
  BY <1>1, <1>2, PutBy

\* The stages of an element
LEMMA ElementPuts ==
  ASSUME AllocOK, LoopOverStages
  PROVE  \E s : Put(s)
<1> DEFINE e == Head(todo).elm
           q == archElements[e].nodes
           s == [i \in DOMAIN q |-> [step |-> "stage", elm |-> e, stage |-> i]]
<1>1. /\ e \in DOMAIN archElements /\ Head(todo).step = "element"
      /\ NextIs("element") /\ Continue(s)
  BY HeadIs DEF LoopOverStages, TaskOK, AllocOK
<1>2. IsSeq(q)
  BY <1>1, ElementFacts, SeqIsSeq DEF AllocOK
<1> HIDE DEF e, q
<1>3. s = [i \in DOMAIN q |-> s[i]]
      /\ \A i \in DOMAIN q : s[i] = [step |-> "stage", elm |-> e, stage |-> i]
  OBVIOUS
<1> HIDE DEF s
<1>4. IsSeq(s) /\ \A t : t \in ToSet(s) <=> \E i \in DOMAIN q : t = s[i]
  BY <1>2, <1>3, MappedSeq
<1>5. ToSet(s) = {[step |-> "stage", elm |-> e, stage |-> i] : i \in DOMAIN q}
  BY <1>3, <1>4
<1>6. InOrder(s)
  <2>1. \A t \in ToSet(s) : t.step = "stage"
    BY <1>5
  <2>2. QED
    BY <1>4, <2>1, AnyOrder
<1>7. Makes(Head(todo), ToSet(s))
  BY <1>1, <1>5 DEF Makes, e, q
<1>8. QED
  BY <1>1, <1>4, <1>6, <1>7, PutBy

\* The nodes of a stage
LEMMA StagePuts ==
  ASSUME AllocOK, LoopOverNodes, allocPhase = "build"
  PROVE  \E s : Put(s)
<1> DEFINE e == Head(todo).elm
           q == archElements[e].nodes[Head(todo).stage]
           s == OnEach(q, "node", e)
<1>1. /\ e \in DOMAIN archElements /\ Head(todo).step = "stage"
      /\ Head(todo).stage \in DOMAIN archElements[e].nodes
      /\ NextIs("stage") /\ Continue(s)
  BY HeadIs DEF LoopOverNodes, TaskOK, AllocOK, OnEach
<1>2. IsSeq(q)
  BY <1>1, ElementFacts DEF AllocOK
<1> HIDE DEF e, q
<1>3. IsSeq(s) /\ \A x : x \in ToSet(s) <=> \E n \in ToSet(q) : x = TaskOf("node", e, n)
  BY <1>2, OnEachFacts DEF TaskOf
<1> HIDE DEF s
<1>4. ToSet(s) = {TaskOf("node", e, n) : n \in ToSet(q)}
  BY <1>3
<1>5. InOrder(s)
  <2>1. \A t \in ToSet(s) : t.step = "node"
    BY <1>4 DEF TaskOf
  <2>2. QED
    BY <1>3, <2>1, AnyOrder
<1>6. Makes(Head(todo), ToSet(s))
  BY <1>1, <1>4 DEF Makes, e, q
<1>7. QED
  BY <1>1, <1>3, <1>5, <1>6, PutBy

\* A call of alloc with after behind it, and other calls.
LEMMA NodeInOrder ==
  ASSUME NEW e, NEW n, NEW z, IsSeq(z),
         \A t \in ToSet(z) : t.step \in {"io", "get"} /\ (t.step = "get" => t.user[1] = "node")
  PROVE  LET s == OnEach(<<n>>, "alloc", e) \o OnEach(<<n>>, "after", e) \o z
         IN  IsSeq(s) /\ ToSet(s) = NodeCalls(e, n) \cup ToSet(z) /\ InOrder(s)
<1> DEFINE x == OnEach(<<n>>, "alloc", e)
           y == OnEach(<<n>>, "after", e)
           s == x \o y \o z
           a == TaskOf("alloc", e, n)
           b == TaskOf("after", e, n)
<1>1. IsSeq(x) /\ IsSeq(y) /\ ToSet(x) = {a} /\ ToSet(y) = {b}
  BY OneCall
<1>2. a.step = "alloc" /\ b.step = "after"
  BY DEF TaskOf
<1>3. ASSUME NEW f, NEW m
      PROVE  /\ TaskOf("after", f, m).step = "after" /\ TaskOf("alloc", f, m).step = "alloc"
             /\ TaskOf("after", f, m) = b => TaskOf("alloc", f, m) = a
  BY DEF TaskOf
<1>4. NodeCalls(e, n) = {a, b}
  BY DEF NodeCalls
<1> HIDE DEF x, y, a, b
<1>5. IsSeq(x \o y) /\ ToSet(x \o y) = {a, b}
  BY <1>1, Joined
<1>6. IsSeq(s) /\ ToSet(s) = {a, b} \cup ToSet(z)
  BY <1>5, Joined
<1>7. Followed(s, {a}, {b})
  <2>1. Followed(y, {a}, {b})
    BY <1>1, <1>2 DEF Followed, ToSet
  <2>2. Followed(x \o y, {a}, {b})
    BY <1>1, <2>1, FollowedJoined
  <2>3. Followed(z, {a}, {b})
    BY <1>2 DEF Followed, ToSet
  <2>4. QED
    BY <1>5, <2>2, <2>3, FollowedJoined
<1>8. \A t \in ToSet(s) : t.step \in {"alloc", "after", "io", "get"}
                          /\ (t.step = "get" => t.user[1] = "node")
  BY <1>2, <1>6
<1>9. \A i \in DOMAIN s : s[i] \in ToSet(s)
  BY DEF ToSet
<1>10. ASSUME NEW f, NEW m, TaskOf("after", f, m) \in ToSet(s)
       PROVE  Followed(s, {TaskOf("alloc", f, m)}, {TaskOf("after", f, m)})
  <2>1. TaskOf("after", f, m) = b
    BY <1>2, <1>3, <1>6, <1>10
  <2>2. QED
    BY <1>3, <1>7, <2>1
<1> HIDE DEF s
<1>11. InOrder(s)
  BY <1>8, <1>9, <1>10 DEF InOrder
<1>12. QED
  BY <1>4, <1>6, <1>11 DEF s, x, y

\* A node of a stage
LEMMA NodePuts ==
  ASSUME AllocOK, AllocateDataPath
  PROVE  \E s : Put(s)
<1> DEFINE e == Head(todo).elm
           n == Head(todo).node
           x == OnEach(<<n>>, "alloc", e)
           z == IF net.kind[n] = "io" THEN OnEach(<<n>>, "io", e) ELSE <<>>
           Z == IF net.kind[n] = "io" THEN {TaskOf("io", e, n)} ELSE {}
<1>1. NextIs("node") /\ Head(todo).step = "node"
  BY TaskFacts DEF AllocateDataPath
<1>2. IsSeq(z) /\ ToSet(z) = Z
  BY OneCall, NoTask
<1>3. \A t \in Z : t.step = "io"
  BY DEF TaskOf
<1>4. IsSeq(x) /\ ToSet(x) = {TaskOf("alloc", e, n)}
  BY OneCall
<1>5. CASE wasInstantiated(e, n)
  <2> DEFINE s == x \o OnEach(<<n>>, "after", e) \o z
  <2>1. Continue(s)
    BY <1>5 DEF AllocateDataPath
  <2>2. IsSeq(s) /\ ToSet(s) = NodeCalls(e, n) \cup Z /\ InOrder(s)
    <3> HIDE DEF z, Z
    <3>1. QED
      BY <1>2, <1>3, NodeInOrder
  <2>3. Makes(Head(todo), ToSet(s))
    BY <1>1, <1>5, <2>2 DEF Makes
  <2> HIDE DEF s
  <2>4. QED
    BY <1>1, <2>1, <2>2, <2>3, PutBy
<1>6. CASE ~ wasInstantiated(e, n)
  <2> DEFINE s == x \o <<>> \o z
  <2>1. Continue(s)
    BY <1>6 DEF AllocateDataPath
  <2>2. IsSeq(s) /\ ToSet(s) = {TaskOf("alloc", e, n)} \cup Z
    <3> HIDE DEF x, z, Z
    <3>1. IsSeq(x \o <<>>) /\ ToSet(x \o <<>>) = {TaskOf("alloc", e, n)}
      BY <1>4, NoTask, Joined
    <3>2. QED
      BY <1>2, <3>1, Joined
  <2>3. Makes(Head(todo), ToSet(s))
    BY <1>1, <1>6, <2>2 DEF Makes
  <2>4. \A t \in ToSet(s) : t.step \in {"alloc", "io"}
    BY <1>3, <2>2 DEF TaskOf
  <2> HIDE DEF s
  <2>5. InOrder(s)
    BY <2>2, <2>4, AnyOrder
  <2>6. QED
    BY <1>1, <2>1, <2>2, <2>3, <2>5, PutBy
<1>7. QED
  BY <1>5, <1>6

\* The conditions of an access
LEMMA IoPuts ==
  ASSUME AllocInput, AllocOK, UsesOK, CopyChannelSync, Building
  PROVE  \E s : Put(s)
<1> DEFINE e == Head(todo).elm
           n == Head(todo).node
           D == {k \in net.dataDeps[n] : ~ IsConst(k)}
           q == Listed[D]
           s == [i \in DOMAIN q |-> GetCall(e, q[i], scheduledOut[n], <<"node", n>>)]
<1>1. NextIs("io") /\ Continue(s)
  BY DEF CopyChannelSync
<1>2. Head(todo).step = "io" /\ n \in Node /\ Head(todo) \in Tasks
  BY <1>1, TaskFacts, HeadIs DEF AllocOK
<1>3. scheduledOut[n] = scheduledIn[n]
  BY <1>2 DEF UsesOK, AllocInput, AccessesInstant
<1>4. IsSeq(q) /\ ToSet(q) = D
  <2>1. D \in SUBSET Node
    BY <1>2, NetFacts
  <2>2. QED
    BY <2>1, ListedFacts
<1> HIDE DEF D, q, e, n
<1>5. IsSeq(s) /\ \A t : t \in ToSet(s) <=>
        \E d \in D : t = GetCall(e, d, scheduledOut[n], <<"node", n>>)
  BY <1>4, GetsFacts
<1> HIDE DEF s
<1>6. ToSet(s) = {UseCall(e, d, n) : d \in D}
  BY <1>3, <1>5 DEF UseCall
<1>7. Makes(Head(todo), ToSet(s))
  BY <1>2, <1>6 DEF Makes, D, e, n
<1>8. \A t \in ToSet(s) : t.step = "get" /\ t.user[1] = "node"
  BY <1>6 DEF UseCall, GetCall
<1>9. InOrder(s)
  BY <1>5, <1>8, AnyOrder
<1>10. QED
  BY <1>1, <1>5, <1>7, <1>9, PutBy

\* What a read depends on, or the operands and then the node itself
LEMMA AllocPuts ==
  ASSUME AllocInput, AllocOK, AllocateRtlInstance
  PROVE  \E s : Put(s)
<1> DEFINE e == Head(todo).elm
           n == Head(todo).node
           x == Operands(e, n)
<1>1. NextIs("alloc") /\ Head(todo).step = "alloc" /\ n \in Node
  BY TaskFacts DEF AllocateRtlInstance
<1>2. ASSUME Continue(<<>>), HasRtl(e, n) \/ net.kind[n] \notin {"io", "op"}
      PROVE  \E s : Put(s)
  <2>1. Makes(Head(todo), {})
    BY <1>1, <1>2 DEF Makes, IsRead, IsWrite
  <2>2. QED
    BY <1>1, <1>2, <2>1, PutNothing
<1>3. ASSUME ~ HasRtl(e, n), IsRead(n), Continue(OnEach(Listed[Deps(n)], "alloc", e))
      PROVE  \E s : Put(s)
  <2> DEFINE D == Deps(n)
             s == OnEach(Listed[D], "alloc", e)
  <2>1. D \in SUBSET Node
    BY <1>1, NetFacts
  <2>2. Continue(s)
    BY <1>3
  <2> HIDE DEF D
  <2>3. IsSeq(s) /\ ToSet(s) = {TaskOf("alloc", e, d) : d \in D}
    BY <2>1, EachCall
  <2> HIDE DEF s
  <2>4. Makes(Head(todo), ToSet(s))
    BY <1>1, <1>3, <2>3 DEF Makes, D
  <2>5. \A t \in ToSet(s) : t.step = "alloc"
    BY <2>3 DEF TaskOf
  <2>6. InOrder(s)
    BY <2>3, <2>5, AnyOrder
  <2>7. QED
    BY <1>1, <2>2, <2>3, <2>4, <2>6, PutBy
<1>4. ASSUME NEW step \in {"drive", "create"}, Continue(x \o OnEach(<<n>>, step, e)),
             ~ HasRtl(e, n), ~ IsRead(n), IsWrite(n) <=> step = "drive",
             step = "create" => net.kind[n] = "op"
      PROVE  \E s : Put(s)
  <2> DEFINE y == OnEach(<<n>>, step, e)
             b == TaskOf(step, e, n)
             s == x \o y
  <2>1. IsSeq(x) /\ ToSet(x) = OperandTasks(e, n)
    BY <1>1, NetFacts, OperandsFacts DEF OperandTasks
  <2>2. IsSeq(y) /\ ToSet(y) = {b} /\ b.step = step
    BY OneCall DEF TaskOf
  <2>3. \A t \in OperandTasks(e, n) : t.step = "operand"
    BY DEF OperandTasks
  <2>4. Continue(s)
    BY <1>4
  <2>5. DOMAIN y = {1}
    BY DEF OnEach
  <2> HIDE DEF x, y, b
  <2>6. IsSeq(s) /\ ToSet(s) = OperandTasks(e, n) \cup {b}
    BY <2>1, <2>2, Joined
  <2>7. Makes(Head(todo), ToSet(s))
    BY <1>1, <1>4, <2>6 DEF Makes, b
  <2>8. ASSUME NEW i \in DOMAIN s, NEW j \in DOMAIN s, i < j
        PROVE  s[i].step = "operand"
    <3>1. \/ i \in DOMAIN x /\ s[i] = x[i]
          \/ s[i] \in ToSet(x)
          \/ \E k, l \in DOMAIN y : k < l
      BY <2>1, <2>2, <2>8, JoinedPair
    <3>2. s[i] \in ToSet(x)
      BY <2>5, <3>1 DEF ToSet
    <3>3. QED
      BY <2>1, <2>3, <3>2
  <2>9. \A t \in ToSet(s) : t.step \in {"operand", "drive", "create"}
    BY <2>2, <2>3, <2>6
  <2>10. \A i \in DOMAIN s : s[i] \in ToSet(s)
    BY DEF ToSet
  <2>11. \A f, m : TaskOf("after", f, m).step = "after"
    BY DEF TaskOf
  <2> HIDE DEF s
  <2>12. InOrder(s)
    BY <2>8, <2>9, <2>10, <2>11 DEF InOrder
  <2>13. QED
    BY <1>1, <2>4, <2>6, <2>7, <2>12, PutBy
<1>5. \/ (HasRtl(e, n) \/ net.kind[n] \notin {"io", "op"}) /\ Continue(<<>>)
      \/ ~ HasRtl(e, n) /\ IsRead(n) /\ Continue(OnEach(Listed[Deps(n)], "alloc", e))
      \/ ~ HasRtl(e, n) /\ IsWrite(n) /\ ~ IsRead(n) /\ Continue(x \o OnEach(<<n>>, "drive", e))
      \/ /\ ~ HasRtl(e, n) /\ net.kind[n] = "op" /\ ~ IsRead(n) /\ ~ IsWrite(n)
         /\ Continue(x \o OnEach(<<n>>, "create", e))
  BY DEF AllocateRtlInstance, AllocateRead, AllocateWrite, AllocateOperator, IsRead, IsWrite
<1>6. QED
  BY <1>2, <1>3, <1>4, <1>5

\* The operand, unless it is there, and its value for the user
LEMMA OperandPuts ==
  ASSUME AllocOK, InstantiateOutInTime, ~ AllocFailed'
  PROVE  \E s : Put(s)
<1> DEFINE e == Head(todo).elm
           d == Head(todo).node
           m == Head(todo).user
           z == IF IsConst(d) THEN <<>> ELSE <<GetCall(e, d, scheduledIn[m], <<"node", m>>)>>
           Z == IF IsConst(d) THEN {} ELSE {UseCall(e, d, m)}
<1>1. NextIs("operand") /\ Head(todo).step = "operand"
  BY TaskFacts DEF InstantiateOutInTime
<1>2. IsSeq(z) /\ ToSet(z) = Z
  BY OneTask, NoTask DEF UseCall
<1>3. \A t \in Z : t.step = "get" /\ t.user[1] = "node"
  BY DEF UseCall, GetCall
<1>4. CASE HasRtl(e, d)
  <2>1. Continue(z)
    BY <1>4 DEF InstantiateOutInTime
  <2>2. Makes(Head(todo), ToSet(z))
    BY <1>1, <1>2, <1>4 DEF Makes
  <2> HIDE DEF z, Z
  <2>3. InOrder(z)
    BY <1>2, <1>3, AnyOrder
  <2>4. QED
    BY <1>1, <1>2, <2>1, <2>2, <2>3, PutBy
<1>5. CASE ~ HasRtl(e, d)
  <2> DEFINE s == OnEach(<<d>>, "alloc", e) \o OnEach(<<d>>, "after", e) \o z
  <2>1. Continue(s)
    BY <1>5 DEF InstantiateOutInTime, Fail, AllocFailed
  <2>2. IsSeq(s) /\ ToSet(s) = NodeCalls(e, d) \cup Z /\ InOrder(s)
    <3> HIDE DEF z, Z
    <3>1. QED
      BY <1>2, <1>3, NodeInOrder
  <2>3. Makes(Head(todo), ToSet(s))
    BY <1>1, <1>5, <2>2 DEF Makes
  <2> HIDE DEF s
  <2>4. QED
    BY <1>1, <2>1, <2>2, <2>3, PutBy
<1>6. QED
  BY <1>4, <1>5

\* _afterOutputUsed for the operands
LEMMA AfterPuts ==
  ASSUME AllocInput, AllocOK, AfterNodeInstantiated, ~ AllocFailed'
  PROVE  \E s : Put(s)
<1> DEFINE e == Head(todo).elm
           n == Head(todo).node
           s == OnEach(DataDeps(n), "used", e)
<1>1. NextIs("after") /\ Head(todo).step = "after" /\ n \in Node
  BY TaskFacts DEF AfterNodeInstantiated
<1>2. Continue(s)
  <2>1. Continue(s) \/ \E stages : Register(n, stages, s)
    BY DEF AfterNodeInstantiated, Fail, AllocFailed
  <2>2. QED
    BY <2>1, RegisterEffect
<1>3. IsSeq(s) /\ ToSet(s) = {TaskOf("used", e, d) : d \in net.dataDeps[n]}
  <2>1. net.dataDeps[n] \in SUBSET Node
    BY <1>1, NetFacts
  <2>2. QED
    BY <2>1, EachCall DEF DataDeps
<1> HIDE DEF s
<1>4. Makes(Head(todo), ToSet(s))
  BY <1>1, <1>3 DEF Makes
<1>5. \A t \in ToSet(s) : t.step = "used"
  BY <1>3 DEF TaskOf
<1>6. InOrder(s)
  BY <1>3, <1>5, AnyOrder
<1>7. QED
  BY <1>1, <1>2, <1>3, <1>4, <1>6, PutBy

\* The calls that hand a value over, in their order
LEMMA HandOverInOrder ==
  ASSUME NEW o, NEW dst
  PROVE  InOrder(HandOver(o, dst))
<1> DEFINE s == HandOver(o, dst)
           a == [step |-> "makeValid", elm |-> Owner(o), node |-> o, endTime |-> UseTime(o, dst)]
           b == GetCall(Owner(o), o, start_clk(UseTime(o, dst)) * Clk, <<"element", dst>>)
           c == [step |-> "used", elm |-> Owner(o), node |-> o]
           d == [step |-> "sync", clk |-> start_clk(UseTime(o, dst)), src |-> Owner(o),
                 dst |-> dst]
<1>1. DOMAIN s = 1..4 /\ s[1] = a /\ s[2] = b /\ s[3] = c /\ s[4] = d
  BY DEF HandOver
<1>2. ToSet(s) = {a, b, c, d}
  BY HandOverFacts
<1>3. /\ a.step = "makeValid" /\ b.step = "get" /\ c.step = "used" /\ d.step = "sync"
      /\ c = TaskOf("used", b.elm, b.node)
  BY DEF GetCall, TaskOf
<1>4. \A e, n : TaskOf("after", e, n).step = "after"
  BY DEF TaskOf
<1> HIDE DEF s, a, b, c, d
<1>5. \A t \in ToSet(s) : t.step \notin {"after", "create", "connect"}
  BY <1>2, <1>3
<1>6. \A i \in DOMAIN s : s[i] \in ToSet(s)
  BY DEF ToSet
<1>7. \A i \in DOMAIN s : s[i].step = "get" => i = 2
  BY <1>1, <1>3
<1>8. \A i \in DOMAIN s : s[i].step = "makeValid" => i = 1
  BY <1>1, <1>3
<1>9. 3 \in DOMAIN s /\ 2 < 3 /\ s[3] = TaskOf("used", s[2].elm, s[2].node)
  BY <1>1, <1>3
<1>10. QED
  BY <1>4, <1>5, <1>6, <1>7, <1>8, <1>9 DEF InOrder, s

\* A connection
LEMMA ConnectPuts ==
  ASSUME AllocOK, Connect, ~ AllocFailed'
  PROVE  \E s : Put(s)
<1> DEFINE o   == Head(todo).node
           dst == Owner(Head(todo).user)
<1>1. NextIs("connect") /\ Head(todo).step = "connect"
  BY TaskFacts DEF Connect
<1>2. Continue(<<>>) \/ Continue(HandOver(o, dst))
  BY DEF Connect, Fail, AllocFailed
<1>3. Makes(Head(todo), {}) /\ Makes(Head(todo), ToSet(HandOver(o, dst)))
  BY <1>1 DEF Makes
<1>4. CASE Continue(<<>>)
  BY <1>1, <1>3, <1>4, PutNothing
<1>5. CASE Continue(HandOver(o, dst))
  <2> HIDE DEF o, dst
  <2>1. IsSeq(HandOver(o, dst)) /\ InOrder(HandOver(o, dst))
    BY HandOverFacts, HandOverInOrder
  <2>2. QED
    BY <1>1, <1>3, <1>5, <2>1, PutBy
<1>6. QED
  BY <1>2, <1>4, <1>5

\* The step of the first task, for each kind of it
Does(h) ==
  /\ h.step = "get"       => Get
  /\ h.step = "used"      => AfterOutputUsed
  /\ h.step = "after"     => AfterNodeInstantiated
  /\ h.step = "alloc"     => AllocateRtlInstance
  /\ h.step = "create"    => CreateOutput
  /\ h.step = "makeValid" => MakeValid
  /\ h.step \notin {"get", "alloc", "create", "makeValid"} => UNCHANGED netNodeToRtl
  /\ h.step # "get" => UNCHANGED uses
  /\ h.step \notin {"used", "after", "makeValid"} => UNCHANGED stageSignals

\* A step takes the first task, does what it is for, and puts others in its
\* place; or it changes nothing.
LEMMA StepPuts ==
  ASSUME AllocInput, AllocOK, UsesOK, BuildStep, ~ AllocFailed'
  PROVE  \/ UNCHANGED <<todo, rtlVars>>
         \/ (\E s : Put(s)) /\ Does(Head(todo))
<1>1. CASE LoopOverStages /\ UNCHANGED rtlVars
  <2>1. Head(todo).step = "element"
    BY <1>1, StagesEffect
  <2>2. QED
    BY <1>1, <2>1, ElementPuts DEF Does, rtlVars
<1>2. CASE LoopOverNodes /\ allocPhase = "build" /\ UNCHANGED rtlVars
  <2>1. Head(todo).step = "stage"
    BY <1>2, NodesEffect
  <2>2. QED
    BY <1>2, <2>1, StagePuts DEF Does, rtlVars
<1>3. ASSUME NEW step \in {"get", "used", "create", "drive", "makeValid", "sync"}, NextIs(step),
             Continue(<<>>)
      PROVE  Head(todo).step = step /\ \E s : Put(s)
  <2>1. Head(todo).step = step
    BY <1>3, TaskFacts
  <2>2. Makes(Head(todo), {})
    BY <2>1 DEF Makes
  <2>3. QED
    BY <1>3, <2>1, <2>2, PutNothing
<1>4. CASE Get
  <2>1. NextIs("get") /\ Continue(<<>>) /\ UNCHANGED stageSignals
    BY <1>4 DEF Get, Fail, AllocFailed
  <2>2. QED
    BY <1>3, <1>4, <2>1 DEF Does
<1>5. CASE AfterOutputUsed
  <2>1. NextIs("used") /\ Continue(<<>>) /\ UNCHANGED <<netNodeToRtl, uses>>
    BY <1>5, RegisterEffect DEF AfterOutputUsed
  <2>2. QED
    BY <1>3, <1>5, <2>1 DEF Does
<1>6. CASE AfterNodeInstantiated
  BY <1>6, AfterEffect, AfterPuts DEF Does
<1>7. CASE InstantiateOutInTime
  BY <1>7, OperandEffect, OperandPuts DEF Does, rtlVars
<1>8. CASE AllocateRtlInstance
  BY <1>8, AllocEffect, AllocPuts DEF Does
<1>9. CASE CreateOutput
  <2>1. NextIs("create") /\ Continue(<<>>) /\ UNCHANGED <<stageSignals, uses>>
    BY <1>9 DEF CreateOutput
  <2>2. QED
    BY <1>3, <1>9, <2>1 DEF Does
<1>10. CASE Drive
  <2>1. NextIs("drive") /\ Continue(<<>>) /\ UNCHANGED <<netNodeToRtl, stageSignals, uses>>
    BY <1>10 DEF Drive
  <2>2. QED
    BY <1>3, <1>10, <2>1 DEF Does
<1>11. CASE AllocateDataPath
  BY <1>11, NodeEffect, NodePuts DEF Does, rtlVars
<1>12. CASE CopyChannelSync
  BY <1>12, IoEffect, IoPuts DEF Does, rtlVars, BuildStep
<1>13. CASE Connect
  BY <1>13, ConnectEffect, ConnectPuts DEF Does, rtlVars
<1>14. CASE MakeValid
  <2>1. NextIs("makeValid") /\ Continue(<<>>) /\ UNCHANGED uses
    BY <1>14 DEF MakeValid, ExtendValidity, Fail, AllocFailed
  <2>2. QED
    BY <1>3, <1>14, <2>1 DEF Does
<1>15. CASE ConnectSync
  <2>1. NextIs("sync") /\ Continue(<<>>) /\ UNCHANGED <<netNodeToRtl, stageSignals, uses>>
    BY <1>15 DEF ConnectSync, Fail, AllocFailed, rtlVars
  <2>2. QED
    BY <1>3, <1>15, <2>1 DEF Does
<1>16. QED
  BY <1>1, <1>2, <1>4, <1>5, <1>6, <1>7, <1>8, <1>9, <1>10, <1>11, <1>12, <1>13, <1>14, <1>15
     DEF BuildStep, NextDatapath

-----------------------------------------------------------------------------
\* One step, and what was there before it.

\* A step which takes the first task and puts the tasks s in its place.
Turn(s) ==
  /\ AllocInput /\ AllocInv /\ AllocInv'
  /\ Building /\ Building' /\ BuildStep /\ ~ AllocFailed'
  /\ Put(s) /\ Does(Head(todo))

\* The tasks before and after it
LEMMA TurnTasks ==
  ASSUME NEW s, Turn(s)
  PROVE  /\ IsSeq(todo) /\ todo # <<>> /\ IsSeq(s) /\ IsSeq(Tail(todo))
         /\ todo' = s \o Tail(todo)
         /\ Tasks = {Head(todo)} \cup ToSet(Tail(todo))
         /\ Tasks' = ToSet(s) \cup ToSet(Tail(todo))
         /\ Makes(Head(todo), ToSet(s)) /\ InOrder(s)
         /\ TaskOK(Head(todo), archElements)
<1>1. IsSeq(todo) /\ todo # <<>> /\ IsSeq(s) /\ todo' = s \o Tail(todo)
      /\ Makes(Head(todo), ToSet(s)) /\ InOrder(s)
  BY DEF Turn, Put
<1>2. IsSeq(Tail(todo)) /\ Tasks = {Head(todo)} \cup ToSet(Tail(todo))
  BY <1>1, FirstAndRest DEF Tasks
<1>3. Tasks' = ToSet(s) \cup ToSet(Tail(todo))
  BY <1>1, <1>2, Joined DEF Tasks
<1>4. TaskOK(Head(todo), archElements)
  BY <1>2 DEF Turn, AllocInv, AllocOK, TodoOK
<1>5. QED
  BY <1>1, <1>2, <1>3, <1>4

\* What the step leaves alone, and what only grows.
LEMMA TurnKeeps ==
  ASSUME NEW s, Turn(s)
  PROVE  /\ UNCHANGED StaticVars
         /\ uses \subseteq uses' /\ DOMAIN stageSignals \subseteq DOMAIN stageSignals'
         /\ DOMAIN netNodeToRtl \subseteq DOMAIN netNodeToRtl'
         /\ BuildInput /\ ResourcesOK /\ ResourcesOK'
         /\ AllocOK /\ NodesCovered /\ ConnectionsSound /\ Analyzed
<1>1. AllocInput /\ AllocOK /\ BuildStep /\ ~ AllocFailed'
  BY DEF Turn, AllocInv
<1>2. UNCHANGED StaticVars
  BY <1>1 DEF BuildStep
<1>3. BuildInput /\ ResourcesOK /\ ResourcesOK'
  BY DEF Turn, AllocInv, BuildInput
<1>4. AllocOK /\ NodesCovered /\ ConnectionsSound /\ Analyzed
  BY DEF Turn, AllocInv, Building, Analyzed
<1>5. QED
  BY <1>1, <1>2, <1>3, <1>4, RecordGrows

\* An order among the tasks after the step: what was among the rest is kept, and
\* a new member needs one that follows.
LEMMA TurnFollowed ==
  ASSUME NEW s, Turn(s), NEW A, NEW A2, NEW B, Followed(todo, A, B),
         A2 \cap ToSet(Tail(todo)) \subseteq A,
         \/ A2 \cap ToSet(s) = {}
         \/ Followed(s, A2, B)
         \/ Head(todo) \in A
         \/ B \cap ToSet(Tail(todo)) # {}
  PROVE  Followed(todo', A2, B)
<1>1. /\ IsSeq(todo) /\ todo # <<>> /\ IsSeq(s) /\ IsSeq(Tail(todo))
      /\ todo' = s \o Tail(todo)
  BY TurnTasks
<1>2. Followed(Tail(todo), A2, B) /\ (Head(todo) \in A => B \cap ToSet(Tail(todo)) # {})
  BY <1>1, FollowedRest
<1>3. QED
  BY <1>1, <1>2, FollowedJoined

\* The steps of "build" that are of interest: it begins, a task is taken, or
\* nothing of it changes.
LEMMA BuildSteps ==
  ASSUME AllocInput, AllocInv, [HlsNext]_hlsVars, Building'
  PROVE  \/ Declare /\ UNCHANGED StaticVars
         \/ Building /\ UNCHANGED StaticVars /\ UNCHANGED <<todo, rtlVars>>
         \/ \E s : Turn(s)
<1>1. AllocOK /\ UsesOK /\ AllocInv'
  BY AllocInvNext DEF AllocInv
<1>2. UNCHANGED StaticVars /\ ~ AllocFailed' /\ (Declare \/ BuildStep)
  BY <1>1, BuildingStep
<1>3. CASE Declare
  BY <1>2, <1>3
<1>4. CASE BuildStep
  <2>1. Building
    BY <1>4 DEF BuildStep
  <2>2. CASE UNCHANGED <<todo, rtlVars>>
    BY <1>2, <2>1, <2>2
  <2>3. CASE (\E s : Put(s)) /\ Does(Head(todo))
    BY <1>1, <1>2, <1>4, <2>1, <2>3 DEF Turn
  <2>4. QED
    BY <1>1, <1>2, <1>4, <2>2, <2>3, StepPuts
<1>5. QED
  BY <1>2, <1>3, <1>4

-----------------------------------------------------------------------------
\* What the tasks are about.

\* No node is in two elements, which the analysis of the sharing asserts.
OneElement == Analyzed => EachNodeInOneElement

\* A task of an element, and the values it is about
TaskTyped(t) ==
  /\ t.step \notin {"connect", "sync"} => t.elm \in DOMAIN archElements
  /\ t.step \in {"node", "alloc", "after", "used", "create"} => t = TaskOf(t.step, t.elm, t.node)
  /\ t.step \in {"io", "node"} => IsOwner(t.elm, t.node)
  /\ t.step = "operand" =>
       /\ t = OperandCall(t.elm, t.node, t.user)
       /\ t.user \in Node /\ t.node \in net.dataDeps[t.user] /\ net.kind[t.user] # "gate"
  /\ t.step = "get" /\ t.user[1] # "element" =>
       \E m \in Node : /\ t = UseCall(t.elm, t.node, m) /\ t.node \in net.dataDeps[m]
                       /\ net.kind[m] # "gate" /\ ~ IsConst(t.node)
  /\ t.step = "makeValid" => t.endTime \in Int

\* All tasks and values are those of an element.
TasksTyped ==
  /\ \A t \in Tasks : TaskTyped(t)
  /\ \A x \in DOMAIN netNodeToRtl : x[1] \in DOMAIN archElements

\* What a task is about does not change.
LEMMA StaticTyped ==
  ASSUME UNCHANGED StaticVars
  PROVE  /\ \A t : TaskTyped(t)' <=> TaskTyped(t)
         /\ \A e, d, m : UseCall(e, d, m)' = UseCall(e, d, m)
         /\ \A n : Owner(n)' = Owner(n) /\ IsConst(n)' = IsConst(n)
         /\ \A e, n : IsOwner(e, n)' = IsOwner(e, n)
<1>1. /\ \A n : IsConst(n)' = IsConst(n)
      /\ \A e, n : IsOwner(e, n)' = IsOwner(e, n)
      /\ \A n : Owner(n)' = Owner(n)
  BY StaticNet, StaticOwner DEF StaticVars
<1>2. \A e, d, m : UseCall(e, d, m)' = UseCall(e, d, m)
  BY DEF UseCall, GetCall, StaticVars
<1>3. \A t : TaskTyped(t)' <=> TaskTyped(t)
  BY <1>1, <1>2 DEF TaskTyped, StaticVars, OperandCall
<1>4. QED
  BY <1>1, <1>2, <1>3

\* The tasks which are put in place of another one are typed when that is.
LEMMA MadeTyped ==
  ASSUME NEW s, Turn(s), TaskTyped(Head(todo)), NEW t \in ToSet(s)
  PROVE  TaskTyped(t)
<1> DEFINE h == Head(todo)
<1>1. /\ Makes(h, ToSet(s)) /\ TaskOK(h, archElements)
      /\ \A n \in Node : net.dataDeps[n] \in SUBSET Node
      /\ \A n \in Node : Owner(n) \in DOMAIN archElements /\ IsOwner(Owner(n), n)
  <2>1. AllocInput /\ AllocOK /\ NodesCovered /\ Split
    BY DEF Turn, AllocInv, Split, Building
  <2>2. \A n \in Node : Owner(n) \in DOMAIN archElements /\ IsOwner(Owner(n), n)
    BY <2>1, OwnerFacts DEF AllocOK, IsOwner, NodesOf
  <2>3. QED
    BY <2>1, <2>2, TurnTasks, NetFacts
<1>2. h.step \in StepsIn("build")
  <2>1. ~ AllocFailed /\ TodoOK /\ h \in Tasks /\ allocPhase \in {"build", "done"}
    BY TurnTasks DEF Turn, AllocInv, AllocOK, AllocFailed, Building
  <2>2. StepsIn("done") = {}
    BY DEF StepsIn
  <2>3. QED
    BY <2>1, <2>2 DEF TodoOK
<1> HIDE DEF h
<1>3. CASE h.step = "element"
  BY <1>1, <1>3 DEF Makes, TaskTyped, h
<1>4. CASE h.step = "stage"
  <2>1. PICK n \in ToSet(archElements[h.elm].nodes[h.stage]) : t = TaskOf("node", h.elm, n)
    BY <1>1, <1>4 DEF Makes
  <2>2. h.elm \in DOMAIN archElements /\ h.stage \in DOMAIN archElements[h.elm].nodes
    BY <1>1, <1>4 DEF TaskOK
  <2>3. IsOwner(h.elm, n)
    BY <2>2 DEF IsOwner, NodesOf
  <2>4. QED
    BY <2>1, <2>2, <2>3 DEF TaskTyped, TaskOf
<1>5. CASE h.step = "node"
  <2>1. t = TaskOf("alloc", h.elm, h.node) \/ t = TaskOf("after", h.elm, h.node)
          \/ t = TaskOf("io", h.elm, h.node)
    BY <1>1, <1>5 DEF Makes, NodeCalls
  <2>2. h.elm \in DOMAIN archElements /\ IsOwner(h.elm, h.node)
    BY <1>5 DEF TaskTyped, h
  <2>3. QED
    BY <2>1, <2>2 DEF TaskTyped, TaskOf
<1>6. CASE h.step = "io"
  <2>1. PICK d \in net.dataDeps[h.node] : t = UseCall(h.elm, d, h.node) /\ ~ IsConst(d)
    BY <1>1, <1>6 DEF Makes
  <2>2. h.elm \in DOMAIN archElements /\ h.node \in Node
    BY <1>1, <1>6 DEF TaskTyped, TaskOK, h
  <2>3. net.kind[h.node] = "io"
    <3>1. h \in Tasks /\ UsesOK /\ Building
      BY TurnTasks DEF Turn, AllocInv, h
    <3>2. QED
      BY <1>6, <3>1 DEF UsesOK
  <2>4. t.step = "get" /\ t.elm = h.elm /\ t.node = d
    BY <2>1 DEF UseCall, GetCall
  <2>5. QED
    BY <2>1, <2>2, <2>3, <2>4 DEF TaskTyped
<1>7. CASE h.step = "alloc"
  <2>1. h.elm \in DOMAIN archElements /\ h.node \in Node
    BY <1>1, <1>7 DEF TaskTyped, TaskOK, h
  <2>2. \/ \E d : t = TaskOf("alloc", h.elm, d)
        \/ t \in OperandTasks(h.elm, h.node) /\ net.kind[h.node] # "gate"
        \/ t = TaskOf("drive", h.elm, h.node) \/ t = TaskOf("create", h.elm, h.node)
    BY <1>1, <1>7 DEF Makes, IsWrite
  <2>3. CASE t \in OperandTasks(h.elm, h.node) /\ net.kind[h.node] # "gate"
    <3>1. PICK d \in net.dataDeps[h.node] :
            t = [step |-> "operand", elm |-> h.elm, node |-> d, user |-> h.node]
      BY <2>3 DEF OperandTasks
    <3>2. QED
      BY <2>1, <2>3, <3>1 DEF TaskTyped, OperandCall
  <2>4. QED
    BY <2>1, <2>2, <2>3 DEF TaskTyped, TaskOf
<1>8. CASE h.step = "operand"
  <2>1. /\ h.elm \in DOMAIN archElements /\ h.user \in Node /\ h.node \in net.dataDeps[h.user]
        /\ net.kind[h.user] # "gate"
    BY <1>8 DEF TaskTyped, h
  <2>2. \/ t = TaskOf("alloc", h.elm, h.node) \/ t = TaskOf("after", h.elm, h.node)
        \/ t = UseCall(h.elm, h.node, h.user) /\ ~ IsConst(h.node)
    BY <1>1, <1>8 DEF Makes, NodeCalls
  <2>3. CASE t = UseCall(h.elm, h.node, h.user) /\ ~ IsConst(h.node)
    <3>1. t.step = "get" /\ t.elm = h.elm /\ t.node = h.node
      BY <2>3 DEF UseCall, GetCall
    <3>2. QED
      BY <2>1, <2>3, <3>1 DEF TaskTyped
  <2>4. QED
    BY <2>1, <2>2, <2>3 DEF TaskTyped, TaskOf
<1>9. CASE h.step = "after"
  <2>1. h.elm \in DOMAIN archElements
    BY <1>9 DEF TaskTyped, h
  <2>2. \E d : t = TaskOf("used", h.elm, d)
    BY <1>1, <1>9 DEF Makes
  <2>3. QED
    BY <2>1, <2>2 DEF TaskTyped, TaskOf
<1>10. CASE h.step = "connect"
  <2>1. t \in ToSet(HandOver(h.node, Owner(h.user))) /\ h.node \in Node
    BY <1>1, <1>10 DEF Makes, TaskOK
  <2>2. UseTime(h.node, Owner(h.user)) \in Int
    <3>1. /\ AllocInput /\ AllocOK /\ NodesCovered /\ ConnectionsSound /\ Analyzed
          /\ ResourcesOK /\ Building /\ h \in Tasks
      BY TurnTasks, TurnKeeps DEF Turn, h
    <3>2. <<h.node, h.user>> \in ToSet(connections)
      BY <1>10, <3>1 DEF Turn, AllocInv, HandedOK
    <3>3. <<Owner(h.user), h.node>> \in Crossings
      BY <3>2, CrossingOfConnection
    <3>4. UseTime(h.node, Owner(h.user)) = TirTime(Owner(h.user), h.node)
      BY <3>1, <3>3 DEF ResourcesOK, UseTime
    <3>5. QED
      BY <2>1, <3>1, <3>4, TirTimeTyped
  <2>3. QED
    BY <1>1, <2>1, <2>2, HandOverFacts DEF TaskTyped, TaskOf, GetCall
<1>11. CASE h.step \in {"used", "get", "create", "drive", "makeValid", "sync"}
  BY <1>1, <1>11 DEF Makes
<1>12. QED
  BY <1>2, <1>3, <1>4, <1>5, <1>6, <1>7, <1>8, <1>9, <1>10, <1>11 DEF StepsIn

\* A new value is that of the task which makes it.
LEMMA NewValue ==
  ASSUME NEW s, Turn(s), NEW x \in DOMAIN netNodeToRtl', x \notin DOMAIN netNodeToRtl
  PROVE  LET h == Head(todo)
         IN  /\ x = <<h.elm, h.node>> /\ h.step \in {"alloc", "create"}
             /\ netNodeToRtl'[x].len = 1
             /\ h.step = "alloc" => IsRead(h.node)
<1> DEFINE h == Head(todo)
<1>1. AllocInput /\ AllocOK /\ BuildStep /\ ~ AllocFailed' /\ Does(h)
  BY DEF Turn, AllocInv
<1>2. CASE h.step = "get"
  <2>1. Get
    BY <1>1, <1>2 DEF Does
  <2>2. QED
    BY <1>1, <2>1, GetEffect
<1>3. CASE h.step = "makeValid"
  <2>1. MakeValid
    BY <1>1, <1>3 DEF Does
  <2>2. QED
    BY <1>1, <2>1, MakeValidEffect
<1>4. CASE h.step = "alloc"
  <2>1. AllocateRtlInstance
    BY <1>1, <1>4 DEF Does
  <2>2. IsRead(h.node) /\ NewTir(h.elm, h.node, scheduledOut[h.node])
    BY <1>1, <2>1, AllocEffect
  <2>3. QED
    BY <1>4, <2>2 DEF NewTir
<1>5. CASE h.step = "create"
  <2>1. NewTir(h.elm, h.node, scheduledOut[h.node] + Eps)
    BY <1>1, <1>5 DEF Does, CreateOutput
  <2>2. QED
    BY <1>5, <2>1 DEF NewTir
<1>6. CASE h.step \notin {"get", "alloc", "create", "makeValid"}
  BY <1>1, <1>6 DEF Does
<1>7. QED
  BY <1>2, <1>3, <1>4, <1>5, <1>6

\* Every step keeps the tasks typed.
LEMMA TypedTurn ==
  ASSUME NEW s, Turn(s), TasksTyped
  PROVE  TasksTyped'
<1>1. UNCHANGED StaticVars
  BY TurnKeeps
<1>2. /\ Tasks = {Head(todo)} \cup ToSet(Tail(todo))
      /\ Tasks' = ToSet(s) \cup ToSet(Tail(todo))
  BY TurnTasks
<1>3. TaskTyped(Head(todo)) /\ \A t \in ToSet(Tail(todo)) : TaskTyped(t)
  BY <1>2 DEF TasksTyped
<1>4. \A t \in Tasks' : TaskTyped(t)
  BY <1>2, <1>3, MadeTyped
<1>5. \A t \in Tasks' : TaskTyped(t)'
  BY <1>1, <1>4, StaticTyped
<1>6. archElements' = archElements
  BY <1>1 DEF StaticVars
<1>7. ASSUME NEW x \in DOMAIN netNodeToRtl'
      PROVE  x[1] \in DOMAIN archElements
  <2>1. CASE x \in DOMAIN netNodeToRtl
    BY <2>1 DEF TasksTyped
  <2>2. CASE x \notin DOMAIN netNodeToRtl
    <3>1. x[1] = Head(todo).elm /\ Head(todo).step \in {"alloc", "create"}
      BY <1>7, <2>2, NewValue
    <3>2. QED
      BY <1>3, <3>1 DEF TaskTyped
  <2>3. QED
    BY <2>1, <2>2
<1>8. QED
  BY <1>5, <1>6, <1>7 DEF TasksTyped

\* The analysis goes on only when no node is in two elements.
LEMMA OneElementNext ==
  ASSUME AllocInput, AllocInv, [HlsNext]_hlsVars, OneElement
  PROVE  OneElement'
<1> SUFFICES ASSUME Analyzed'
             PROVE  EachNodeInOneElement'
  BY DEF OneElement
<1>1. AllocOK
  BY DEF AllocInv
<1>2. CASE allocPhase' = "analyze"
  <2>1. /\ UNCHANGED archElements
        /\ AnalyzeSharing \/ allocPhase = "analyze"
    BY <1>1, <1>2, AnalyzeStep
  <2>2. EachNodeInOneElement
    BY <1>2, <2>1 DEF AnalyzeSharing, Fail, OneElement, Analyzed
  <2>3. QED
    BY <2>1, <2>2, StaticOwner DEF EachNodeInOneElement
<1>3. CASE Building'
  <2>1. Analyzed /\ UNCHANGED StaticVars
    BY <1>3, BuildSteps, TurnKeeps DEF Declare, Building, Analyzed
  <2>2. EachNodeInOneElement /\ UNCHANGED archElements
    BY <2>1 DEF OneElement, StaticVars
  <2>3. QED
    BY <2>2, StaticOwner DEF EachNodeInOneElement
<1>4. QED
  BY <1>2, <1>3 DEF Analyzed, Building

-----------------------------------------------------------------------------
\* What is put in the place of which task.

\* The fields of a task
LEMMA TaskFields ==
  /\ \A step, e, n : /\ TaskOf(step, e, n).step = step
                     /\ TaskOf(step, e, n).elm = e /\ TaskOf(step, e, n).node = n
  /\ \A e, d, m : /\ UseCall(e, d, m).step = "get" /\ UseCall(e, d, m).user = <<"node", m>>
                  /\ UseCall(e, d, m).elm = e /\ UseCall(e, d, m).node = d
                  /\ UseCall(e, d, m).time = scheduledIn[m]
  /\ \A e, d, m : /\ OperandCall(e, d, m).step = "operand" /\ OperandCall(e, d, m).user = m
                  /\ OperandCall(e, d, m).elm = e /\ OperandCall(e, d, m).node = d
  BY DEF TaskOf, UseCall, OperandCall, GetCall

\* The task h that t was put in the place of, and what else was with it.
LEMMA MadeOf ==
  ASSUME NEW s, Turn(s), NEW t \in ToSet(s)
  PROVE  LET h == Head(todo)
         IN  /\ t.step = "alloc" =>
                  \/ /\ h.step \in {"node", "operand"} /\ t = TaskOf("alloc", h.elm, h.node)
                     /\ ~ HasRtl(h.elm, h.node) /\ net.kind[h.node] # "gate" =>
                          TaskOf("after", h.elm, h.node) \in ToSet(s)
                     /\ h.step = "node" => \A x \in ToSet(s) : x.step \in {"alloc", "after", "io"}
                     /\ h.step = "operand" =>
                          \A x \in ToSet(s) : x.step \in {"alloc", "after"}
                                              \/ x = UseCall(h.elm, h.node, h.user)
                  \/ /\ h.step = "alloc" /\ IsRead(h.node)
                     /\ \E d \in Deps(h.node) : t = TaskOf("alloc", h.elm, d)
             /\ t.step = "create" => /\ h.step = "alloc" /\ t = TaskOf("create", h.elm, h.node)
                                     /\ ~ HasRtl(h.elm, h.node) /\ net.kind[h.node] = "op"
                                     /\ ToSet(s) = OperandTasks(h.elm, h.node) \cup {t}
             /\ t.step = "operand" => /\ h.step = "alloc" /\ ~ HasRtl(h.elm, h.node)
                                      /\ h.elm = t.elm /\ h.node = t.user
                                      /\ t.node \in net.dataDeps[h.node]
             /\ t.step = "get" =>
                  \/ h.step = "io" /\ t.elm = h.elm /\ t.user = <<"node", h.node>>
                  \/ h.step = "operand" /\ t = UseCall(h.elm, h.node, h.user)
                  \/ h.step = "connect"
             /\ t.step = "makeValid" =>
                  h.step = "connect" /\ ToSet(s) = ToSet(HandOver(h.node, Owner(h.user)))
             /\ t.step \notin {"connect", "element"}
<1> DEFINE h == Head(todo)
<1>1. /\ Makes(h, ToSet(s)) /\ InOrder(s)
      /\ h.step \in {"element", "stage", "node", "io", "alloc", "operand", "after", "used",
                     "get", "create", "drive", "makeValid", "sync", "connect"}
  <2>1. TodoOK /\ h \in Tasks /\ ~ AllocFailed /\ allocPhase \in {"build", "done"}
    BY TurnTasks DEF Turn, AllocInv, AllocOK, Building, AllocFailed
  <2>2. StepsIn("done") = {}
    BY DEF StepsIn
  <2>3. h.step \in StepsIn("build")
    BY <2>1, <2>2 DEF TodoOK
  <2>4. QED
    BY <2>3, TurnTasks DEF StepsIn
<1> HIDE DEF h
<1>2. CASE h.step = "element"
  BY <1>1, <1>2 DEF Makes, h
<1>3. CASE h.step = "stage"
  BY <1>1, <1>3, TaskFields DEF Makes, h
<1>4. CASE h.step = "node"
  <2>1. /\ t \in NodeCalls(h.elm, h.node) \cup {TaskOf("io", h.elm, h.node)}
        /\ \A x \in ToSet(s) : x \in NodeCalls(h.elm, h.node) \cup {TaskOf("io", h.elm, h.node)}
        /\ ~ HasRtl(h.elm, h.node) /\ net.kind[h.node] # "gate" =>
             TaskOf("after", h.elm, h.node) \in ToSet(s)
    BY <1>1, <1>4 DEF Makes, NodeCalls, wasInstantiated
  <2>2. t.step \in {"alloc", "after", "io"}
        /\ (t.step = "alloc" => t = TaskOf("alloc", h.elm, h.node))
        /\ \A x \in ToSet(s) : x.step \in {"alloc", "after", "io"}
    BY <2>1, TaskFields DEF NodeCalls
  <2>3. QED
    BY <1>4, <2>1, <2>2 DEF h
<1>5. CASE h.step = "io"
  <2>1. \E d : t = UseCall(h.elm, d, h.node)
    BY <1>1, <1>5 DEF Makes
  <2>2. QED
    BY <1>5, <2>1, TaskFields DEF h
<1>6. CASE h.step = "alloc"
  <2>1. ~ HasRtl(h.elm, h.node)
    BY <1>1, <1>6 DEF Makes
  <2>2. \/ IsRead(h.node) /\ \E d \in Deps(h.node) : t = TaskOf("alloc", h.elm, d)
        \/ t \in OperandTasks(h.elm, h.node)
        \/ t = TaskOf("drive", h.elm, h.node)
        \/ /\ t = TaskOf("create", h.elm, h.node) /\ net.kind[h.node] = "op"
           /\ ToSet(s) = OperandTasks(h.elm, h.node) \cup {TaskOf("create", h.elm, h.node)}
    BY <1>1, <1>6 DEF Makes
  <2>3. t \in OperandTasks(h.elm, h.node) =>
          /\ t.step = "operand" /\ t.elm = h.elm /\ t.user = h.node
          /\ t.node \in net.dataDeps[h.node]
    BY DEF OperandTasks
  <2>4. QED
    BY <1>6, <2>1, <2>2, <2>3, TaskFields DEF h
<1>7. CASE h.step = "operand"
  <2>1. /\ t \in NodeCalls(h.elm, h.node) \cup {UseCall(h.elm, h.node, h.user)}
        /\ \A x \in ToSet(s) : x \in NodeCalls(h.elm, h.node) \cup {UseCall(h.elm, h.node, h.user)}
        /\ ~ HasRtl(h.elm, h.node) => TaskOf("after", h.elm, h.node) \in ToSet(s)
    BY <1>1, <1>7 DEF Makes, NodeCalls
  <2>2. /\ t.step = "alloc" => t = TaskOf("alloc", h.elm, h.node)
        /\ t.step = "get" => t = UseCall(h.elm, h.node, h.user)
        /\ t.step \in {"alloc", "after", "get"}
        /\ \A x \in ToSet(s) : x.step \in {"alloc", "after"}
                               \/ x = UseCall(h.elm, h.node, h.user)
    BY <2>1, TaskFields DEF NodeCalls
  <2>3. QED
    BY <1>7, <2>1, <2>2 DEF h
<1>8. CASE h.step = "after"
  BY <1>1, <1>8, TaskFields DEF Makes, h
<1>9. CASE h.step = "connect"
  <2>1. ToSet(s) = ToSet(HandOver(h.node, Owner(h.user)))
    BY <1>1, <1>9 DEF Makes
  <2>2. t.step \in {"makeValid", "get", "used", "sync"}
    BY <2>1, HandOverFacts DEF GetCall
  <2>3. QED
    BY <1>9, <2>1, <2>2 DEF h
<1>10. CASE h.step \in {"used", "get", "create", "drive", "makeValid", "sync"}
  BY <1>1, <1>10 DEF Makes
<1>11. QED
  BY <1>1, <1>2, <1>3, <1>4, <1>5, <1>6, <1>7, <1>8, <1>9, <1>10

-----------------------------------------------------------------------------
\* A value that is made is registered, and a use of it is told.

\* A value that is about to be made will be registered in its own stage, unless it
\* is there, or is made for a read only.
AllocsFollowed ==
  \A e \in DOMAIN archElements, n \in Node :
    ~ AllocatedForRead(n) /\ ~ HasRtl(e, n) /\ net.kind[n] # "gate" =>
      Followed(todo, {TaskOf("alloc", e, n), TaskOf("create", e, n)}, {TaskOf("after", e, n)})

\* What still comes to m, after which its operands are used.
ToCome(e, m) ==
  {TaskOf("after", e, m)}
   \cup IF IsWrite(m) /\ IsOwner(e, m)
        THEN {TaskOf("node", e, m), [step |-> "element", elm |-> e]}
              \cup {[step |-> "stage", elm |-> e, stage |-> s] :
                     s \in {k \in DOMAIN archElements[e].nodes :
                              m \in ToSet(archElements[e].nodes[k])}}
        ELSE {}

\* By these tasks m asks for its operand d.
Asking(e, d, m) ==
  (IF HasRtl(e, m) THEN {} ELSE {TaskOf("alloc", e, m)})
    \cup {OperandCall(e, d, m), UseCall(e, d, m)}

\* m did not get its operand d yet.
Unused(e, d, m) == ~ IsConst(d) /\ UsesOf(e, d, <<"node", m>>) = {}

\* A write has its operands, or its element still has to ask for them.
WritesAsk ==
  \A e \in DOMAIN archElements, m \in Node : \A d \in net.dataDeps[m] :
    IsWrite(m) /\ IsOwner(e, m) /\ Unused(e, d, m) =>
      (Asking(e, d, m) \cup (ToCome(e, m) \ {TaskOf("after", e, m)})) \cap Tasks # {}

\* When a node asks for an operand, it comes to be told that it was used.
UsersFollowed ==
  \A e \in DOMAIN archElements, m \in Node : \A d \in net.dataDeps[m] :
    ~ Untold(e, m) /\ net.kind[m] # "gate" /\ Unused(e, d, m) =>
      Followed(todo, Asking(e, d, m), ToCome(e, m))

\* The calls by which d is handed over to other elements
HandOverCalls(e, d) ==
  {t \in Tasks : t.step = "get" /\ t.user[1] = "element" /\ t.elm = e /\ t.node = d}

\* After a hand-over comes the call that registers its chain.
HandOversFollowed ==
  \A e, d : Followed(todo, HandOverCalls(e, d), {TaskOf("used", e, d)})

\* These do not change.
LEMMA StaticUsers ==
  ASSUME UNCHANGED StaticVars
  PROVE  /\ \A n : AllocatedForRead(n)' <=> AllocatedForRead(n)
         /\ \A e, m : Untold(e, m)' <=> Untold(e, m)
         /\ \A e, m : ToCome(e, m)' = ToCome(e, m)
         /\ \A n : IsRead(n)' = IsRead(n) /\ IsWrite(n)' = IsWrite(n)
<1>1. \A n : IsRead(n)' = IsRead(n) /\ IsWrite(n)' = IsWrite(n) /\ Deps(n)' = Deps(n)
  BY StaticNet DEF StaticVars
<1>2. \A e, n : IsOwner(e, n)' = IsOwner(e, n)
  BY StaticOwner DEF StaticVars
<1>3. \A n : AllocatedForRead(n)' <=> AllocatedForRead(n)
  BY <1>1 DEF AllocatedForRead
<1>4. \A e, m : Untold(e, m)' <=> Untold(e, m)
  BY <1>1, <1>2, <1>3 DEF Untold
<1>5. archElements' = archElements
  BY DEF StaticVars
<1>6. \A e, m : ToCome(e, m)' = ToCome(e, m)
  BY <1>1, <1>2, <1>5 DEF ToCome, TaskOf
<1>7. QED
  BY <1>1, <1>3, <1>4, <1>6

\* What a node does not have after a step it did not have before, and what asks
\* for it then was among what asks for it before.
LEMMA StillUnused ==
  ASSUME NEW s, Turn(s), NEW e, NEW m
  PROVE  /\ ~ HasRtl(e, m)' => ~ HasRtl(e, m)
         /\ \A d : Unused(e, d, m)' => Unused(e, d, m)
         /\ \A d : Asking(e, d, m)' \subseteq Asking(e, d, m)
<1>1. /\ UNCHANGED StaticVars /\ uses \subseteq uses'
      /\ DOMAIN netNodeToRtl \subseteq DOMAIN netNodeToRtl'
  BY TurnKeeps
<1>2. ~ HasRtl(e, m)' => ~ HasRtl(e, m)
  BY <1>1 DEF HasRtl
<1>3. \A d : UsesOf(e, d, <<"node", m>>) \subseteq UsesOf(e, d, <<"node", m>>)'
  BY <1>1 DEF UsesOf
<1>4. \A d : Unused(e, d, m)' => Unused(e, d, m)
  BY <1>1, <1>3, StaticTyped DEF Unused
<1>5. \A d : UseCall(e, d, m)' = UseCall(e, d, m) /\ OperandCall(e, d, m)' = OperandCall(e, d, m)
  BY <1>1, StaticTyped DEF OperandCall
<1>6. TaskOf("alloc", e, m)' = TaskOf("alloc", e, m)
  BY DEF TaskOf
<1>7. \A d : Asking(e, d, m)' \subseteq Asking(e, d, m)
  BY <1>2, <1>5, <1>6 DEF Asking
<1>8. QED
  BY <1>2, <1>4, <1>7

\* A node that is allocated is instantiated behind it.
LEMMA AllocsTurn ==
  ASSUME NEW s, Turn(s), AllocsFollowed, TasksTyped
  PROVE  AllocsFollowed'
<1>1. /\ UNCHANGED StaticVars /\ archElements' = archElements /\ net' = net
      /\ InOrder(s) /\ Tasks = {Head(todo)} \cup ToSet(Tail(todo))
  BY TurnKeeps, TurnTasks DEF StaticVars
<1>2. TaskTyped(Head(todo)) /\ Head(todo).step = "alloc" =>
        Head(todo) = TaskOf("alloc", Head(todo).elm, Head(todo).node)
  BY DEF TaskTyped
<1>3. TaskTyped(Head(todo))
  BY <1>1 DEF TasksTyped
<1>4. ASSUME NEW e \in DOMAIN archElements, NEW n \in Node,
             ~ AllocatedForRead(n), ~ HasRtl(e, n)', net.kind[n] # "gate"
      PROVE  Followed(todo', {TaskOf("alloc", e, n), TaskOf("create", e, n)}, {TaskOf("after", e, n)})
  <2> DEFINE a == TaskOf("alloc", e, n)
             c == TaskOf("create", e, n)
             b == TaskOf("after", e, n)
             h == Head(todo)
  <2>1. ~ HasRtl(e, n)
    BY <1>4, StillUnused
  <2>2. Followed(todo, {a, c}, {b})
    BY <1>4, <2>1 DEF AllocsFollowed
  <2>3. /\ a.step = "alloc" /\ c.step = "create" /\ a.elm = e /\ a.node = n
        /\ c.elm = e /\ c.node = n
    BY TaskFields
  <2>4. ASSUME a \in ToSet(s)
        PROVE  Followed(s, {a, c}, {b})
    <3>1. \/ h.step \in {"node", "operand"} /\ a = TaskOf("alloc", h.elm, h.node)
          \/ h.step = "alloc" /\ IsRead(h.node) /\ \E d \in Deps(h.node) : a = TaskOf("alloc", h.elm, d)
      BY <2>3, <2>4, MadeOf
    <3>2. CASE h.step \in {"node", "operand"} /\ a = TaskOf("alloc", h.elm, h.node)
      <4>1. h.elm = e /\ h.node = n
        BY <2>3, <3>2, TaskFields
      <4>2. b \in ToSet(s)
        BY <1>4, <2>1, <2>3, <2>4, <3>2, <4>1, MadeOf
      <4>3. Followed(s, {a}, {b})
        BY <1>1, <4>2 DEF InOrder
      <4>4. c \notin ToSet(s)
        BY <2>3, <3>2, MadeOf
      <4>5. QED
        BY <4>3, <4>4 DEF Followed, ToSet
    <3>3. CASE h.step = "alloc" /\ IsRead(h.node) /\ \E d \in Deps(h.node) : a = TaskOf("alloc", h.elm, d)
      <4>1. n \in Deps(h.node)
        BY <2>3, <3>3, TaskFields
      <4>2. h.node \in Node
        BY <3>3, TurnTasks DEF TaskOK
      <4>3. QED
        BY <1>4, <3>3, <4>1, <4>2 DEF AllocatedForRead
    <3>4. QED
      BY <3>1, <3>2, <3>3
  <2>5. ASSUME c \in ToSet(s)
        PROVE  h = a
    <3>1. h.step = "alloc" /\ c = TaskOf("create", h.elm, h.node)
      BY <2>3, <2>5, MadeOf
    <3>2. h.elm = e /\ h.node = n
      BY <2>3, <3>1, TaskFields
    <3>3. QED
      BY <1>2, <1>3, <3>1, <3>2
  <2>6. {a, c} \cap ToSet(s) = {} \/ Followed(s, {a, c}, {b}) \/ h \in {a, c}
    BY <2>4, <2>5
  <2>7. {a, c} \cap ToSet(Tail(todo)) \subseteq {a, c}
    OBVIOUS
  <2> HIDE DEF a, b, c
  <2>8. Followed(todo', {a, c}, {b})
    BY <2>2, <2>6, <2>7, TurnFollowed
  <2>9. QED
    BY <2>8 DEF a, b, c
<1>5. \A n : AllocatedForRead(n)' <=> AllocatedForRead(n)
  BY <1>1, StaticUsers
<1>6. \A step, e, n : TaskOf(step, e, n)' = TaskOf(step, e, n)
  BY DEF TaskOf
<1>7. AllocsFollowed' <=>
        \A e \in DOMAIN archElements, n \in Node :
          ~ AllocatedForRead(n) /\ ~ HasRtl(e, n)' /\ net.kind[n] # "gate" =>
            Followed(todo', {TaskOf("alloc", e, n), TaskOf("create", e, n)}, {TaskOf("after", e, n)})
  BY <1>1, <1>5 DEF AllocsFollowed, Followed, TaskOf
<1>8. QED
  BY <1>4, <1>7

\* A task of a write leads to the next one, until it has its operands.
LEMMA WritesTurn ==
  ASSUME NEW s, Turn(s), WritesAsk, TasksTyped
  PROVE  WritesAsk'
<1>1. /\ UNCHANGED StaticVars /\ archElements' = archElements /\ net' = net
      /\ Tasks = {Head(todo)} \cup ToSet(Tail(todo))
      /\ Tasks' = ToSet(s) \cup ToSet(Tail(todo))
      /\ Makes(Head(todo), ToSet(s))
  BY TurnKeeps, TurnTasks DEF StaticVars
<1>2. ASSUME NEW e \in DOMAIN archElements, NEW m \in Node, NEW d \in net.dataDeps[m],
             IsWrite(m), IsOwner(e, m), Unused(e, d, m)'
      PROVE  (Asking(e, d, m)' \cup (ToCome(e, m) \ {TaskOf("after", e, m)})) \cap Tasks' # {}
  <2> DEFINE h == Head(todo)
             b == TaskOf("after", e, m)
             R == (Asking(e, d, m)' \cup (ToCome(e, m) \ {b})) \cap Tasks'
  <2>1. Unused(e, d, m)
    BY <1>2, StillUnused
  <2>2. ~ HasRtl(e, m) /\ ~ HasRtl(e, m)'
    <3>1. ResourcesOK /\ Building /\ ResourcesOK' /\ Building'
      BY TurnKeeps DEF Turn
    <3>2. ~ HasRtl(e, m)
      BY <1>2, <3>1 DEF ResourcesOK, HasRtl
    <3>3. ~ HasRtl(e, m)'
      <4>1. \A x \in DOMAIN netNodeToRtl' : ~ IsWrite(x[2])'
        BY <3>1 DEF ResourcesOK
      <4>2. IsWrite(m)'
        BY <1>1, <1>2, StaticUsers
      <4>3. QED
        BY <4>1, <4>2 DEF HasRtl
    <3>4. QED
      BY <3>2, <3>3
  <2>3. Asking(e, d, m)' = Asking(e, d, m)
        /\ Asking(e, d, m) = {TaskOf("alloc", e, m), OperandCall(e, d, m), UseCall(e, d, m)}
    <3>1. UseCall(e, d, m)' = UseCall(e, d, m)
      BY <1>1, StaticTyped
    <3>2. QED
      BY <2>2, <3>1 DEF Asking, OperandCall, TaskOf
  <2>4. PICK t \in (Asking(e, d, m) \cup (ToCome(e, m) \ {b})) : t \in Tasks
    BY <1>2, <2>1 DEF WritesAsk
  <2>5. CASE t \in ToSet(Tail(todo))
    BY <1>1, <2>3, <2>4, <2>5
  <2>6. CASE t = h
    <3> DEFINE K == {k \in DOMAIN archElements[e].nodes : m \in ToSet(archElements[e].nodes[k])}
    <3>0. ToCome(e, m) \ {b} = {TaskOf("node", e, m), [step |-> "element", elm |-> e]}
             \cup {[step |-> "stage", elm |-> e, stage |-> k] : k \in K}
      <4>1. b.step = "after" /\ TaskOf("node", e, m).step = "node"
        BY TaskFields
      <4>2. \A k : [step |-> "stage", elm |-> e, stage |-> k].step = "stage"
        OBVIOUS
      <4>3. ToCome(e, m) = {b} \cup {TaskOf("node", e, m), [step |-> "element", elm |-> e]}
             \cup {[step |-> "stage", elm |-> e, stage |-> k] : k \in K}
        BY <1>2 DEF ToCome
      <4> HIDE DEF b, K
      <4>4. QED
        BY <4>1, <4>2, <4>3
    <3>1. CASE h = [step |-> "element", elm |-> e]
      <4>1. PICK k \in K : TRUE
        BY <1>2 DEF IsOwner, NodesOf
      <4>2. h.step = "element" /\ h.elm = e
        BY <3>1
      <4>3. [step |-> "stage", elm |-> e, stage |-> k] \in ToSet(s)
        BY <1>1, <4>2 DEF Makes
      <4>4. [step |-> "stage", elm |-> e, stage |-> k] \in ToCome(e, m) \ {b}
        BY <3>0
      <4>5. QED
        BY <1>1, <4>3, <4>4
    <3>2. ASSUME NEW k \in K, h = [step |-> "stage", elm |-> e, stage |-> k]
          PROVE  R # {}
      <4>1. h.step = "stage" /\ h.elm = e /\ h.stage = k
        BY <3>2
      <4>2. TaskOf("node", e, m) \in ToSet(s)
        BY <1>1, <4>1 DEF Makes
      <4>3. QED
        BY <1>1, <3>0, <4>2
    <3>3. CASE h = TaskOf("node", e, m)
      <4>1. h.step = "node" /\ h.elm = e /\ h.node = m
        BY <3>3, TaskFields
      <4>2. TaskOf("alloc", e, m) \in ToSet(s)
        BY <1>1, <4>1 DEF Makes, NodeCalls
      <4>3. QED
        BY <1>1, <2>3, <4>2
    <3>4. CASE h = TaskOf("alloc", e, m)
      <4>1. h.step = "alloc" /\ h.elm = e /\ h.node = m
        BY <3>4, TaskFields
      <4>2. ~ IsRead(m)
        BY <1>2 DEF IsRead, IsWrite
      <4>3. OperandTasks(e, m) \subseteq ToSet(s)
        BY <1>1, <1>2, <2>2, <4>1, <4>2 DEF Makes
      <4>4. OperandCall(e, d, m) \in ToSet(s)
        BY <4>3 DEF OperandTasks, OperandCall
      <4>5. QED
        BY <1>1, <2>3, <4>4
    <3>5. CASE h = OperandCall(e, d, m)
      <4>1. h.step = "operand" /\ h.elm = e /\ h.node = d /\ h.user = m
        BY <3>5, TaskFields
      <4>2. UseCall(e, d, m) \in ToSet(s)
        BY <1>1, <2>1, <4>1 DEF Makes, Unused
      <4>3. QED
        BY <1>1, <2>3, <4>2
    <3>6. CASE h = UseCall(e, d, m)
      <4>1. h.step = "get" /\ h.elm = e /\ h.node = d /\ h.user = <<"node", m>>
        BY <3>6, TaskFields
      <4>2. Get
        BY <4>1 DEF Turn, Does
      <4>3. AllocOK /\ ~ AllocFailed'
        BY DEF Turn, AllocInv
      <4>4. [elm |-> e, value |-> d, user |-> <<"node", m>>,
             index |-> IndexFor(netNodeToRtl[<<e, d>>], h.time)] \in uses'
        BY <4>1, <4>2, <4>3, GetEffect
      <4>5. ~ Unused(e, d, m)'
        BY <4>4 DEF Unused, UsesOf
      <4>6. QED
        BY <1>2, <4>5
    <3>7. QED
      BY <2>3, <2>4, <2>6, <3>0, <3>1, <3>2, <3>3, <3>4, <3>5, <3>6
  <2>7. QED
    BY <1>1, <2>4, <2>5, <2>6
<1>3. /\ \A e, m : IsOwner(e, m)' = IsOwner(e, m)
      /\ \A m : IsWrite(m)' = IsWrite(m)
      /\ \A e, m : ToCome(e, m)' = ToCome(e, m)
  BY <1>1, StaticUsers, StaticTyped
<1>4. WritesAsk' <=>
        \A e \in DOMAIN archElements, m \in Node : \A d \in net.dataDeps[m] :
          IsWrite(m) /\ IsOwner(e, m) /\ Unused(e, d, m)' =>
            (Asking(e, d, m)' \cup (ToCome(e, m) \ {TaskOf("after", e, m)})) \cap Tasks' # {}
  BY <1>1, <1>3 DEF WritesAsk, TaskOf
<1>5. QED
  BY <1>2, <1>4

\* A node that starts to ask for its operands comes to be told; where a read
\* starts it, it is a write, which was to come already.
LEMMA UsersTurn ==
  ASSUME NEW s, Turn(s), UsersFollowed, WritesAsk, TasksTyped
  PROVE  UsersFollowed'
<1>1. /\ UNCHANGED StaticVars /\ archElements' = archElements /\ net' = net
      /\ InOrder(s) /\ Tasks = {Head(todo)} \cup ToSet(Tail(todo))
      /\ TaskOK(Head(todo), archElements)
  BY TurnKeeps, TurnTasks DEF StaticVars
<1>2. TaskTyped(Head(todo))
  BY <1>1 DEF TasksTyped
<1>3. ASSUME NEW e \in DOMAIN archElements, NEW m \in Node, NEW d \in net.dataDeps[m],
             ~ Untold(e, m), net.kind[m] # "gate", Unused(e, d, m)'
      PROVE  Followed(todo', Asking(e, d, m)', ToCome(e, m))
  <2> DEFINE h == Head(todo)
             A == Asking(e, d, m)
             A2 == Asking(e, d, m)'
             B == ToCome(e, m)
             alloc == TaskOf("alloc", e, m)
             operand == OperandCall(e, d, m)
             use == UseCall(e, d, m)
             after == TaskOf("after", e, m)
  <2>1. Unused(e, d, m) /\ A2 \subseteq A /\ (~ HasRtl(e, m)' => ~ HasRtl(e, m))
    BY <1>3, StillUnused
  <2>2. Followed(todo, A, B)
    BY <1>3, <2>1 DEF UsersFollowed
  <2>3. /\ alloc.step = "alloc" /\ alloc.elm = e /\ alloc.node = m
        /\ operand.step = "operand" /\ operand.elm = e /\ operand.node = d /\ operand.user = m
        /\ use.step = "get" /\ use.elm = e /\ use.node = d /\ use.user = <<"node", m>>
        /\ after.step = "after"
    BY TaskFields
  <2>4. /\ {operand, use} \subseteq A /\ A \subseteq {alloc, operand, use}
        /\ alloc \in A2 => ~ HasRtl(e, m) /\ alloc \in A
        /\ after \in B
    <3>1. HasRtl(e, m)' => A2 = {operand, use}
      BY <1>1, StaticTyped DEF Asking, OperandCall
    <3>2. alloc # operand /\ alloc # use
      BY <2>3
    <3> HIDE DEF alloc, operand, use, after
    <3>3. {operand, use} \subseteq A /\ A \subseteq {alloc, operand, use} /\ after \in B
      BY DEF Asking, ToCome, alloc, operand, use, after
    <3>4. QED
      BY <2>1, <3>1, <3>2, <3>3
  <2>5. \A t \in B : t.step \in {"after", "node", "element", "stage"}
    BY TaskFields DEF ToCome
  <2>6. ASSUME IsWrite(m), IsOwner(e, m), h.step \notin {"after", "node", "element", "stage"}
        PROVE  B \cap ToSet(Tail(todo)) # {}
    <3>1. PICK t \in Tasks : t \in A \/ t \in B
      BY <1>3, <2>1, <2>6 DEF WritesAsk
    <3>2. CASE t \in A
      <4>1. B \cap Tasks # {}
        BY <2>2, <3>1, <3>2, FollowedMeets DEF Tasks
      <4>2. QED
        BY <1>1, <2>5, <2>6, <4>1
    <3>3. CASE t \in B
      BY <1>1, <2>5, <2>6, <3>1, <3>3
    <3>4. QED
      BY <3>1, <3>2, <3>3
  <2>7. ASSUME operand \in ToSet(s)
        PROVE  h \in A
    <3>1. h.step = "alloc" /\ ~ HasRtl(h.elm, h.node) /\ h.elm = e /\ h.node = m
      BY <2>3, <2>7, MadeOf
    <3>2. h = alloc
      BY <1>2, <3>1 DEF TaskTyped
    <3>3. QED
      BY <3>1, <3>2 DEF Asking
  <2>8. ASSUME use \in ToSet(s)
        PROVE  h \in A \/ B \cap ToSet(Tail(todo)) # {}
    <3>1. \/ h.step = "io" /\ e = h.elm /\ <<"node", m>> = <<"node", h.node>>
          \/ h.step = "operand" /\ use = UseCall(h.elm, h.node, h.user)
          \/ h.step = "connect"
      BY <2>3, <2>8, MadeOf
    <3>2. CASE h.step = "io" /\ e = h.elm /\ <<"node", m>> = <<"node", h.node>>
      <4>1. h.node = m /\ IsOwner(e, m)
        BY <1>2, <3>2 DEF TaskTyped
      <4>2. net.kind[m] = "io"
        BY <1>1, <3>2, <4>1 DEF Turn, AllocInv, UsesOK
      <4>3. IsWrite(m)
        BY <1>3, <4>2 DEF Untold, IsRead, IsWrite
      <4>4. QED
        BY <2>6, <3>2, <4>1, <4>3
    <3>3. CASE h.step = "operand" /\ use = UseCall(h.elm, h.node, h.user)
      <4>1. h.elm = e /\ h.node = d /\ <<"node", h.user>> = <<"node", m>>
        BY <2>3, <3>3, TaskFields
      <4>2. h = operand
        BY <1>2, <3>3, <4>1 DEF TaskTyped
      <4>3. QED
        BY <2>4, <4>2
    <3>4. CASE h.step = "connect"
      <4>1. ToSet(s) = {} \/ ToSet(s) = ToSet(HandOver(h.node, Owner(h.user)))
        BY <3>4, TurnTasks DEF Makes
      <4>2. use.user[1] = "element"
        BY <2>3, <2>8, <4>1, HandOverFacts DEF GetCall
      <4>3. QED
        BY <2>3, <4>2
    <3>5. QED
      BY <3>1, <3>2, <3>3, <3>4
  <2>9. ASSUME alloc \in ToSet(s), alloc \in A2, h \notin A
        PROVE  Followed(s, A2, B) \/ B \cap ToSet(Tail(todo)) # {}
    <3>1. \/ h.step \in {"node", "operand"} /\ alloc = TaskOf("alloc", h.elm, h.node)
          \/ h.step = "alloc" /\ IsRead(h.node)
               /\ \E k \in Deps(h.node) : alloc = TaskOf("alloc", h.elm, k)
      BY <2>3, <2>9, MadeOf
    <3>2. CASE h.step \in {"node", "operand"} /\ alloc = TaskOf("alloc", h.elm, h.node)
      <4>1. h.elm = e /\ h.node = m /\ ~ HasRtl(e, m)
        BY <2>3, <2>4, <2>9, <3>2, TaskFields
      <4>2. after \in ToSet(s)
        BY <1>3, <2>3, <2>9, <3>2, <4>1, MadeOf
      <4>3. Followed(s, {alloc}, {after})
        BY <1>1, <4>2 DEF InOrder
      <4>4. operand \notin ToSet(s)
        BY <2>7, <2>9
      <4>5. use \notin ToSet(s)
        <5>1. CASE h.step = "node"
          BY <2>3, <2>9, <5>1, MadeOf
        <5>2. CASE h.step = "operand"
          <6>1. use \in ToSet(s) => use = UseCall(h.elm, h.node, h.user)
            BY <2>3, <2>9, <5>2, MadeOf
          <6>2. use \in ToSet(s) => h.elm = e /\ h.node = d /\ <<"node", h.user>> = <<"node", m>>
            BY <2>3, <6>1, TaskFields
          <6>3. use \in ToSet(s) => h = operand
            BY <1>2, <5>2, <6>2 DEF TaskTyped
          <6>4. QED
            BY <2>4, <2>9, <6>3
        <5>3. QED
          BY <3>2, <5>1, <5>2
      <4>6. A2 \cap ToSet(s) \subseteq {alloc}
        BY <2>1, <2>4, <4>4, <4>5
      <4> HIDE DEF A, A2, B, alloc, operand, use, after
      <4>7. Followed(s, A2, B)
        BY <2>4, <4>3, <4>6 DEF Followed, ToSet
      <4>8. QED
        BY <4>7
    <3>3. CASE h.step = "alloc" /\ IsRead(h.node)
                /\ \E k \in Deps(h.node) : alloc = TaskOf("alloc", h.elm, k)
      <4>1. m \in Deps(h.node) /\ h.node \in Node
        BY <1>1, <2>3, <3>3, TaskFields DEF TaskOK
      <4>2. AllocatedForRead(m)
        BY <3>3, <4>1 DEF AllocatedForRead
      <4>3. IsWrite(m) /\ IsOwner(e, m)
        BY <1>3, <4>2 DEF Untold
      <4>4. QED
        BY <2>6, <3>3, <4>3
    <3>4. QED
      BY <3>1, <3>2, <3>3
  <2>10. \/ A2 \cap ToSet(s) = {} \/ Followed(s, A2, B) \/ h \in A
         \/ B \cap ToSet(Tail(todo)) # {}
    <3>1. A2 \subseteq {alloc, operand, use}
      BY <2>1, <2>4
    <3> HIDE DEF A, A2, B, alloc, operand, use, after, h
    <3>2. QED
      BY <2>7, <2>8, <2>9, <3>1
  <2>11. A2 \cap ToSet(Tail(todo)) \subseteq A
    BY <2>1
  <2> HIDE DEF A, A2, B
  <2>12. Followed(todo', A2, B)
    BY <2>2, <2>10, <2>11, TurnFollowed
  <2>13. QED
    BY <2>12 DEF A2, B
<1>4. /\ \A e, m : Untold(e, m)' <=> Untold(e, m)
      /\ \A e, m : ToCome(e, m)' = ToCome(e, m)
  BY <1>1, StaticUsers
<1>5. UsersFollowed' <=>
        \A e \in DOMAIN archElements, m \in Node : \A d \in net.dataDeps[m] :
          ~ Untold(e, m) /\ net.kind[m] # "gate" /\ Unused(e, d, m)' =>
            Followed(todo', Asking(e, d, m)', ToCome(e, m))
  BY <1>1, <1>4 DEF UsersFollowed, Followed
<1>6. QED
  BY <1>3, <1>5

\* The calls for a connection are in this order.
LEMMA HandOversTurn ==
  ASSUME NEW s, Turn(s), HandOversFollowed
  PROVE  HandOversFollowed'
<1>1. /\ InOrder(s) /\ Tasks = {Head(todo)} \cup ToSet(Tail(todo))
      /\ Tasks' = ToSet(s) \cup ToSet(Tail(todo))
  BY TurnTasks
<1>2. ASSUME NEW e, NEW d
      PROVE  Followed(todo', HandOverCalls(e, d)', {TaskOf("used", e, d)})
  <2> DEFINE A == HandOverCalls(e, d)
             A2 == HandOverCalls(e, d)'
             B == {TaskOf("used", e, d)}
  <2>1. Followed(todo, A, B)
    BY DEF HandOversFollowed
  <2>2. A2 \cap ToSet(Tail(todo)) \subseteq A
    BY <1>1 DEF HandOverCalls
  <2>3. Followed(s, A2, B)
    <3>1. \A t \in A2 : t.step = "get" /\ t.user[1] = "element" /\ t.elm = e /\ t.node = d
      BY DEF HandOverCalls
    <3>2. QED
      BY <1>1, <3>1 DEF InOrder, Followed
  <2> HIDE DEF A, A2, B
  <2>4. Followed(todo', A2, B)
    BY <2>1, <2>2, <2>3, TurnFollowed
  <2>5. QED
    BY <2>4 DEF A2, B
<1>3. HandOversFollowed' <=>
        \A e, d : Followed(todo', HandOverCalls(e, d)', {TaskOf("used", e, d)})
  BY DEF HandOversFollowed, Followed, TaskOf
<1>4. QED
  BY <1>2, <1>3

-----------------------------------------------------------------------------
\* When a chain is made to last.

\* Connections are made at the end; a chain is extended as the first call for one,
\* in the element that owns the value, and the value is used after it.
ExtensionsFirst ==
  /\ \A i, j \in DOMAIN todo : i < j /\ todo[i].step = "connect" => todo[j].step = "connect"
  /\ \A i \in DOMAIN todo : todo[i].step = "makeValid" =>
       /\ i = 1 /\ todo[i].elm = Owner(todo[i].node)
       /\ TaskOf("used", todo[i].elm, todo[i].node) \in Tasks

\* A connection is replaced by its calls, the first of which extends the chain.
LEMMA ExtensionsTurn ==
  ASSUME NEW s, Turn(s), ExtensionsFirst
  PROVE  ExtensionsFirst'
<1> DEFINE h == Head(todo)
           r == Tail(todo)
           q == s \o r
<1>1. /\ IsSeq(todo) /\ todo # <<>> /\ IsSeq(s) /\ IsSeq(r) /\ todo' = q
      /\ Tasks' = ToSet(s) \cup ToSet(r) /\ InOrder(s)
      /\ \A n : Owner(n)' = Owner(n)
  BY TurnTasks, TurnKeeps, StaticTyped
<1>2. /\ 1 \in DOMAIN todo /\ todo[1] = h
      /\ DOMAIN todo \subseteq Nat \ {0}
      /\ \A i \in DOMAIN r : i + 1 \in DOMAIN todo /\ r[i] = todo[i + 1]
  BY <1>1, RestAt
<1>3. /\ DOMAIN s = 1..Len(s) /\ Len(s) \in Nat
      /\ DOMAIN r = 1..Len(r) /\ Len(r) \in Nat
      /\ DOMAIN q = 1..(Len(s) + Len(r))
      /\ \A i \in DOMAIN s : q[i] = s[i]
      /\ \A i \in DOMAIN r : q[Len(s) + i] = r[i]
  BY <1>1, JoinedAt
<1>4. \A i \in DOMAIN s : s[i] \in ToSet(s)
  BY DEF ToSet
<1>5. ASSUME NEW i \in DOMAIN q, NEW j \in DOMAIN q, i < j, q[i].step = "connect"
      PROVE  q[j].step = "connect"
  <2>1. \A t \in ToSet(s) : t.step # "connect"
    BY <1>1 DEF InOrder
  <2>2. \/ i \in DOMAIN s /\ j \in DOMAIN s /\ q[i] = s[i] /\ q[j] = s[j]
        \/ q[i] \in ToSet(s) /\ q[j] \in ToSet(r)
        \/ \E k, l \in DOMAIN r : k < l /\ q[i] = r[k] /\ q[j] = r[l]
    <3> HIDE DEF r, h
    <3>1. IsSeq(s) /\ IsSeq(r) /\ i \in DOMAIN (s \o r) /\ j \in DOMAIN (s \o r) /\ i < j
      BY <1>1, <1>5
    <3>2. QED
      BY <3>1, JoinedPair
  <2> HIDE DEF q, r, h
  <2>3. PICK k, l \in DOMAIN r : k < l /\ q[i] = r[k] /\ q[j] = r[l]
    BY <1>4, <1>5, <2>1, <2>2
  <2>4. k + 1 < l + 1 /\ k + 1 \in DOMAIN todo /\ l + 1 \in DOMAIN todo
        /\ q[i] = todo[k + 1] /\ q[j] = todo[l + 1]
    BY <1>2, <1>3, <2>3
  <2>5. QED
    BY <1>5, <2>4 DEF ExtensionsFirst
<1>6. ASSUME NEW i \in DOMAIN q, q[i].step = "makeValid"
      PROVE  i = 1 /\ q[i].elm = Owner(q[i].node) /\ TaskOf("used", q[i].elm, q[i].node) \in Tasks'
  <2>1. CASE i > Len(s)
    <3>1. i - Len(s) \in DOMAIN r /\ Len(s) + (i - Len(s)) = i
      BY <1>3, <2>1
    <3>2. (i - Len(s)) + 1 \in DOMAIN todo /\ q[i] = todo[(i - Len(s)) + 1]
      BY <1>2, <1>3, <3>1
    <3>3. (i - Len(s)) + 1 # 1
      BY <1>3, <3>1
    <3>4. QED
      BY <1>6, <3>2, <3>3 DEF ExtensionsFirst
  <2>2. CASE i <= Len(s)
    <3>1. i \in DOMAIN s /\ q[i] = s[i] /\ s[i] \in ToSet(s)
      BY <1>3, <1>4, <2>2
    <3>2. i = 1
      BY <1>1, <1>6, <3>1 DEF InOrder
    <3>3. ToSet(s) = ToSet(HandOver(h.node, Owner(h.user)))
      BY <1>6, <3>1, MadeOf
    <3> DEFINE o == h.node
               dst == Owner(h.user)
               a == [step |-> "makeValid", elm |-> Owner(o), node |-> o, endTime |-> UseTime(o, dst)]
               b == GetCall(Owner(o), o, start_clk(UseTime(o, dst)) * Clk, <<"element", dst>>)
               c == [step |-> "used", elm |-> Owner(o), node |-> o]
               d == [step |-> "sync", clk |-> start_clk(UseTime(o, dst)), src |-> Owner(o),
                     dst |-> dst]
    <3>4. ToSet(s) = {a, b, c, d}
      BY <3>3, HandOverFacts
    <3>5. b.step = "get" /\ c.step = "used" /\ d.step = "sync" /\ a.elm = Owner(o) /\ a.node = o
      BY DEF GetCall
    <3>6. c = TaskOf("used", Owner(o), o)
      BY DEF TaskOf
    <3> HIDE DEF a, b, c, d, o, dst
    <3>7. q[i] = a
      BY <1>6, <3>1, <3>4, <3>5
    <3>8. QED
      BY <1>1, <3>2, <3>4, <3>5, <3>6, <3>7
  <2>3. QED
    BY <1>3, <2>1, <2>2
<1>7. QED
  BY <1>1, <1>5, <1>6 DEF ExtensionsFirst, TaskOf

-----------------------------------------------------------------------------
\* An operator is made once, as nothing depends on itself.

\* All that the nodes of S depend on is in S.
ClosedUnderDeps(S) == \A n \in S : Deps(n) \subseteq S

\* What a node depends on does not lead back to it.
LEMMA BeforeItself ==
  ASSUME Acyclic, NEW n \in Node, \A m \in Node : Deps(m) \subseteq Node
  PROVE  \E S \in SUBSET Node : ClosedUnderDeps(S) /\ Deps(n) \subseteq S /\ n \notin S
<1> DEFINE C(m) == {k \in Node : \A S \in SUBSET Node :
                                   ClosedUnderDeps(S) /\ Deps(m) \subseteq S => k \in S}
           T == {m \in C(n) : n \in C(m)}
<1>1. ASSUME NEW m \in Node
      PROVE  C(m) \subseteq Node /\ ClosedUnderDeps(C(m)) /\ Deps(m) \subseteq C(m)
  BY DEF ClosedUnderDeps
<1>2. ASSUME NEW m \in Node, NEW k \in C(m)
      PROVE  C(k) \subseteq C(m)
  BY <1>1 DEF ClosedUnderDeps
<1>3. ASSUME n \in C(n)
      PROVE  FALSE
  <2>1. n \in T /\ T \in SUBSET Node
    BY <1>3
  <2>2. ASSUME NEW m \in T
        PROVE  Deps(m) \cap T # {}
    <3>1. m \in Node /\ m \in C(n) /\ n \in C(m)
      OBVIOUS
    <3>2. CASE n \in Deps(m)
      BY <2>1, <3>2
    <3>3. CASE n \notin Deps(m)
      <4> DEFINE U == Deps(m) \cup UNION {C(k) : k \in Deps(m)}
      <4>1. U \in SUBSET Node /\ ClosedUnderDeps(U) /\ Deps(m) \subseteq U
        BY <1>1, <3>1 DEF ClosedUnderDeps
      <4>2. n \in U
        BY <3>1, <4>1
      <4>3. PICK k \in Deps(m) : n \in C(k)
        BY <3>3, <4>2
      <4>4. k \in C(n)
        BY <1>1, <1>2, <3>1, <4>3
      <4>5. QED
        BY <4>3, <4>4
    <3>4. QED
      BY <3>2, <3>3
  <2> HIDE DEF T
  <2>3. QED
    BY <2>1, <2>2 DEF Acyclic
<1>4. QED
  BY <1>1, <1>3

\* A task that is done before an operator is created does not reach the operator:
\* it is about nodes of S, and not of the loops.
Before(t, S) ==
  /\ t.step \notin {"element", "stage", "node", "connect"}
  /\ t.step \in {"alloc", "operand", "create"} => t.node \in S

\* An operator that is about to be created is not there, and nothing before that
\* creates it, as this is only about what it depends on.
CreatesOnce ==
  /\ \A t \in Tasks : t.step = "create" => ~ HasRtl(t.elm, t.node)
  /\ \A j \in DOMAIN todo : todo[j].step = "create" =>
       \E S \in SUBSET Node : /\ ClosedUnderDeps(S) /\ todo[j].node \notin S
                              /\ \A i \in DOMAIN todo : i < j => Before(todo[i], S)

\* The tasks put in the place of one that is about nodes of S are so, too.
LEMMA MadeBefore ==
  ASSUME NEW s, Turn(s), NEW S, ClosedUnderDeps(S), Before(Head(todo), S), NEW t \in ToSet(s)
  PROVE  Before(t, S)
<1> DEFINE h == Head(todo)
<1>1. TaskOK(h, archElements) /\ Makes(h, ToSet(s))
  BY TurnTasks
<1>2. \A n \in Node : net.dataDeps[n] \subseteq Deps(n)
  BY NetFacts DEF Turn
<1>3. h.step \in {"alloc", "operand"} => h.node \in S /\ h.node \in Node /\ Deps(h.node) \subseteq S
  BY <1>1 DEF Before, TaskOK, ClosedUnderDeps
<1>4. t.step \in {"alloc", "operand", "create"} => t.node \in S
  <2>1. CASE t.step = "alloc"
    <3>1. \/ h.step = "operand" /\ t = TaskOf("alloc", h.elm, h.node)
          \/ h.step = "alloc" /\ \E d \in Deps(h.node) : t = TaskOf("alloc", h.elm, d)
      BY <2>1, MadeOf DEF Before
    <3>2. QED
      BY <1>3, <3>1, TaskFields
  <2>2. CASE t.step = "create"
    <3>1. h.step = "alloc" /\ t = TaskOf("create", h.elm, h.node)
      BY <2>2, MadeOf
    <3>2. QED
      BY <1>3, <3>1, TaskFields
  <2>3. CASE t.step = "operand"
    <3>1. h.step = "alloc" /\ t.node \in net.dataDeps[h.node]
      BY <2>3, MadeOf
    <3>2. QED
      BY <1>2, <1>3, <3>1
  <2>4. QED
    BY <2>1, <2>2, <2>3
<1>5. t.step \notin {"element", "stage", "node", "connect"}
  <2>1. h.step \notin {"element", "stage", "node", "connect"}
    BY DEF Before
  <2>2. t.step \notin {"connect", "element"}
    BY MadeOf
  <2>3. h.step \in {"node", "io", "alloc", "operand", "after", "used", "get", "create", "drive",
                    "makeValid", "sync"}
    <3>1. TodoOK /\ h \in Tasks /\ ~ AllocFailed /\ allocPhase \in {"build", "done"}
      BY TurnTasks DEF Turn, AllocInv, AllocOK, Building, AllocFailed
    <3>2. StepsIn("done") = {} /\ h.step \in StepsIn(allocPhase)
      BY <3>1 DEF StepsIn, TodoOK
    <3>3. h.step \in StepsIn("build")
      BY <3>1, <3>2
    <3>4. QED
      BY <2>1, <3>3 DEF StepsIn
  <2> HIDE DEF h
  <2>4. CASE h.step \in {"io", "operand", "after"}
    <3>1. (\E e, d, m : t = UseCall(e, d, m)) \/ (\E step, e, n : t = TaskOf(step, e, n)
             /\ step \in {"alloc", "after", "used"})
      BY <1>1, <2>4 DEF Makes, NodeCalls
    <3>2. QED
      BY <3>1, TaskFields
  <2>5. CASE h.step = "alloc"
    <3>1. t \in OperandTasks(h.elm, h.node)
          \/ (\E step, e, n : t = TaskOf(step, e, n) /\ step \in {"alloc", "drive", "create"})
      BY <1>1, <2>5 DEF Makes
    <3>2. t \in OperandTasks(h.elm, h.node) => t.step = "operand"
      BY DEF OperandTasks
    <3>3. QED
      BY <3>1, <3>2, TaskFields
  <2>6. CASE h.step \in {"used", "get", "create", "drive", "makeValid", "sync"}
    BY <1>1, <2>6 DEF Makes
  <2>7. QED
    BY <2>1, <2>3, <2>4, <2>5, <2>6 DEF h
<1>6. QED
  BY <1>4, <1>5 DEF Before

\* What is before an operator stays so while the tasks are replaced by their parts.
LEMMA CreatesTurn ==
  ASSUME NEW s, Turn(s), CreatesOnce, phase = "done" => Acyclic
  PROVE  CreatesOnce'
<1> DEFINE h == Head(todo)
           r == Tail(todo)
           q == s \o r
<1>1. /\ IsSeq(todo) /\ todo # <<>> /\ IsSeq(s) /\ IsSeq(r) /\ todo' = q
      /\ Tasks = {h} \cup ToSet(r)
      /\ Tasks' = ToSet(s) \cup ToSet(r) /\ InOrder(s)
      /\ UNCHANGED StaticVars /\ TaskOK(h, archElements)
  BY TurnTasks, TurnKeeps
<1>2. /\ 1 \in DOMAIN todo /\ todo[1] = h
      /\ DOMAIN todo \subseteq Nat \ {0}
      /\ \A i \in DOMAIN r : i + 1 \in DOMAIN todo /\ r[i] = todo[i + 1]
  BY <1>1, RestAt
<1>3. /\ DOMAIN s = 1..Len(s) /\ Len(s) \in Nat
      /\ DOMAIN r = 1..Len(r) /\ Len(r) \in Nat
      /\ DOMAIN q = 1..(Len(s) + Len(r))
      /\ \A i \in DOMAIN s : q[i] = s[i]
      /\ \A i \in DOMAIN r : q[Len(s) + i] = r[i]
  BY <1>1, JoinedAt
<1>4. \A i \in DOMAIN s : s[i] \in ToSet(s)
  BY DEF ToSet
<1>5. ASSUME NEW k \in DOMAIN r, r[k].step = "create"
      PROVE  /\ ~ HasRtl(r[k].elm, r[k].node)
             /\ \E S \in SUBSET Node : /\ ClosedUnderDeps(S) /\ r[k].node \notin S
                                       /\ Before(h, S)
                                       /\ \A l \in DOMAIN r : l < k => Before(r[l], S)
  <2>1. k + 1 \in DOMAIN todo /\ todo[k + 1] = r[k] /\ r[k] \in Tasks
    BY <1>1, <1>2 DEF ToSet
  <2> HIDE DEF r, h, q
  <2>2. PICK S \in SUBSET Node : /\ ClosedUnderDeps(S) /\ todo[k + 1].node \notin S
                                 /\ \A i \in DOMAIN todo : i < k + 1 => Before(todo[i], S)
    BY <1>5, <2>1 DEF CreatesOnce
  <2>3. Before(h, S)
    <3>1. 1 < k + 1
      BY <1>3
    <3>2. QED
      BY <1>2, <2>2, <3>1
  <2>4. ASSUME NEW l \in DOMAIN r, l < k
        PROVE  Before(r[l], S)
    <3>1. l + 1 < k + 1
      BY <1>3, <2>4
    <3>2. QED
      BY <1>2, <2>2, <3>1
  <2>5. QED
    BY <1>5, <2>1, <2>2, <2>3, <2>4 DEF CreatesOnce
<1>6. ASSUME NEW t \in Tasks', t.step = "create"
      PROVE  ~ HasRtl(t.elm, t.node)'
  <2>1. CASE t \in ToSet(s)
    <3>1. /\ h.step = "alloc" /\ t = TaskOf("create", h.elm, h.node)
          /\ ~ HasRtl(h.elm, h.node) /\ net.kind[h.node] = "op"
      BY <1>6, <2>1, MadeOf
    <3>2. AllocateRtlInstance /\ AllocInput /\ AllocOK /\ ~ AllocFailed'
      BY <3>1 DEF Turn, Does, AllocInv
    <3>3. UNCHANGED netNodeToRtl
      BY <3>1, <3>2, AllocEffect DEF IsRead
    <3>4. QED
      BY <3>1, <3>3, TaskFields DEF HasRtl
  <2>2. CASE t \in ToSet(r)
    <3>1. PICK k \in DOMAIN r : t = r[k]
      BY <2>2 DEF ToSet
    <3>2. ~ HasRtl(t.elm, t.node)
      BY <1>5, <1>6, <3>1
    <3>3. PICK S \in SUBSET Node : t.node \notin S /\ Before(h, S)
      BY <1>5, <1>6, <3>1
    <3>4. net.kind[t.node] = "op"
      BY <1>1, <1>6, <2>2 DEF Turn, AllocInv, ResourcesOK
    <3>5. ASSUME HasRtl(t.elm, t.node)'
          PROVE  FALSE
      <4>1. <<t.elm, t.node>> \in DOMAIN netNodeToRtl' /\ <<t.elm, t.node>> \notin DOMAIN netNodeToRtl
        BY <3>2, <3>5 DEF HasRtl
      <4>2. /\ <<t.elm, t.node>> = <<h.elm, h.node>> /\ h.step \in {"alloc", "create"}
            /\ h.step = "alloc" => IsRead(h.node)
        BY <4>1, NewValue
      <4>3. h.node = t.node
        BY <4>2
      <4>4. QED
        BY <3>3, <3>4, <4>2, <4>3 DEF Before, IsRead
    <3>6. QED
      BY <3>5
  <2>3. QED
    BY <1>1, <1>6, <2>1, <2>2
<1>7. ASSUME NEW j \in DOMAIN q, q[j].step = "create"
      PROVE  \E S \in SUBSET Node : /\ ClosedUnderDeps(S) /\ q[j].node \notin S
                                    /\ \A i \in DOMAIN q : i < j => Before(q[i], S)
  <2>1. CASE j > Len(s)
    <3> DEFINE k == j - Len(s)
    <3>1. k \in DOMAIN r /\ Len(s) + k = j
      BY <1>3, <2>1
    <3>2. q[j] = r[k]
      BY <1>3, <3>1
    <3>3. PICK S \in SUBSET Node : /\ ClosedUnderDeps(S) /\ r[k].node \notin S
                                   /\ Before(h, S)
                                   /\ \A l \in DOMAIN r : l < k => Before(r[l], S)
      BY <1>5, <1>7, <3>1, <3>2
    <3>4. \A t \in ToSet(s) : Before(t, S)
      BY <3>3, MadeBefore
    <3>5. ASSUME NEW i \in DOMAIN q, i < j
          PROVE  Before(q[i], S)
      <4>1. CASE i <= Len(s)
        BY <1>3, <1>4, <3>4, <4>1
      <4>2. CASE i > Len(s)
        <5>1. i - Len(s) \in DOMAIN r /\ Len(s) + (i - Len(s)) = i /\ i - Len(s) < k
          BY <1>3, <2>1, <3>5, <4>2
        <5>2. q[i] = r[i - Len(s)]
          BY <1>3, <5>1
        <5>3. QED
          BY <3>3, <5>1, <5>2
      <4>3. QED
        BY <1>3, <4>1, <4>2
    <3>6. QED
      BY <3>2, <3>3, <3>5
  <2>2. CASE j <= Len(s)
    <3>1. j \in DOMAIN s /\ q[j] = s[j] /\ s[j] \in ToSet(s)
      BY <1>3, <1>4, <2>2
    <3>2. /\ h.step = "alloc" /\ s[j] = TaskOf("create", h.elm, h.node)
          /\ ToSet(s) = OperandTasks(h.elm, h.node) \cup {s[j]}
      BY <1>7, <3>1, MadeOf
    <3>3. h.node \in Node /\ s[j].node = h.node
      BY <1>1, <3>2, TaskFields DEF TaskOK
    <3>4. Acyclic /\ \A m \in Node : Deps(m) \subseteq Node /\ net.dataDeps[m] \subseteq Deps(m)
      <4>1. AllocInput /\ AllocOK /\ allocPhase # "idle"
        BY DEF Turn, AllocInv, Building
      <4>2. QED
        BY <4>1, NetFacts DEF AllocOK
    <3>5. PICK S \in SUBSET Node : ClosedUnderDeps(S) /\ Deps(h.node) \subseteq S /\ h.node \notin S
      BY <3>3, <3>4, BeforeItself
    <3>6. ASSUME NEW i \in DOMAIN q, i < j
          PROVE  Before(q[i], S)
      <4>1. i \in DOMAIN s /\ q[i] = s[i] /\ s[i] \in ToSet(s)
        BY <1>3, <1>4, <2>2, <3>6
      <4>2. s[i].step = "operand"
        BY <1>1, <1>7, <3>1, <3>6, <4>1 DEF InOrder
      <4>3. s[i] \in OperandTasks(h.elm, h.node)
        BY <1>7, <3>1, <3>2, <4>1, <4>2
      <4>4. s[i].node \in S
        BY <3>3, <3>4, <3>5, <4>3 DEF OperandTasks
      <4>5. QED
        BY <4>1, <4>2, <4>4 DEF Before
    <3>7. QED
      BY <3>1, <3>3, <3>5, <3>6
  <2>3. j > Len(s) \/ j <= Len(s)
    BY <1>3
  <2> HIDE DEF q
  <2>4. QED
    BY <2>1, <2>2, <2>3
<1>8. \A S : ClosedUnderDeps(S)' <=> ClosedUnderDeps(S)
  BY <1>1, StaticNet DEF ClosedUnderDeps, StaticVars
<1>9. QED
  BY <1>1, <1>6, <1>7, <1>8 DEF CreatesOnce, Before

-----------------------------------------------------------------------------
\* What the steps register.

\* The value of d is registered in the stage.
Registered(stage, d) == stage \in DOMAIN stageSignals /\ d \in stageSignals[stage]

\* Register adds the value to the stages, and to no other one.
LEMMA RegisterAdds ==
  ASSUME NEW d, NEW stages, NEW tasks, Register(d, stages, tasks), ~ AllocFailed'
  PROVE  \A stage, c : Registered(stage, c)' <=> Registered(stage, c) \/ (c = d /\ stage \in stages)
<1>1. /\ stages \subseteq DOMAIN stageSignals
      /\ stageSignals' = [s \in DOMAIN stageSignals |->
                             IF s \in stages THEN stageSignals[s] \cup {d} ELSE stageSignals[s]]
  BY DEF Register, Fail, AllocFailed
<1>2. QED
  BY <1>1 DEF Registered

\* A time some clk periods later is in a clk later by as many.
LEMMA LaterClk ==
  ASSUME NEW t \in Int, NEW k \in Int
  PROVE  k * Clk \in Int /\ t + k * Clk \in Int /\ start_clk(t + k * Clk) = start_clk(t) + k
<1> DEFINE c == start_clk(t)
           z == k * Clk
           u == t + z
<1>1. c \in Int /\ c * Clk \in Int /\ c * Clk <= t /\ t < c * Clk + Clk
  BY ClkBounds DEF start_of_clk_period
<1>2. Clk \in Nat \ {0} /\ z \in Int
  BY SchedulerAssumption
<1>3. (c + k) * Clk = c * Clk + z /\ c + k \in Int
  BY <1>1, <1>2, SMTT(30)
<1>4. u \in Int /\ (c + k) * Clk <= u /\ u < (c + k) * Clk + Clk
  <2> HIDE DEF c, z
  <2>1. QED
    BY <1>1, <1>2, <1>3
<1>5. start_clk(u) = c + k
  <2> HIDE DEF c, u
  <2>1. QED
    BY <1>1, <1>3, <1>4, ClkUnique
<1>6. QED
  BY <1>2, <1>4, <1>5

\* The largest of some integers is the one which bounds them.
LEMMA LargestIs ==
  ASSUME NEW S \in SUBSET Int, NEW b \in S, \A c \in S : c <= b
  PROVE  Largest(S) = b
<1>1. IsMax(b, S)
  BY DEF IsMax
<1>2. \A t \in S : IsMax(t, S) => t = b
  BY DEF IsMax
<1>3. QED
  BY <1>1, <1>2 DEF Largest

\* The chain tir of d gets K stages more, in which it is registered.
ExtendsBy(e, d, tir, endTime, K, index) ==
  LET end == start_clk(tir.timeOffset + Eps) + tir.len - 1
  IN  /\ netNodeToRtl' = [netNodeToRtl EXCEPT ![<<e, d>>] = Extended(@, index)]
      /\ index = start_clk(tir.timeOffset + Eps + Eps) + tir.len - 1 + K
                   - start_clk(tir.timeOffset)
      /\ \A stage, c : Registered(stage, c)' <=>
           Registered(stage, c) \/ (c = d /\ \E k \in 1..K : stage = <<e, end + k>>)
      /\ \A stage : stage \in DOMAIN stageSignals' <=>
           stage \in DOMAIN stageSignals \/ \E k \in 1..K : stage = <<e, end + k>>
      /\ \E t \in Int : endTime <= t /\ start_clk(t) = end + K

\* The stages that are there then
LEMMA StagesOfExtension ==
  ASSUME NEW e, NEW d, NEW tir, NEW endTime, NEW K, NEW index, NEW end,
         ExtendsBy(e, d, tir, endTime, K, index), end = start_clk(tir.timeOffset + Eps) + tir.len - 1
  PROVE  \A stage : stage \in DOMAIN stageSignals' <=>
           stage \in DOMAIN stageSignals \/ \E k \in 1..K : stage = <<e, end + k>>
<1>1. \A stage : stage \in DOMAIN stageSignals' <=>
        \/ stage \in DOMAIN stageSignals
        \/ \E k \in 1..K : stage = <<e, start_clk(tir.timeOffset + Eps) + tir.len - 1 + k>>
  BY Zenon DEF ExtendsBy
<1>2. QED
  BY <1>1

\* A chain is extended by at least one stage behind its end, up to the time it has to
\* last for; these stages are there, and get its value.
LEMMA ExtensionAdds ==
  ASSUME NEW e, NEW d, NEW endTime \in Int, ExtendValidity(e, d, endTime), ~ AllocFailed',
         NEW tir, tir = netNodeToRtl[<<e, d>>],
         tir.timeOffset \in Int, tir.len \in Nat
  PROVE  \E K \in Nat \ {0} : \E index \in Int : ExtendsBy(e, d, tir, endTime, K, index)
<1> DEFINE end == EndOfChain(tir)
           D == endTime - end
           K == D \div Clk + 1
           times == ExtensionTimes(tir, endTime)
           stages == {<<e, start_clk(t)>> : t \in times}
           old(s) == IF s \in DOMAIN stageSignals THEN stageSignals[s] ELSE {}
           index == IndexFor(tir, Largest(times))
<1>1. /\ end < endTime \/ ~ (end >= endTime)
      /\ netNodeToRtl' = [netNodeToRtl EXCEPT ![<<e, d>>] = Extended(@, IndexFor(@, Largest(times)))]
      /\ stageSignals' = [s \in stages \cup DOMAIN stageSignals |->
                            IF s \in stages THEN old(s) \cup {d} ELSE old(s)]
  BY DEF ExtendValidity, Fail, AllocFailed
<1>2. /\ tir.timeOffset + Eps \in Int /\ tir.len - 1 \in Int
      /\ end = (tir.timeOffset + Eps) + (tir.len - 1) * Clk /\ end \in Int
      /\ start_clk(end) = start_clk(tir.timeOffset + Eps) + (tir.len - 1)
  <2> DEFINE t == tir.timeOffset + Eps
             k == tir.len - 1
  <2>1. t \in Int /\ k \in Int
    BY DEF Eps
  <2>2. k * Clk \in Int /\ t + k * Clk \in Int /\ start_clk(t + k * Clk) = start_clk(t) + k
    <3> HIDE DEF t, k
    <3>1. QED
      BY <2>1, LaterClk
  <2>3. end = t + k * Clk
    <3>1. k * Clk \in Int
      BY <2>2
    <3> HIDE DEF k
    <3>2. end = tir.timeOffset + k * Clk + Eps
      BY DEF EndOfChain, k
    <3>3. QED
      BY <3>1, <3>2 DEF Eps
  <2>4. QED
    BY <2>1, <2>2, <2>3
<1>3. D \in Nat /\ D \div Clk = start_clk(D)
  BY <1>1, <1>2 DEF start_clk
<1>4. K \in Nat \ {0}
  <2>1. start_clk(D) \in Nat
    BY <1>3, ClkOfNat
  <2>2. QED
    BY <1>3, <2>1
<1>5. times = {end + k * Clk : k \in 1..K}
  BY DEF ExtensionTimes
<1>6. end + K * Clk \in Int /\ endTime <= end + K * Clk
  <2>1. D < (D \div Clk) * Clk + Clk /\ D \div Clk \in Int /\ (D \div Clk) * Clk \in Int
    BY <1>3, ClkBounds DEF start_of_clk_period
  <2>2. K * Clk = (D \div Clk) * Clk + Clk /\ Clk \in Nat
    BY <2>1, SchedulerAssumption, SMTT(30)
  <2>3. K * Clk \in Int
    BY <2>1, <2>2
  <2> HIDE DEF K, end
  <2>4. QED
    BY <1>2, <2>1, <2>2, <2>3
<1> HIDE DEF D, end, K
<1>7. \A k \in 1..K : /\ k \in Int /\ end + k * Clk \in Int
                      /\ start_clk(end + k * Clk) = start_clk(tir.timeOffset + Eps) + tir.len - 1 + k
  <2> TAKE k \in 1..K
  <2>1. k \in Int
    BY <1>4
  <2>2. end + k * Clk \in Int /\ start_clk(end + k * Clk) = start_clk(end) + k
    BY <1>2, <2>1, LaterClk
  <2>3. start_clk(tir.timeOffset + Eps) \in Int
    BY <1>2, ClkBounds
  <2>4. QED
    BY <1>2, <2>1, <2>2, <2>3
<1>8. /\ index \in Int
      /\ index = start_clk(tir.timeOffset + Eps + Eps) + tir.len - 1 + K - start_clk(tir.timeOffset)
  <2>1. times \in SUBSET Int
    BY <1>5, <1>7
  <2>2. end + K * Clk \in times
    <3>1. K \in 1..K
      BY <1>4
    <3>2. QED
      BY <1>5, <3>1
  <2>3. end + K * Clk \in Int /\ \A t \in times : t <= end + K * Clk
    <3>1. K \in 1..K /\ Clk \in Nat
      BY <1>4, SchedulerAssumption
    <3>2. ASSUME NEW k \in 1..K
          PROVE  end + k * Clk <= end + K * Clk
      <4>1. k * Clk <= K * Clk
        BY <1>4, <3>1, SMTT(30)
      <4>2. k * Clk \in Int /\ K * Clk \in Int
        BY <1>4, <3>1
      <4>3. QED
        BY <1>2, <4>1, <4>2
    <3>3. QED
      BY <1>5, <1>7, <3>1, <3>2
  <2> HIDE DEF times
  <2>4. Largest(times) = end + K * Clk
    BY <2>1, <2>2, <2>3, LargestIs
  <2>5. index = start_clk(Largest(times) + Eps) - start_clk(tir.timeOffset)
    BY <2>3, <2>4, IndexIsDistance
  <2> DEFINE t == tir.timeOffset + Eps + Eps
             k == tir.len - 1 + K
  <2>6. t \in Int /\ k \in Int
    BY <1>4 DEF Eps
  <2>7. start_clk(t + k * Clk) = start_clk(t) + k /\ k * Clk \in Int
    <3> HIDE DEF t, k
    <3>1. QED
      BY <2>6, LaterClk
  <2>8. Largest(times) + Eps = t + k * Clk
    <3>1. k * Clk = (tir.len - 1) * Clk + K * Clk
      BY <1>4, SchedulerAssumption, SMTT(30)
    <3>2. (tir.len - 1) * Clk \in Int /\ K * Clk \in Int
      BY <1>4, SchedulerAssumption
    <3>3. PICK p \in Int, q \in Int, r \in Int :
             p = (tir.len - 1) * Clk /\ q = K * Clk /\ r = k * Clk
      BY <2>7, <3>2
    <3>4. r = p + q
      BY <3>1, <3>3
    <3>5. Largest(times) + Eps = tir.timeOffset + Eps + p + q + Eps
      BY <1>2, <2>4, <3>3
    <3>6. QED
      BY <3>3, <3>4, <3>5 DEF Eps
  <2>9. start_clk(t) \in Int /\ start_clk(tir.timeOffset) \in Int
    BY <2>6, ClkBounds
  <2> HIDE DEF index, times, t, k
  <2>10. index = start_clk(t) + k - start_clk(tir.timeOffset)
    <3>1. start_clk(Largest(times) + Eps) = start_clk(t + k * Clk)
      BY <2>8
    <3>2. start_clk(Largest(times) + Eps) = start_clk(t) + k
      BY <2>7, <3>1
    <3>3. QED
      BY <2>5, <2>6, <2>9, <3>2
  <2>11. QED
    BY <1>4, <2>9, <2>10 DEF t, k
<1>9. netNodeToRtl' = [netNodeToRtl EXCEPT ![<<e, d>>] = Extended(@, index)]
  BY <1>1
<1>10. \A stage : stage \in stages <=>
        \E k \in 1..K : stage = <<e, start_clk(tir.timeOffset + Eps) + tir.len - 1 + k>>
  BY <1>5, <1>7
<1>11. DOMAIN stageSignals' = stages \cup DOMAIN stageSignals
  BY <1>1
<1> HIDE DEF stages, index, times
<1>12. \A stage, c : Registered(stage, c)' <=> Registered(stage, c) \/ (c = d /\ stage \in stages)
  BY <1>1 DEF Registered
<1>13. \A stage, c : Registered(stage, c)' <=>
          \/ Registered(stage, c)
          \/ c = d /\ \E k \in 1..K :
               stage = <<e, start_clk(tir.timeOffset + Eps) + tir.len - 1 + k>>
  BY <1>10, <1>12
<1>14. \A stage : stage \in DOMAIN stageSignals' <=>
          \/ stage \in DOMAIN stageSignals
          \/ \E k \in 1..K : stage = <<e, start_clk(tir.timeOffset + Eps) + tir.len - 1 + k>>
  BY <1>10, <1>11
<1>15. \E t \in Int : endTime <= t
          /\ start_clk(t) = start_clk(tir.timeOffset + Eps) + tir.len - 1 + K
  <2>1. K \in 1..K
    BY <1>4
  <2>2. start_clk(end + K * Clk) = start_clk(tir.timeOffset + Eps) + tir.len - 1 + K
    BY <1>7, <2>1
  <2>3. QED
    BY <1>6, <2>2
<1>16. QED
  BY <1>4, <1>8, <1>9, <1>13, <1>14, <1>15 DEF ExtendsBy

-----------------------------------------------------------------------------
\* How long the chains are.

\* A chain has a signal, and one for every use of it.
ChainsLong ==
  /\ \A x \in DOMAIN netNodeToRtl : netNodeToRtl[x].len \in Nat \ {0}
  /\ \A u \in uses : u.index \in 0..(netNodeToRtl[<<u.elm, u.value>>].len - 1)

\* The length of a chain that is extended up to an index
LEMMA ExtendedLen ==
  ASSUME NEW time, NEW len, NEW index
  PROVE  Extended([timeOffset |-> time, len |-> len], index).len
           = IF index < len THEN len ELSE index + 1
  BY DEF Extended

\* The time of a call of get, and the index it gives.
LEMMA GetTurn ==
  ASSUME NEW s, Turn(s), TasksTyped, Head(todo).step = "get"
  PROVE  LET h == Head(todo)
             x == <<h.elm, h.node>>
             index == IndexFor(netNodeToRtl[x], h.time)
         IN  /\ x \in DOMAIN netNodeToRtl
             /\ index \in Nat
             /\ index = start_clk(h.time + Eps) - start_clk(TirTime(h.elm, h.node))
             /\ netNodeToRtl' = [netNodeToRtl EXCEPT ![x] = Extended(@, index)]
             /\ uses' = uses
                  \cup {[elm |-> h.elm, value |-> h.node, user |-> h.user, index |-> index]}
<1> DEFINE h == Head(todo)
           x == <<h.elm, h.node>>
           index == IndexFor(netNodeToRtl[x], h.time)
<1>1. /\ AllocInput /\ AllocOK /\ NodesCovered /\ ConnectionsSound /\ Analyzed
      /\ BuildInput /\ ResourcesOK /\ Building /\ SyncOK /\ ~ AllocFailed' /\ Get
      /\ h \in Tasks /\ TaskTyped(h)
  BY TurnKeeps, TurnTasks DEF Turn, Does, AllocInv, TasksTyped
<1>2. /\ x \in DOMAIN netNodeToRtl
      /\ netNodeToRtl' = [netNodeToRtl EXCEPT ![x] = Extended(@, index)]
      /\ uses' = uses
           \cup {[elm |-> h.elm, value |-> h.node, user |-> h.user, index |-> index]}
  BY <1>1, GetEffect
<1>3. ~ (index < 0)
  BY <1>1 DEF Get, Fail, AllocFailed
<1>4. h.time \in Int
  <2>1. CASE h.user[1] = "element"
    <3>1. h.time = HandedAt(h.node, h.user[2]) * Clk /\ <<h.user[2], h.node>> \in Crossings
      BY <1>1, <2>1 DEF SyncOK
    <3>2. HandedAt(h.node, h.user[2]) \in Int
      BY <1>1, <3>1, FirstUseTimeTyped
    <3>3. QED
      BY <3>1, <3>2, SchedulerAssumption
  <2>2. CASE h.user[1] # "element"
    <3>1. PICK m \in Node : h = UseCall(h.elm, h.node, m)
      BY <1>1, <2>2 DEF TaskTyped
    <3>2. h.time = scheduledIn[m]
      BY <3>1, TaskFields
    <3>3. QED
      BY <1>1, <3>2, NetFacts
  <2>3. QED
    BY <2>1, <2>2
<1>5. index = start_clk(h.time + Eps) - start_clk(TirTime(h.elm, h.node))
  <2> HIDE DEF h
  <2>1. x \in DOMAIN netNodeToRtl /\ x[1] = h.elm /\ x[2] = h.node
    BY <1>2
  <2> HIDE DEF x
  <2>2. QED
    BY <1>1, <1>4, <2>1, IndexInChain
<1>6. index \in Nat
  <2>1. h.time + Eps \in Int
    BY <1>4 DEF Eps
  <2>2. TirTime(h.elm, h.node) \in Int
    BY <1>1, <1>2, TirTimeTyped DEF ResourcesOK
  <2>3. start_clk(h.time + Eps) \in Int /\ start_clk(TirTime(h.elm, h.node)) \in Int
    BY <2>1, <2>2, ClkBounds
  <2> HIDE DEF index
  <2>4. QED
    BY <1>3, <1>5, <2>3
<1>7. QED
  BY <1>2, <1>5, <1>6

\* A chain that is made to last gets longer by its new stages, if at all.
LEMMA MakeValidTurn ==
  ASSUME NEW s, Turn(s), TasksTyped, ChainsLong, Head(todo).step = "makeValid"
  PROVE  LET h == Head(todo)
             x == <<h.elm, h.node>>
             tir == netNodeToRtl[x]
         IN  \/ /\ UNCHANGED netNodeToRtl
                /\ \A stage, c : Registered(stage, c)' <=> Registered(stage, c)
             \/ /\ x \in DOMAIN netNodeToRtl
                /\ \E K \in Nat \ {0} : \E index \in Int :
                     /\ netNodeToRtl' = [netNodeToRtl EXCEPT ![x] = Extended(@, index)]
                     /\ \A stage, c : Registered(stage, c)' <=>
                          \/ Registered(stage, c)
                          \/ c = h.node /\ \E k \in 1..K :
                               stage = <<h.elm, start_clk(TirTime(h.elm, h.node) + Eps)
                                                  + tir.len - 1 + k>>
<1> DEFINE h == Head(todo)
           x == <<h.elm, h.node>>
           tir == netNodeToRtl[x]
<1>1. /\ AllocInput /\ AllocOK /\ NodesCovered /\ ConnectionsSound /\ Analyzed
      /\ ResourcesOK /\ Building /\ ~ AllocFailed' /\ MakeValid
      /\ h \in Tasks /\ TaskTyped(h)
  BY TurnKeeps, TurnTasks DEF Turn, Does, AllocInv, TasksTyped
<1>2. h.endTime \in Int
  BY <1>1 DEF TaskTyped
<1>3. \/ UNCHANGED <<netNodeToRtl, stageSignals>>
      \/ HasRtl(h.elm, h.node) /\ ExtendValidity(h.elm, h.node, h.endTime)
  BY <1>1 DEF MakeValid, Fail, AllocFailed
<1>4. CASE UNCHANGED <<netNodeToRtl, stageSignals>>
  BY <1>4 DEF Registered
<1>5. CASE HasRtl(h.elm, h.node) /\ ExtendValidity(h.elm, h.node, h.endTime)
  <2>1. x \in DOMAIN netNodeToRtl
    BY <1>5 DEF HasRtl
  <2>2. tir.timeOffset = TirTime(h.elm, h.node) /\ h.node \in Node
    BY <1>1, <2>1 DEF ResourcesOK
  <2>3. tir.timeOffset \in Int
    BY <1>1, <2>2, TirTimeTyped
  <2>4. tir.len \in Nat
    BY <2>1 DEF ChainsLong
  <2>5. PICK K \in Nat \ {0}, index \in Int :
           /\ netNodeToRtl' = [netNodeToRtl EXCEPT ![x] = Extended(@, index)]
           /\ \A stage, c : Registered(stage, c)' <=>
                \/ Registered(stage, c)
                \/ c = h.node /\ \E k \in 1..K :
                     stage = <<h.elm, start_clk(tir.timeOffset + Eps) + tir.len - 1 + k>>
    <3>1. ExtendValidity(h.elm, h.node, h.endTime) /\ ~ AllocFailed' /\ h.endTime \in Int
      BY <1>1, <1>2, <1>5
    <3> DEFINE e == h.elm
               d == h.node
               endTime == h.endTime
    <3>2. tir = netNodeToRtl[<<e, d>>] /\ x = <<e, d>>
      OBVIOUS
    <3>3. ExtendValidity(e, d, endTime) /\ endTime \in Int
      BY <3>1
    <3> HIDE DEF e, d, endTime, tir
    <3>4. \E K \in Nat \ {0} : \E index \in Int : ExtendsBy(e, d, tir, endTime, K, index)
      BY <2>3, <2>4, <3>1, <3>2, <3>3, ExtensionAdds
    <3>5. PICK K \in Nat \ {0}, index \in Int : ExtendsBy(e, d, tir, endTime, K, index)
      BY <3>4
    <3>6. /\ netNodeToRtl' = [netNodeToRtl EXCEPT ![<<e, d>>] = Extended(@, index)]
          /\ \A stage, c : Registered(stage, c)' <=>
               \/ Registered(stage, c)
               \/ c = d /\ \E k \in 1..K :
                    stage = <<e, start_clk(tir.timeOffset + Eps) + tir.len - 1 + k>>
      BY <3>5 DEF ExtendsBy
    <3>7. QED
      BY <3>6 DEF e, d
  <2> DEFINE start == start_clk(TirTime(h.elm, h.node) + Eps)
  <2>6. start_clk(tir.timeOffset + Eps) = start
    BY <2>2
  <2>7. \A stage, c : Registered(stage, c)' <=>
          \/ Registered(stage, c)
          \/ c = h.node /\ \E k \in 1..K : stage = <<h.elm, start + tir.len - 1 + k>>
    <3> HIDE DEF h, tir, start
    <3>1. QED
      BY <2>5, <2>6
  <2>8. netNodeToRtl' = [netNodeToRtl EXCEPT ![x] = Extended(@, index)]
    BY <2>5
  <2>9. QED
    BY <2>1, <2>7, <2>8
<1>6. QED
  BY <1>3, <1>4, <1>5

\* A chain gets longer when a value is asked for later than before, or when it is
\* made to last; it never gets shorter.
LEMMA ChainTurn ==
  ASSUME NEW s, Turn(s), TasksTyped, CreatesOnce, ChainsLong, NEW x \in DOMAIN netNodeToRtl
  PROVE  LET h == Head(todo)
             index == IndexFor(netNodeToRtl[x], h.time)
         IN  \/ netNodeToRtl'[x].len = netNodeToRtl[x].len
             \/ /\ h.step = "get" /\ x = <<h.elm, h.node>>
                /\ index \in Nat /\ netNodeToRtl[x].len <= index
                /\ netNodeToRtl'[x].len = index + 1
             \/ /\ h.step = "makeValid" /\ x = <<h.elm, h.node>>
                /\ netNodeToRtl'[x].len \in Nat /\ netNodeToRtl[x].len < netNodeToRtl'[x].len
<1> DEFINE h == Head(todo)
           y == <<h.elm, h.node>>
<1>1. /\ AllocInput /\ AllocOK /\ ResourcesOK /\ Building /\ ~ AllocFailed' /\ Does(h) /\ h \in Tasks
      /\ netNodeToRtl[x].len \in Nat \ {0}
  BY TurnKeeps, TurnTasks DEF Turn, AllocInv, ChainsLong
<1>2. netNodeToRtl[x] = [timeOffset |-> TirTime(x[1], x[2]), len |-> netNodeToRtl[x].len]
  BY <1>1 DEF ResourcesOK
<1>3. ASSUME NEW index \in Int, netNodeToRtl' = [netNodeToRtl EXCEPT ![y] = Extended(@, index)]
      PROVE  /\ x # y => netNodeToRtl'[x] = netNodeToRtl[x]
             /\ x = y => netNodeToRtl'[x].len = IF index < netNodeToRtl[x].len
                                                THEN netNodeToRtl[x].len ELSE index + 1
  <2>1. x # y => netNodeToRtl'[x] = netNodeToRtl[x]
    BY <1>3
  <2>2. x = y => netNodeToRtl'[x] = Extended(netNodeToRtl[x], index)
    BY <1>3
  <2>3. QED
    BY <1>2, <2>1, <2>2, ExtendedLen
<1>4. CASE h.step = "get"
  <2> DEFINE index == IndexFor(netNodeToRtl[y], h.time)
  <2>1. index \in Nat /\ netNodeToRtl' = [netNodeToRtl EXCEPT ![y] = Extended(@, index)]
    BY <1>4, GetTurn
  <2> HIDE DEF index
  <2>2. CASE x # y
    BY <1>3, <2>1, <2>2
  <2>3. CASE x = y
    <3>0. index \in Int
      BY <2>1
    <3>1. netNodeToRtl'[x].len = IF index < netNodeToRtl[x].len
                                 THEN netNodeToRtl[x].len ELSE index + 1
      <4>1. netNodeToRtl' = [netNodeToRtl EXCEPT ![y] = Extended(@, index)]
        BY <2>1
      <4> HIDE DEF y
      <4>2. QED
        BY <1>3, <2>3, <3>0, <4>1
    <3>2. index = IndexFor(netNodeToRtl[x], h.time)
      BY <2>3 DEF index
    <3>3. CASE index < netNodeToRtl[x].len
      BY <3>1, <3>3
    <3>4. CASE ~ (index < netNodeToRtl[x].len)
      BY <1>1, <1>4, <2>1, <2>3, <3>1, <3>2, <3>4
    <3>5. QED
      BY <3>3, <3>4
  <2>4. QED
    BY <2>2, <2>3
<1>5. CASE h.step = "makeValid"
  <2>1. \/ UNCHANGED netNodeToRtl
        \/ \E index \in Int : netNodeToRtl' = [netNodeToRtl EXCEPT ![y] = Extended(@, index)]
    BY <1>5, MakeValidTurn
  <2>2. ASSUME NEW index \in Int, netNodeToRtl' = [netNodeToRtl EXCEPT ![y] = Extended(@, index)],
               x = y
        PROVE  \/ netNodeToRtl'[x].len = netNodeToRtl[x].len
               \/ netNodeToRtl'[x].len \in Nat /\ netNodeToRtl[x].len < netNodeToRtl'[x].len
    <3>1. netNodeToRtl'[x].len = IF index < netNodeToRtl[x].len
                                 THEN netNodeToRtl[x].len ELSE index + 1
      BY <1>3, <2>2
    <3>2. QED
      BY <1>1, <3>1
  <2>3. QED
    BY <1>3, <1>5, <2>1, <2>2
<1>6. ASSUME NEW time, h.step \in {"alloc", "create"}, ~ HasRtl(h.elm, h.node),
             NewTir(h.elm, h.node, time)
      PROVE  netNodeToRtl'[x] = netNodeToRtl[x]
  <2>1. x # y
    BY <1>6 DEF HasRtl
  <2>2. QED
    BY <1>6, <2>1 DEF NewTir
<1>7. CASE h.step = "alloc"
  <2>1. AllocateRtlInstance
    BY <1>1, <1>7 DEF Does
  <2>2. \/ UNCHANGED netNodeToRtl
        \/ ~ HasRtl(h.elm, h.node) /\ NewTir(h.elm, h.node, scheduledOut[h.node])
    BY <1>1, <2>1, AllocEffect
  <2>3. QED
    BY <1>6, <1>7, <2>2
<1>8. CASE h.step = "create"
  <2>1. NewTir(h.elm, h.node, scheduledOut[h.node] + Eps) /\ ~ HasRtl(h.elm, h.node)
    BY <1>1, <1>8 DEF Does, CreateOutput, CreatesOnce
  <2>2. QED
    BY <1>6, <1>8, <2>1
<1>9. CASE h.step \notin {"get", "alloc", "create", "makeValid"}
  BY <1>1, <1>9 DEF Does
<1>10. QED
  BY <1>4, <1>5, <1>7, <1>8, <1>9

\* A chain keeps a signal for every use of it: only get() records one, and then the
\* chain has its index; a new chain has no use yet.
LEMMA ChainsTurn ==
  ASSUME NEW s, Turn(s), TasksTyped, CreatesOnce, ChainsLong
  PROVE  ChainsLong'
<1> DEFINE h == Head(todo)
           y == <<h.elm, h.node>>
<1>1. /\ ResourcesOK /\ Building /\ Does(h)
      /\ DOMAIN netNodeToRtl \subseteq DOMAIN netNodeToRtl'
  BY TurnKeeps DEF Turn
<1>2. ASSUME NEW x \in DOMAIN netNodeToRtl
      PROVE  /\ netNodeToRtl[x].len \in Nat \ {0} /\ netNodeToRtl'[x].len \in Nat \ {0}
             /\ netNodeToRtl[x].len <= netNodeToRtl'[x].len
  <2>1. netNodeToRtl[x].len \in Nat \ {0}
    BY DEF ChainsLong
  <2> DEFINE index == IndexFor(netNodeToRtl[x], h.time)
             len == netNodeToRtl'[x].len
  <2>2. \/ len = netNodeToRtl[x].len
        \/ index \in Nat /\ netNodeToRtl[x].len <= index /\ len = index + 1
        \/ len \in Nat /\ netNodeToRtl[x].len < len
    BY ChainTurn
  <2> HIDE DEF index, len
  <2>3. len \in Nat \ {0} /\ netNodeToRtl[x].len <= len
    BY <2>1, <2>2
  <2>4. QED
    BY <2>1, <2>3 DEF len
<1>3. ASSUME NEW x \in DOMAIN netNodeToRtl' PROVE netNodeToRtl'[x].len \in Nat \ {0}
  <2>1. CASE x \in DOMAIN netNodeToRtl
    BY <1>2, <2>1
  <2>2. CASE x \notin DOMAIN netNodeToRtl
    BY <2>2, NewValue
  <2>3. QED
    BY <2>1, <2>2
<1>4. ASSUME NEW u \in uses'
      PROVE  u.index \in 0..(netNodeToRtl'[<<u.elm, u.value>>].len - 1)
  <2> DEFINE x == <<u.elm, u.value>>
  <2>1. CASE u \in uses
    <3>1. x \in DOMAIN netNodeToRtl /\ u.index \in 0..(netNodeToRtl[x].len - 1)
      BY <1>1, <2>1 DEF ResourcesOK, ChainsLong
    <3>2. /\ netNodeToRtl[x].len \in Nat /\ netNodeToRtl'[x].len \in Nat
          /\ netNodeToRtl[x].len <= netNodeToRtl'[x].len
      BY <1>2, <3>1
    <3> HIDE DEF x
    <3>3. u.index \in 0..(netNodeToRtl'[x].len - 1)
      BY <3>1, <3>2
    <3>4. QED
      BY <3>3 DEF x
  <2>2. CASE u \notin uses
    <3>1. h.step = "get"
      BY <1>1, <2>2 DEF Does
    <3> DEFINE index == IndexFor(netNodeToRtl[y], h.time)
    <3>2. /\ y \in DOMAIN netNodeToRtl /\ index \in Nat
          /\ u = [elm |-> h.elm, value |-> h.node, user |-> h.user, index |-> index]
      BY <2>2, <3>1, GetTurn
    <3>3. x = y /\ u.index = index
      BY <3>2
    <3>4. /\ netNodeToRtl[y].len \in Nat \ {0}
          /\ \/ netNodeToRtl'[y].len = netNodeToRtl[y].len
             \/ netNodeToRtl'[y].len = index + 1
      BY <1>2, <3>1, <3>2, ChainTurn
    <3>5. netNodeToRtl' = [netNodeToRtl EXCEPT ![y] = Extended(@, index)]
      BY <3>1, GetTurn
    <3>6. netNodeToRtl'[y].len = IF index < netNodeToRtl[y].len
                                 THEN netNodeToRtl[y].len ELSE index + 1
      <4>1. netNodeToRtl[y] = [timeOffset |-> TirTime(y[1], y[2]), len |-> netNodeToRtl[y].len]
        BY <1>1, <3>2 DEF ResourcesOK
      <4>2. netNodeToRtl'[y] = Extended(netNodeToRtl[y], index)
        BY <3>2, <3>5
      <4>3. QED
        BY <4>1, <4>2, ExtendedLen
    <3> HIDE DEF index, y
    <3>7. index \in 0..(netNodeToRtl'[y].len - 1)
      BY <3>2, <3>4, <3>6
    <3>8. QED
      BY <3>3, <3>7
  <2>3. QED
    BY <2>1, <2>2
<1>5. QED
  BY <1>3, <1>4 DEF ChainsLong

-----------------------------------------------------------------------------
\* Which registers are listed in their stage.

\* The value d of the element e at the end of its i-th register, and its stage.
At(e, d, i) == <<e, start_clk(TirTime(e, d)) + i>>

\* The value is listed there.
IsIn(e, d, i) == Registered(At(e, d, i), d)

\* The chain does not start at the last instant of a clk.
Away(e, d) == AwayFromNextClk(TirTime(e, d))

\* _afterOutputUsed registers a chain from its end, _afterNodeInstantiated its
\* first signal, and the other steps but one nothing.
LEMMA SignalsTurn ==
  ASSUME NEW s, Turn(s)
  PROVE  LET h == Head(todo)
             tir == netNodeToRtl[<<h.elm, h.node>>]
         IN  /\ h.step = "used" =>
                  \A stage, c : Registered(stage, c)' <=>
                    \/ Registered(stage, c)
                    \/ /\ c = h.node /\ HasRtl(h.elm, h.node)
                       /\ \E k \in NotRegisteredYet(h.elm, h.node) : stage = StageFromEnd(tir, h.elm, k)
             /\ h.step = "after" =>
                  \A stage, c : Registered(stage, c)' <=>
                    \/ Registered(stage, c)
                    \/ /\ c = h.node /\ HasRtl(h.elm, h.node)
                       /\ stage = <<h.elm, start_clk(tir.timeOffset)>>
             /\ h.step \notin {"used", "after", "makeValid"} =>
                  \A stage, c : Registered(stage, c)' <=> Registered(stage, c)
<1> DEFINE h == Head(todo)
           tir == netNodeToRtl[<<h.elm, h.node>>]
<1>1. ~ AllocFailed' /\ Does(h)
  BY DEF Turn
<1>2. ASSUME h.step = "used"
      PROVE  \A stage, c : Registered(stage, c)' <=>
               \/ Registered(stage, c)
               \/ /\ c = h.node /\ HasRtl(h.elm, h.node)
                  /\ \E k \in NotRegisteredYet(h.elm, h.node) : stage = StageFromEnd(tir, h.elm, k)
  <2> DEFINE stages == IF HasRtl(h.elm, h.node)
                       THEN {StageFromEnd(tir, h.elm, k) : k \in NotRegisteredYet(h.elm, h.node)}
                       ELSE {}
  <2>1. Register(h.node, stages, <<>>)
    BY <1>1, <1>2 DEF Does, AfterOutputUsed
  <2>2. \A stage : stage \in stages <=>
          /\ HasRtl(h.elm, h.node)
          /\ \E k \in NotRegisteredYet(h.elm, h.node) : stage = StageFromEnd(tir, h.elm, k)
    OBVIOUS
  <2> HIDE DEF stages
  <2>3. \A stage, c : Registered(stage, c)' <=> Registered(stage, c) \/ (c = h.node /\ stage \in stages)
    BY <1>1, <2>1, RegisterAdds
  <2> HIDE DEF h, tir
  <2>4. QED
    BY <2>2, <2>3
<1>3. ASSUME h.step = "after"
      PROVE  \A stage, c : Registered(stage, c)' <=>
               \/ Registered(stage, c)
               \/ /\ c = h.node /\ HasRtl(h.elm, h.node)
                  /\ stage = <<h.elm, start_clk(tir.timeOffset)>>
  <2>1. AfterNodeInstantiated
    BY <1>1, <1>3 DEF Does
  <2>2. CASE ~ HasRtl(h.elm, h.node)
    BY <2>1, <2>2 DEF AfterNodeInstantiated, Registered
  <2>3. CASE HasRtl(h.elm, h.node)
    <3> DEFINE stages == {<<h.elm, start_clk(tir.timeOffset)>>}
               deps == OnEach(DataDeps(h.node), "used", h.elm)
    <3>1. Register(h.node, stages, deps)
      BY <1>1, <2>1, <2>3 DEF AfterNodeInstantiated, Fail, AllocFailed
    <3> HIDE DEF deps
    <3>2. \A stage, c : Registered(stage, c)' <=> Registered(stage, c) \/ (c = h.node /\ stage \in stages)
      <4> HIDE DEF stages
      <4>1. QED
        BY <1>1, <3>1, RegisterAdds
    <3> HIDE DEF h, tir
    <3>3. QED
      BY <2>3, <3>2
  <2>4. QED
    BY <2>2, <2>3
<1>4. ASSUME h.step \notin {"used", "after", "makeValid"}
      PROVE  \A stage, c : Registered(stage, c)' <=> Registered(stage, c)
  BY <1>1, <1>4 DEF Does, Registered
<1>5. QED
  BY <1>2, <1>3, <1>4

\* The registers of a chain by their position
LEMMA ChainAt ==
  ASSUME NEW s, Turn(s), ChainsLong, NEW x \in DOMAIN netNodeToRtl, Away(x[1], x[2])
  PROVE  LET e == x[1]
             d == x[2]
             len == netNodeToRtl[x].len
         IN  /\ len \in Nat \ {0} /\ x = <<e, d>> /\ netNodeToRtl[x].timeOffset = TirTime(e, d)
             /\ start_clk(TirTime(e, d)) \in Int
             /\ start_clk(TirTime(e, d) + Eps) = start_clk(TirTime(e, d))
             /\ \A k \in Int : StageFromEnd(netNodeToRtl[x], e, k) = At(e, d, len - 1 - k)
             /\ \A i, j \in Int : At(e, d, i) = At(e, d, j) => i = j
             /\ \A k : k \in NotRegisteredYet(e, d) <=>
                  k \in 0..(len - 1) /\ \A j \in 0..k : ~ IsIn(e, d, len - 1 - j)
<1> DEFINE e == x[1]
           d == x[2]
           len == netNodeToRtl[x].len
<1>1. /\ ResourcesOK /\ Building /\ AllocInput /\ AllocOK /\ ConnectionsSound /\ Analyzed
      /\ NodesCovered
  BY TurnKeeps DEF Turn
<1>2. /\ x = <<e, d>> /\ d \in Node /\ netNodeToRtl[x].timeOffset = TirTime(e, d)
      /\ len \in Nat \ {0}
  BY <1>1 DEF ResourcesOK, ChainsLong
<1>3. TirTime(e, d) \in Int
  BY <1>1, <1>2, TirTimeTyped
<1>4. start_clk(TirTime(e, d)) \in Int
  BY <1>3, ClkBounds
<1>5. start_clk(TirTime(e, d) + Eps) = start_clk(TirTime(e, d))
  BY DEF Away, AwayFromNextClk
<1>6. ASSUME NEW k \in Int
      PROVE  StageFromEnd(netNodeToRtl[x], e, k) = At(e, d, len - 1 - k)
  <2>1. StageFromEnd(netNodeToRtl[x], e, k)
          = <<e, start_clk(TirTime(e, d)) + len - 1 - k>>
    BY <1>2, <1>5 DEF StageFromEnd
  <2>2. At(e, d, len - 1 - k) = <<e, start_clk(TirTime(e, d)) + (len - 1 - k)>>
    BY DEF At
  <2>3. QED
    BY <1>2, <1>4, <2>1, <2>2
<1>7. ASSUME NEW i \in Int, NEW j \in Int, At(e, d, i) = At(e, d, j) PROVE i = j
  <2> HIDE DEF e, d
  <2>1. start_clk(TirTime(e, d)) + i = start_clk(TirTime(e, d)) + j
    BY <1>7 DEF At
  <2>2. QED
    BY <1>4, <2>1
<1>8. \A k : k \in NotRegisteredYet(e, d) <=>
        k \in 0..(len - 1) /\ \A j \in 0..k : ~ IsIn(e, d, len - 1 - j)
  BY <1>2, <1>6 DEF NotRegisteredYet, IsIn, Registered
<1>9. QED
  BY <1>2, <1>4, <1>5, <1>6, <1>7, <1>8

\* What the step registers of a chain: what was registered stays so, and a new
\* register is one up to the end that is not registered yet, the first one, or
\* one behind the end.
LEMMA IsInTurn ==
  ASSUME NEW s, Turn(s), TasksTyped, ChainsLong, NEW x \in DOMAIN netNodeToRtl,
         Away(x[1], x[2]), NEW i \in Int
  PROVE  LET h == Head(todo)
             e == x[1]
             d == x[2]
             len == netNodeToRtl[x].len
         IN  /\ IsIn(e, d, i) => IsIn(e, d, i)'
             /\ h = TaskOf("used", e, d) =>
                  (IsIn(e, d, i)' <=> IsIn(e, d, i) \/ len - 1 - i \in NotRegisteredYet(e, d))
             /\ h = TaskOf("after", e, d) /\ i = 0 => IsIn(e, d, i)'
             /\ IsIn(e, d, i)' /\ ~ IsIn(e, d, i) =>
                  \/ h = TaskOf("used", e, d)
                  \/ h = TaskOf("after", e, d) /\ i = 0
                  \/ h.step = "makeValid" /\ h.elm = e /\ h.node = d /\ len <= i
<1> DEFINE h == Head(todo)
           e == x[1]
           d == x[2]
           len == netNodeToRtl[x].len
           y == <<h.elm, h.node>>
<1>1. /\ len \in Nat \ {0} /\ x = <<e, d>> /\ netNodeToRtl[x].timeOffset = TirTime(e, d)
      /\ start_clk(TirTime(e, d)) \in Int
      /\ start_clk(TirTime(e, d) + Eps) = start_clk(TirTime(e, d))
      /\ \A k \in Int : StageFromEnd(netNodeToRtl[x], e, k) = At(e, d, len - 1 - k)
      /\ \A m, j \in Int : At(e, d, m) = At(e, d, j) => m = j
      /\ \A k : k \in NotRegisteredYet(e, d) <=>
           k \in 0..(len - 1) /\ \A j \in 0..k : ~ IsIn(e, d, len - 1 - j)
  BY ChainAt
<1>2. UNCHANGED StaticVars /\ h \in Tasks /\ TaskTyped(h)
  BY TurnKeeps, TurnTasks DEF TasksTyped
<1>3. PICK stage : stage = At(e, d, i)
  OBVIOUS
<1>4. /\ IsIn(e, d, i) <=> Registered(stage, d)
      /\ IsIn(e, d, i)' <=> Registered(stage, d)'
  <2>1. At(e, d, i)' = At(e, d, i)
    BY <1>2, StaticTirTime DEF At, StaticVars, start_clk
  <2>2. QED
    BY <1>3, <2>1 DEF IsIn, Registered
<1>5. stage = <<e, start_clk(TirTime(e, d)) + i>> /\ stage[1] = e
  BY <1>3 DEF At
<1>6. h.step \in {"used", "after"} => h = TaskOf(h.step, h.elm, h.node)
  BY <1>2 DEF TaskTyped
<1>7. HasRtl(e, d)
  BY <1>1 DEF HasRtl
<1>8. ASSUME h.step = "used"
      PROVE  /\ IsIn(e, d, i) => IsIn(e, d, i)'
             /\ x = y => (IsIn(e, d, i)' <=> IsIn(e, d, i) \/ len - 1 - i \in NotRegisteredYet(e, d))
             /\ x # y => (IsIn(e, d, i)' <=> IsIn(e, d, i))
  <2>1. Registered(stage, d)' <=>
          \/ Registered(stage, d)
          \/ /\ d = h.node /\ HasRtl(h.elm, h.node)
             /\ \E k \in NotRegisteredYet(h.elm, h.node) :
                  stage = StageFromEnd(netNodeToRtl[<<h.elm, h.node>>], h.elm, k)
    BY <1>8, SignalsTurn
  <2>2. CASE x = y
    <3>1. e = h.elm /\ d = h.node
      BY <2>2
    <3>2. (\E k \in NotRegisteredYet(e, d) : stage = StageFromEnd(netNodeToRtl[x], e, k))
            <=> len - 1 - i \in NotRegisteredYet(e, d)
      <4>1. ASSUME NEW k \in NotRegisteredYet(e, d)
            PROVE  k \in Int /\ (stage = StageFromEnd(netNodeToRtl[x], e, k) <=> k = len - 1 - i)
        <5>1. k \in Int
          BY <1>1
        <5>2. StageFromEnd(netNodeToRtl[x], e, k) = At(e, d, len - 1 - k)
          BY <1>1, <5>1
        <5>3. len - 1 - k \in Int /\ (len - 1 - k = i <=> k = len - 1 - i)
          BY <1>1, <5>1
        <5>4. At(e, d, len - 1 - k) = At(e, d, i) <=> len - 1 - k = i
          BY <1>1, <5>3
        <5>5. QED
          BY <1>3, <5>1, <5>2, <5>3, <5>4
      <4>2. QED
        BY <4>1
    <3>3. QED
      BY <1>1, <1>4, <1>7, <2>1, <2>2, <3>1, <3>2
  <2>3. CASE x # y
    <3>1. d # h.node \/ e # h.elm
      BY <1>1, <2>3
    <3>2. \A k : stage = StageFromEnd(netNodeToRtl[y], h.elm, k) => e = h.elm
      BY <1>5 DEF StageFromEnd
    <3>3. QED
      BY <1>4, <2>1, <2>3, <3>1, <3>2
  <2>4. QED
    BY <2>2, <2>3
<1>9. ASSUME h.step = "after"
      PROVE  /\ IsIn(e, d, i) => IsIn(e, d, i)'
             /\ x = y => (IsIn(e, d, i)' <=> IsIn(e, d, i) \/ i = 0)
             /\ x # y => (IsIn(e, d, i)' <=> IsIn(e, d, i))
  <2>1. Registered(stage, d)' <=>
          \/ Registered(stage, d)
          \/ /\ d = h.node /\ HasRtl(h.elm, h.node)
             /\ stage = <<h.elm, start_clk(netNodeToRtl[<<h.elm, h.node>>].timeOffset)>>
    BY <1>9, SignalsTurn
  <2>2. CASE x = y
    <3>1. e = h.elm /\ d = h.node
      BY <2>2
    <3>2. stage = <<e, start_clk(TirTime(e, d))>> <=> i = 0
      <4>1. stage = <<e, start_clk(TirTime(e, d))>>
              <=> start_clk(TirTime(e, d)) + i = start_clk(TirTime(e, d))
        BY <1>5
      <4>2. QED
        BY <1>1, <4>1
    <3>3. QED
      BY <1>1, <1>4, <1>7, <2>1, <2>2, <3>1, <3>2
  <2>3. CASE x # y
    <3>1. d # h.node \/ e # h.elm
      BY <1>1, <2>3
    <3>2. QED
      BY <1>4, <1>5, <2>1, <2>3, <3>1
  <2>4. QED
    BY <2>2, <2>3
<1>10. ASSUME h.step = "makeValid"
      PROVE  /\ IsIn(e, d, i) => IsIn(e, d, i)'
             /\ IsIn(e, d, i)' /\ ~ IsIn(e, d, i) => x = y /\ len <= i
  <2>1. CASE Registered(stage, d)' <=> Registered(stage, d)
    BY <1>4, <2>1
  <2>2. CASE \E K \in Nat \ {0} :
               Registered(stage, d)' <=>
                 \/ Registered(stage, d)
                 \/ d = h.node /\ \E k \in 1..K :
                      stage = <<h.elm, start_clk(TirTime(h.elm, h.node) + Eps)
                                         + netNodeToRtl[y].len - 1 + k>>
    <3>1. ASSUME NEW k \in Nat \ {0}, d = h.node,
                 stage = <<h.elm, start_clk(TirTime(h.elm, h.node) + Eps)
                                    + netNodeToRtl[y].len - 1 + k>>
          PROVE  x = y /\ len <= i
      <4>1. e = h.elm /\ x = y
        BY <1>1, <1>5, <3>1
      <4>2. stage = <<e, start_clk(TirTime(e, d)) + len - 1 + k>>
        BY <1>1, <3>1, <4>1
      <4>3. start_clk(TirTime(e, d)) + i = start_clk(TirTime(e, d)) + len - 1 + k
        BY <1>5, <4>2
      <4>4. i = len - 1 + k
        BY <1>1, <4>3
      <4>5. QED
        BY <1>1, <4>1, <4>4
    <3>2. QED
      BY <1>4, <2>2, <3>1
  <2>3. QED
    BY <1>10, <2>1, <2>2, MakeValidTurn
<1>11. ASSUME h.step \notin {"used", "after", "makeValid"}
       PROVE  IsIn(e, d, i)' <=> IsIn(e, d, i)
  BY <1>4, <1>11, SignalsTurn
<1>12. \A step : h = TaskOf(step, e, d) => h.step = step /\ x = y
  BY <1>1, TaskFields
<1>13. IsIn(e, d, i) => IsIn(e, d, i)'
  BY <1>8, <1>9, <1>10, <1>11
<1>14. h = TaskOf("used", e, d) =>
         (IsIn(e, d, i)' <=> IsIn(e, d, i) \/ len - 1 - i \in NotRegisteredYet(e, d))
  BY <1>8, <1>12
<1>15. h = TaskOf("after", e, d) /\ i = 0 => IsIn(e, d, i)'
  BY <1>9, <1>12
<1>16. IsIn(e, d, i)' /\ ~ IsIn(e, d, i) =>
         \/ h = TaskOf("used", e, d)
         \/ h = TaskOf("after", e, d) /\ i = 0
         \/ h.step = "makeValid" /\ h.elm = e /\ h.node = d /\ len <= i
  <2>1. x = y => e = h.elm /\ d = h.node
    OBVIOUS
  <2>2. QED
    BY <1>6, <1>8, <1>9, <1>10, <1>11, <2>1
<1>17. QED
  BY <1>13, <1>14, <1>15, <1>16

-----------------------------------------------------------------------------
\* Each register is listed, or known not to be, or its use is still to be told.

\* The first register an element lists for others: where the value is its own, the
\* one before belongs to the stage of the value.
Lowest(e, d) == IF <<e, d>> \in Crossings THEN 0 ELSE 1

\* A use that is not told made the chain come to its i-th signal.
Excused(e, d, i) ==
  \E u \in uses : /\ u.elm = e /\ u.value = d /\ u.index >= i
                  /\ u.user[1] = "node" /\ Untold(e, u.user[2])

\* A use will be told, and the chain is not extended before that.
Pending(e, d) ==
  /\ \A t \in Tasks : t.step # "makeValid"
  /\ \/ TaskOf("used", e, d) \in Tasks
     \/ \E m \in Node : d \in net.dataDeps[m] /\ ToCome(e, m) \cap Tasks # {}

\* Only values that are there are registered.
OnlyThere == \A e, clk_i, d : Registered(<<e, clk_i>>, d) => HasRtl(e, d)

\* The first signal of a value of the element itself is registered in its stage.
FirstListed ==
  \A x \in DOMAIN netNodeToRtl :
    x \notin Crossings /\ Away(x[1], x[2]) =>
      \/ IsIn(x[1], x[2], 0) \/ AllocatedForRead(x[2])
      \/ TaskOf("after", x[1], x[2]) \in Tasks

\* All registers of a chain are listed, unless a use of it is not told or not told yet.
ChainListed ==
  \A x \in DOMAIN netNodeToRtl : Away(x[1], x[2]) =>
    \A i \in Lowest(x[1], x[2])..(netNodeToRtl[x].len - 2 + Lowest(x[1], x[2])) :
      IsIn(x[1], x[2], i) \/ Excused(x[1], x[2], i) \/ Pending(x[1], x[2])

\* Before a register that is listed all are; the loop that lists them stops there.
ListedToTheFirst ==
  \A x \in DOMAIN netNodeToRtl : Away(x[1], x[2]) =>
    \A j \in Nat : IsIn(x[1], x[2], j) =>
      \A i \in Lowest(x[1], x[2])..j : IsIn(x[1], x[2], i) \/ Excused(x[1], x[2], i)

\* The first register and what excuses a chain are the same after a step.
LEMMA StaticListed ==
  ASSUME NEW s, Turn(s)
  PROVE  /\ \A e, d : Lowest(e, d)' = Lowest(e, d) /\ Lowest(e, d) \in {0, 1}
         /\ \A e, d : Away(e, d)' <=> Away(e, d)
         /\ \A e, d, i : Excused(e, d, i) => Excused(e, d, i)'
<1>1. UNCHANGED StaticVars /\ uses \subseteq uses'
  BY TurnKeeps
<1>2. \A e, d : Lowest(e, d)' = Lowest(e, d) /\ Lowest(e, d) \in {0, 1}
  BY <1>1, StaticCrossings DEF Lowest
<1>3. \A e, d : Away(e, d)' <=> Away(e, d)
  BY <1>1, StaticTirTime DEF Away, AwayFromNextClk, start_clk
<1>4. \A e, d, i : Excused(e, d, i) => Excused(e, d, i)'
  BY <1>1, StaticUsers DEF Excused
<1>5. QED
  BY <1>2, <1>3, <1>4

\* A register is only listed for a value that is there.
LEMMA OnlyThereTurn ==
  ASSUME NEW s, Turn(s), TasksTyped, ChainsLong, OnlyThere
  PROVE  OnlyThere'
<1> DEFINE h == Head(todo)
<1>1. DOMAIN netNodeToRtl \subseteq DOMAIN netNodeToRtl'
  BY TurnKeeps
<1>2. SUFFICES ASSUME NEW e, NEW clk_i, NEW d, Registered(<<e, clk_i>>, d)' PROVE HasRtl(e, d)'
  BY DEF OnlyThere
<1>3. PICK stage : stage = <<e, clk_i>>
  OBVIOUS
<1>4. Registered(stage, d)' /\ stage[1] = e
  BY <1>2, <1>3
<1>5. CASE Registered(stage, d)
  BY <1>1, <1>3, <1>5 DEF OnlyThere, HasRtl
<1>6. CASE ~ Registered(stage, d)
  <2>1. d = h.node /\ HasRtl(h.elm, h.node) /\ stage[1] = h.elm
    <3>1. CASE h.step = "used"
      BY <1>4, <1>6, <3>1, SignalsTurn DEF StageFromEnd
    <3>2. CASE h.step = "after"
      BY <1>4, <1>6, <3>2, SignalsTurn
    <3>3. CASE h.step = "makeValid"
      BY <1>4, <1>6, <3>3, MakeValidTurn DEF HasRtl
    <3>4. QED
      BY <1>4, <1>6, <3>1, <3>2, <3>3, SignalsTurn
  <2>2. HasRtl(e, d)
    BY <1>4, <2>1
  <2>3. QED
    BY <1>1, <2>2 DEF HasRtl
<1>7. QED
  BY <1>5, <1>6

\* A value that is created has after behind it, which registers it.
LEMMA FirstTurn ==
  ASSUME NEW s, Turn(s), TasksTyped, ChainsLong, AllocsFollowed, FirstListed
  PROVE  FirstListed'
<1> DEFINE h == Head(todo)
<1>1. /\ UNCHANGED StaticVars /\ IsSeq(todo) /\ todo # <<>> /\ h \in Tasks /\ TaskTyped(h)
      /\ Tasks = {h} \cup ToSet(Tail(todo)) /\ ToSet(Tail(todo)) \subseteq Tasks'
      /\ ResourcesOK' /\ Building'
  BY TurnTasks, TurnKeeps DEF TasksTyped, Turn
<1>2. SUFFICES ASSUME NEW x \in DOMAIN netNodeToRtl', x \notin Crossings, Away(x[1], x[2]),
                      ~ AllocatedForRead(x[2])
               PROVE  \/ IsIn(x[1], x[2], 0)'
                      \/ TaskOf("after", x[1], x[2]) \in Tasks'
  BY <1>1, StaticCrossings, StaticListed, StaticUsers DEF FirstListed, TaskOf
<1>3. CASE x \in DOMAIN netNodeToRtl
  <2>1. IsIn(x[1], x[2], 0) \/ TaskOf("after", x[1], x[2]) \in Tasks
    BY <1>2, <1>3 DEF FirstListed
  <2>2. /\ IsIn(x[1], x[2], 0) => IsIn(x[1], x[2], 0)'
        /\ h = TaskOf("after", x[1], x[2]) => IsIn(x[1], x[2], 0)'
    BY <1>2, <1>3, IsInTurn
  <2>3. QED
    BY <1>1, <2>1, <2>2
<1>4. CASE x \notin DOMAIN netNodeToRtl
  <2>1. /\ x = <<h.elm, h.node>> /\ h.step \in {"alloc", "create"}
        /\ h.step = "alloc" => IsRead(h.node)
    BY <1>4, NewValue
  <2>2. /\ h = TaskOf(h.step, h.elm, h.node) /\ h.elm \in DOMAIN archElements
        /\ h.node \in Node /\ ~ HasRtl(h.elm, h.node)
    BY <1>1, <1>4, <2>1 DEF TaskTyped, HasRtl, ResourcesOK
  <2>3. net.kind[h.node] # "gate"
    <3>1. CASE h.step = "alloc"
      BY <2>1, <3>1 DEF IsRead
    <3>2. CASE h.step = "create"
      BY <1>1, <3>2, TurnKeeps DEF ResourcesOK, Turn
    <3>3. QED
      BY <2>1, <3>1, <3>2
  <2>4. x[1] = h.elm /\ x[2] = h.node
    BY <2>1
  <2> DEFINE A == {TaskOf("alloc", h.elm, h.node), TaskOf("create", h.elm, h.node)}
             B == {TaskOf("after", h.elm, h.node)}
  <2>5. Followed(todo, A, B)
    BY <1>2, <2>2, <2>3, <2>4 DEF AllocsFollowed
  <2>6. h \in A
    BY <2>1, <2>2
  <2>7. B \cap ToSet(Tail(todo)) # {}
    <3> HIDE DEF A, B
    <3>1. QED
      BY <1>1, <2>5, <2>6, FollowedRest
  <2>8. QED
    BY <1>1, <2>4, <2>7
<1>5. QED
  BY <1>3, <1>4

\* A chain that is made to last is listed in all its new stages.
LEMMA ExtendedTurn ==
  ASSUME NEW s, Turn(s), TasksTyped, ChainsLong, NEW x \in DOMAIN netNodeToRtl,
         Away(x[1], x[2]), Head(todo).step = "makeValid",
         NEW i \in Int, NEW j \in Int, netNodeToRtl[x].len <= i, i <= j,
         IsIn(x[1], x[2], j)', ~ IsIn(x[1], x[2], j)
  PROVE  IsIn(x[1], x[2], i)'
<1> DEFINE h == Head(todo)
           e == x[1]
           d == x[2]
           len == netNodeToRtl[x].len
           y == <<h.elm, h.node>>
           start == start_clk(TirTime(e, d))
<1>1. /\ len \in Nat \ {0} /\ x = <<e, d>> /\ start \in Int
      /\ start_clk(TirTime(e, d) + Eps) = start
  BY ChainAt
<1>2. h.elm = e /\ h.node = d /\ x = y
  <2>1. h.elm = e /\ h.node = d
    BY IsInTurn, TaskFields
  <2>2. QED
    BY <1>1, <2>1
<1>3. PICK si, sj : si = At(e, d, i) /\ sj = At(e, d, j)
  OBVIOUS
<1>4. /\ IsIn(e, d, j) <=> Registered(sj, d)
      /\ IsIn(e, d, j)' <=> Registered(sj, d)'
      /\ IsIn(e, d, i)' <=> Registered(si, d)'
      /\ si = <<e, start + i>> /\ sj = <<e, start + j>>
  <2>1. At(e, d, i)' = At(e, d, i) /\ At(e, d, j)' = At(e, d, j)
    BY TurnKeeps, StaticTirTime DEF At, StaticVars, start_clk
  <2>2. QED
    BY <1>3, <2>1 DEF IsIn, Registered, At
<1>5. PICK K \in Nat \ {0} :
        \A stage, c : Registered(stage, c)' <=>
          \/ Registered(stage, c)
          \/ c = h.node /\ \E k \in 1..K :
               stage = <<h.elm, start_clk(TirTime(h.elm, h.node) + Eps)
                                  + netNodeToRtl[y].len - 1 + k>>
  <2>1. CASE \A stage, c : Registered(stage, c)' <=> Registered(stage, c)
    BY <1>4, <2>1
  <2>2. QED
    BY <2>1, MakeValidTurn
<1>6. \A stage : Registered(stage, d)' <=>
        Registered(stage, d) \/ \E k \in 1..K : stage = <<e, start + len - 1 + k>>
  <2>1. start_clk(TirTime(h.elm, h.node) + Eps) = start /\ netNodeToRtl[y].len = len
    BY <1>1, <1>2
  <2> HIDE DEF start, len, h
  <2>2. QED
    BY <1>2, <1>5, <2>1
<1>7. PICK k \in 1..K : sj = <<e, start + len - 1 + k>>
  BY <1>4, <1>6
<1>8. i - len + 1 \in 1..K /\ si = <<e, start + len - 1 + (i - len + 1)>>
  <2>1. start + j = start + len - 1 + k
    BY <1>4, <1>7
  <2>2. j = len - 1 + k
    BY <1>1, <2>1
  <2>3. QED
    BY <1>1, <1>4, <2>2
<1>9. QED
  BY <1>4, <1>6, <1>8

\* When a use is told, all registers of the chain are listed, or were not before.
LEMMA UsedTurn ==
  ASSUME NEW s, Turn(s), TasksTyped, ChainsLong, ListedToTheFirst, NEW x \in DOMAIN netNodeToRtl,
         Away(x[1], x[2]), Head(todo) = TaskOf("used", x[1], x[2]),
         NEW i \in Lowest(x[1], x[2])..(netNodeToRtl[x].len - 1)
  PROVE  IsIn(x[1], x[2], i)' \/ Excused(x[1], x[2], i)
<1> DEFINE e == x[1]
           d == x[2]
           len == netNodeToRtl[x].len
           k == len - 1 - i
<1>1. /\ len \in Nat \ {0}
      /\ \A n : n \in NotRegisteredYet(e, d) <=>
           n \in 0..(len - 1) /\ \A j \in 0..n : ~ IsIn(e, d, len - 1 - j)
  BY ChainAt
<1>2. Lowest(e, d) \in {0, 1}
  BY DEF Lowest
<1>3. i \in Int /\ k \in 0..(len - 1)
  BY <1>1, <1>2
<1>4. CASE k \in NotRegisteredYet(e, d)
  BY <1>3, <1>4, IsInTurn
<1>5. CASE k \notin NotRegisteredYet(e, d)
  <2>1. PICK j \in 0..k : IsIn(e, d, len - 1 - j)
    BY <1>1, <1>3, <1>5
  <2> DEFINE p == len - 1 - j
  <2>2. p \in Nat /\ i \in Lowest(e, d)..p
    BY <1>1, <1>2, <1>3, <2>1
  <2>3. IsIn(e, d, i) \/ Excused(e, d, i)
    <3> HIDE DEF p
    <3>1. IsIn(e, d, p)
      BY <2>1 DEF p
    <3>2. QED
      BY <2>2, <3>1 DEF ListedToTheFirst
  <2>4. QED
    BY <1>3, <2>3, IsInTurn
<1>6. QED
  BY <1>4, <1>5

\* The loop of _afterOutputUsed stops at a register that is listed, and a chain is
\* only made to last when no use of it is still to be told: no gap is left.
LEMMA ListedTurn ==
  ASSUME NEW s, Turn(s), TasksTyped, ChainsLong, OnlyThere, ExtensionsFirst, ChainListed,
         ListedToTheFirst
  PROVE  ListedToTheFirst'
<1> DEFINE h == Head(todo)
<1>1. SUFFICES ASSUME NEW x \in DOMAIN netNodeToRtl', Away(x[1], x[2]), NEW j \in Nat,
                      IsIn(x[1], x[2], j)', NEW i \in Lowest(x[1], x[2])..j
               PROVE  IsIn(x[1], x[2], i)' \/ Excused(x[1], x[2], i)'
  BY StaticListed DEF ListedToTheFirst
<1> DEFINE e == x[1]
           d == x[2]
           len == netNodeToRtl[x].len
<1>2. Lowest(e, d) \in {0, 1} /\ i \in Nat /\ i <= j /\ Lowest(e, d) <= i
  BY DEF Lowest
<1>3. CASE x \in DOMAIN netNodeToRtl
  <2>1. ASSUME IsIn(e, d, i) \/ Excused(e, d, i) \/ IsIn(e, d, i)'
        PROVE  IsIn(e, d, i)' \/ Excused(e, d, i)'
    BY <1>1, <1>2, <1>3, <2>1, IsInTurn, StaticListed
  <2>2. len \in Nat \ {0}
    BY <1>3 DEF ChainsLong
  <2>3. CASE IsIn(e, d, j)
    <3>1. IsIn(e, d, i) \/ Excused(e, d, i)
      BY <1>1, <1>3, <2>3 DEF ListedToTheFirst
    <3>2. QED
      BY <2>1, <3>1
  <2>4. CASE ~ IsIn(e, d, j) /\ h = TaskOf("used", e, d)
    <3>1. len - 1 - j \in NotRegisteredYet(e, d)
      BY <1>1, <1>3, <2>4, IsInTurn
    <3>2. len - 1 - j \in 0..(len - 1)
      BY <1>1, <1>3, <3>1, ChainAt
    <3>3. i \in Lowest(e, d)..(len - 1)
      BY <1>2, <2>2, <3>2
    <3>4. IsIn(e, d, i)' \/ Excused(e, d, i)
      BY <1>1, <1>3, <2>4, <3>3, UsedTurn
    <3>5. QED
      BY <2>1, <3>4
  <2>5. CASE j = 0
    <3>1. i = j
      BY <1>2, <2>5
    <3>2. QED
      BY <1>1, <3>1
  <2>6. CASE ~ IsIn(e, d, j) /\ h.step = "makeValid" /\ h.elm = e /\ h.node = d
    <3>1. CASE len <= i
      BY <1>1, <1>2, <1>3, <2>6, <3>1, ExtendedTurn
    <3>2. CASE i < len
      <4>1. h \in Tasks /\ IsSeq(todo) /\ todo # <<>>
        BY TurnTasks
      <4>2. 1 \in DOMAIN todo /\ todo[1] = h
        BY <4>1, RestAt
      <4>3. e = Owner(d)
        BY <2>6, <4>2 DEF ExtensionsFirst
      <4>4. Lowest(e, d) = 1
        BY <4>3, TurnKeeps, OwnIsNoCrossing DEF Lowest, Turn, Building, Analyzed
      <4>5. i \in Lowest(e, d)..(len - 2 + Lowest(e, d))
        BY <1>2, <2>2, <3>2, <4>4
      <4>6. ~ Pending(e, d)
        BY <2>6, <4>1 DEF Pending
      <4>7. IsIn(e, d, i) \/ Excused(e, d, i)
        BY <1>1, <1>3, <4>5, <4>6 DEF ChainListed
      <4>8. QED
        BY <2>1, <4>7
    <3>3. QED
      BY <1>2, <2>2, <3>1, <3>2
  <2>7. QED
    BY <1>1, <1>3, <2>3, <2>4, <2>5, <2>6, IsInTurn
<1>4. CASE x \notin DOMAIN netNodeToRtl
  <2>1. h.step \in {"alloc", "create"}
    BY <1>4, NewValue
  <2>2. x = <<e, d>> /\ x = <<h.elm, h.node>>
    BY <1>4, NewValue
  <2>3. PICK stage : stage = At(e, d, j)
    OBVIOUS
  <2>4. At(e, d, j)' = At(e, d, j)
    BY TurnKeeps, StaticTirTime DEF At, StaticVars, start_clk
  <2>5. Registered(stage, d)'
    BY <1>1, <2>3, <2>4 DEF IsIn, Registered
  <2>6. Registered(stage, d)
    BY <2>1, <2>5, SignalsTurn
  <2>7. HasRtl(e, d)
    BY <2>3, <2>6 DEF OnlyThere, At
  <2>8. QED
    BY <1>4, <2>2, <2>7 DEF HasRtl
<1>5. QED
  BY <1>3, <1>4

\* Only a connection makes a chain last.
LEMMA NoExtension ==
  ASSUME NEW s, Turn(s), ExtensionsFirst, Head(todo).step # "connect"
  PROVE  \A t \in Tasks' : t.step # "makeValid"
<1>1. /\ IsSeq(todo) /\ todo # <<>> /\ Tasks' = ToSet(s) \cup ToSet(Tail(todo))
  BY TurnTasks
<1>2. ASSUME NEW t \in ToSet(s) PROVE t.step # "makeValid"
  BY MadeOf
<1>3. ASSUME NEW t \in ToSet(Tail(todo)), t.step = "makeValid" PROVE FALSE
  <2>1. PICK i \in DOMAIN Tail(todo) : t = Tail(todo)[i]
    BY DEF ToSet
  <2>2. i + 1 \in DOMAIN todo /\ todo[i + 1] = t /\ i \in Nat \ {0}
    BY <1>1, <2>1, RestAt
  <2>3. i + 1 = 1
    BY <1>3, <2>2 DEF ExtensionsFirst
  <2>4. QED
    BY <2>2, <2>3
<1>4. QED
  BY <1>1, <1>2, <1>3

\* What is still to come leads to the call that tells of the uses.
LEMMA ToComeMakes ==
  ASSUME NEW s, Turn(s), NEW e, NEW m \in Node, NEW d \in net.dataDeps[m],
         Head(todo) \in ToCome(e, m)
  PROVE  TaskOf("used", e, d) \in ToSet(s) \/ ToCome(e, m) \cap ToSet(s) # {}
<1> DEFINE h == Head(todo)
<1>1. Makes(h, ToSet(s)) /\ ResourcesOK /\ Building
  BY TurnTasks, TurnKeeps DEF Turn
<1>2. CASE h = TaskOf("after", e, m)
  <2>1. h.step = "after" /\ h.elm = e /\ h.node = m
    BY <1>2, TaskFields
  <2>2. TaskOf("used", e, d) \in ToSet(s)
    BY <1>1, <2>1 DEF Makes
  <2>3. QED
    BY <2>2
<1>3. CASE IsWrite(m) /\ IsOwner(e, m) /\ h = TaskOf("node", e, m)
  <2>1. h.step = "node" /\ h.elm = e /\ h.node = m
    BY <1>3, TaskFields
  <2>2. wasInstantiated(e, m)
    BY <1>1, <1>3 DEF wasInstantiated, ResourcesOK, HasRtl, IsWrite
  <2>3. TaskOf("after", e, m) \in ToSet(s)
    BY <1>1, <2>1, <2>2 DEF Makes, NodeCalls
  <2>4. QED
    BY <2>3 DEF ToCome
<1>4. CASE IsWrite(m) /\ IsOwner(e, m) /\ h = [step |-> "element", elm |-> e]
  <2>1. h.step = "element" /\ h.elm = e
    BY <1>4
  <2>2. PICK k \in DOMAIN archElements[e].nodes : m \in ToSet(archElements[e].nodes[k])
    BY <1>4 DEF IsOwner, NodesOf
  <2>3. [step |-> "stage", elm |-> e, stage |-> k] \in ToSet(s)
    BY <1>1, <2>1, <2>2 DEF Makes
  <2>4. [step |-> "stage", elm |-> e, stage |-> k] \in ToCome(e, m)
    BY <1>4, <2>2 DEF ToCome
  <2>5. QED
    BY <2>3, <2>4
<1>5. CASE /\ IsWrite(m) /\ IsOwner(e, m)
           /\ \E k \in DOMAIN archElements[e].nodes :
                m \in ToSet(archElements[e].nodes[k]) /\ h = [step |-> "stage", elm |-> e, stage |-> k]
  <2>1. PICK k \in DOMAIN archElements[e].nodes :
           m \in ToSet(archElements[e].nodes[k]) /\ h = [step |-> "stage", elm |-> e, stage |-> k]
    BY <1>5
  <2>2. h.step = "stage" /\ h.elm = e /\ h.stage = k
    BY <2>1
  <2>3. TaskOf("node", e, m) \in ToSet(s)
    BY <1>1, <2>1, <2>2 DEF Makes
  <2>4. TaskOf("node", e, m) \in ToCome(e, m)
    BY <1>5 DEF ToCome
  <2>5. QED
    BY <2>3, <2>4
<1>6. QED
  BY <1>2, <1>3, <1>4, <1>5 DEF ToCome

\* A use that will be told is still so after a step, unless the step tells it.
LEMMA PendingTurn ==
  ASSUME NEW s, Turn(s), ExtensionsFirst, NEW e, NEW d, Pending(e, d),
         Head(todo) # TaskOf("used", e, d)
  PROVE  Pending(e, d)'
<1> DEFINE h == Head(todo)
<1>1. /\ IsSeq(todo) /\ todo # <<>> /\ Tasks' = ToSet(s) \cup ToSet(Tail(todo))
      /\ Tasks = {h} \cup ToSet(Tail(todo)) /\ UNCHANGED StaticVars
  BY TurnTasks, TurnKeeps
<1>2. /\ \A m : ToCome(e, m)' = ToCome(e, m)
      /\ TaskOf("used", e, d)' = TaskOf("used", e, d) /\ net' = net
  BY <1>1, StaticUsers DEF TaskOf, StaticVars
<1>3. PICK t \in Tasks : /\ t.step # "connect"
                         /\ t = TaskOf("used", e, d)
                              \/ \E m \in Node : d \in net.dataDeps[m] /\ t \in ToCome(e, m)
  <2>1. CASE TaskOf("used", e, d) \in Tasks
    BY <2>1, TaskFields
  <2>2. CASE \E m \in Node : d \in net.dataDeps[m] /\ ToCome(e, m) \cap Tasks # {}
    <3>1. PICK m \in Node : d \in net.dataDeps[m] /\ ToCome(e, m) \cap Tasks # {}
      BY <2>2
    <3>2. PICK t \in Tasks : t \in ToCome(e, m)
      BY <3>1
    <3>3. t.step \in {"after", "node", "element", "stage"}
      BY <3>2, TaskFields DEF ToCome
    <3>4. QED
      BY <3>1, <3>2, <3>3
  <2>3. QED
    BY <2>1, <2>2 DEF Pending
<1>4. h.step # "connect"
  <2>1. PICK i \in DOMAIN todo : t = todo[i]
    BY DEF Tasks, ToSet
  <2>2. 1 \in DOMAIN todo /\ todo[1] = h /\ i \in Nat \ {0}
    BY <1>1, <2>1, RestAt
  <2>3. CASE i = 1
    BY <1>3, <2>1, <2>2, <2>3
  <2>4. CASE 1 < i
    BY <1>3, <2>1, <2>2, <2>4 DEF ExtensionsFirst
  <2>5. QED
    BY <2>2, <2>3, <2>4
<1>5. \A u \in Tasks' : u.step # "makeValid"
  BY <1>4, NoExtension
<1>6. \/ TaskOf("used", e, d) \in Tasks'
      \/ \E m \in Node : d \in net.dataDeps[m] /\ ToCome(e, m) \cap Tasks' # {}
  <2>1. CASE t = TaskOf("used", e, d)
    BY <1>1, <2>1
  <2>2. CASE \E m \in Node : d \in net.dataDeps[m] /\ t \in ToCome(e, m)
    <3>1. PICK m \in Node : d \in net.dataDeps[m] /\ t \in ToCome(e, m)
      BY <2>2
    <3>2. CASE t = h
      <4>1. TaskOf("used", e, d) \in ToSet(s) \/ ToCome(e, m) \cap ToSet(s) # {}
        BY <3>1, <3>2, ToComeMakes
      <4>2. QED
        BY <1>1, <3>1, <4>1
    <3>3. CASE t # h
      BY <1>1, <3>1, <3>3
    <3>4. QED
      BY <3>2, <3>3
  <2>3. QED
    BY <1>3, <2>1, <2>2
<1>7. QED
  BY <1>2, <1>5, <1>6 DEF Pending

\* When a use makes a chain longer, it is one that is not told, or it is to be told.
LEMMA GrownTurn ==
  ASSUME NEW s, Turn(s), TasksTyped, ChainsLong, UsersFollowed, HandOversFollowed,
         ExtensionsFirst, Head(todo).step = "get",
         NEW x, x = <<Head(todo).elm, Head(todo).node>>,
         netNodeToRtl[x].len <= IndexFor(netNodeToRtl[x], Head(todo).time)
  PROVE  \/ Pending(x[1], x[2])'
         \/ \A i \in Int : i <= IndexFor(netNodeToRtl[x], Head(todo).time) =>
              Excused(x[1], x[2], i)'
<1> DEFINE h == Head(todo)
           e == x[1]
           d == x[2]
           index == IndexFor(netNodeToRtl[x], h.time)
<1>1. /\ IsSeq(todo) /\ todo # <<>> /\ ToSet(Tail(todo)) \subseteq Tasks'
      /\ h \in Tasks /\ UNCHANGED StaticVars /\ TaskTyped(h)
      /\ ResourcesOK /\ Building /\ AllocInput /\ UsesOK
  BY TurnTasks, TurnKeeps DEF TasksTyped, Turn, AllocInv
<1>2. /\ \A m : ToCome(e, m)' = ToCome(e, m) /\ (Untold(e, m)' <=> Untold(e, m))
      /\ TaskOf("used", e, d)' = TaskOf("used", e, d) /\ net' = net
  BY <1>1, StaticUsers DEF TaskOf, StaticVars
<1>3. \A t \in Tasks' : t.step # "makeValid"
  BY NoExtension
<1>4. e = h.elm /\ d = h.node /\ x = <<e, d>>
  OBVIOUS
<1>5. /\ x \in DOMAIN netNodeToRtl /\ index \in Nat
      /\ uses' = uses
           \cup {[elm |-> h.elm, value |-> h.node, user |-> h.user, index |-> index]}
  BY GetTurn
<1>6. CASE h.user[1] = "element"
  <2>1. h \in HandOverCalls(e, d) /\ Followed(todo, HandOverCalls(e, d), {TaskOf("used", e, d)})
    BY <1>1, <1>4, <1>6 DEF HandOverCalls, HandOversFollowed
  <2>2. {TaskOf("used", e, d)} \cap ToSet(Tail(todo)) # {}
    BY <1>1, <2>1, FollowedRest
  <2>3. QED
    BY <1>1, <1>2, <1>3, <2>2 DEF Pending
<1>7. CASE h.user[1] # "element"
  <2>1. PICK m \in Node : /\ h = UseCall(h.elm, h.node, m) /\ h.node \in net.dataDeps[m]
                          /\ net.kind[m] # "gate" /\ ~ IsConst(h.node)
    BY <1>1, <1>7 DEF TaskTyped
  <2>2. h = UseCall(e, d, m) /\ d \in net.dataDeps[m] /\ ~ IsConst(d)
        /\ h.user = <<"node", m>> /\ h.time = scheduledIn[m] /\ e \in DOMAIN archElements
    BY <1>1, <1>4, <2>1, TaskFields DEF TaskTyped
  <2>3. UsesOf(e, d, <<"node", m>>) = {}
    <3>1. SUFFICES ASSUME NEW u \in uses, u.elm = e, u.value = d, u.user = <<"node", m>>
                   PROVE  FALSE
      BY DEF UsesOf
    <3>2. u.index = NodeIndex(e, d, m)
      BY <1>1, <3>1 DEF UsesOK
    <3>3. NodeIndex(e, d, m) = index
      BY <1>1, <1>4, <1>5, <2>2 DEF NodeIndex, IndexFor, ResourcesOK
    <3>4. u.index \in 0..(netNodeToRtl[x].len - 1) /\ netNodeToRtl[x].len \in Nat
      BY <1>4, <1>5, <3>1 DEF ChainsLong
    <3>5. netNodeToRtl[x].len <= index
      OBVIOUS
    <3> HIDE DEF index
    <3>6. QED
      BY <1>5, <3>2, <3>3, <3>4, <3>5
  <2>4. CASE Untold(e, m)
    <3>1. PICK u \in uses' : /\ u.elm = e /\ u.value = d /\ u.index = index
                              /\ u.user[1] = "node" /\ u.user[2] = m
      <4> DEFINE v == [elm |-> h.elm, value |-> h.node, user |-> h.user, index |-> index]
      <4>1. v \in uses'
        BY <1>5
      <4>2. v.elm = e /\ v.value = d /\ v.index = index /\ v.user = h.user
        BY <1>4
      <4>3. h.user[1] = "node" /\ h.user[2] = m
        BY <2>2
      <4> HIDE DEF v, h, index, e, d
      <4>4. QED
        BY <4>1, <4>2, <4>3
    <3>2. \A c, n : Untold(c, n)' <=> Untold(c, n)
      BY <1>1, StaticUsers
    <3> HIDE DEF index, e, d
    <3>3. ASSUME NEW i \in Int, i <= index
          PROVE  Excused(e, d, i)'
      BY <1>5, <2>4, <3>1, <3>2, <3>3 DEF Excused
    <3>4. QED
      BY <3>3 DEF index, e, d
  <2>5. CASE ~ Untold(e, m)
    <3>1. Followed(todo, Asking(e, d, m), ToCome(e, m)) /\ h \in Asking(e, d, m)
      BY <2>1, <2>2, <2>3, <2>5 DEF UsersFollowed, Unused, Asking
    <3>2. ToCome(e, m) \cap ToSet(Tail(todo)) # {}
      BY <1>1, <3>1, FollowedRest
    <3>3. ToCome(e, m) \cap Tasks' # {}
      BY <1>1, <3>2
    <3>4. QED
      BY <1>2, <1>3, <2>2, <3>3 DEF Pending
  <2>6. QED
    BY <2>4, <2>5
<1>8. QED
  BY <1>6, <1>7

\* A chain stays listed: a use that makes it longer is to be told, when it is told
\* all of it is listed, and when it is made to last a call that lists it follows.
LEMMA ChainListedTurn ==
  ASSUME NEW s, Turn(s), TasksTyped, CreatesOnce, ChainsLong, UsersFollowed, HandOversFollowed,
         ExtensionsFirst, ChainListed, ListedToTheFirst
  PROVE  ChainListed'
<1> DEFINE h == Head(todo)
<1>1. SUFFICES ASSUME NEW x \in DOMAIN netNodeToRtl', Away(x[1], x[2]),
                      NEW i \in Lowest(x[1], x[2])..(netNodeToRtl'[x].len - 2 + Lowest(x[1], x[2]))
               PROVE  IsIn(x[1], x[2], i)' \/ Excused(x[1], x[2], i)' \/ Pending(x[1], x[2])'
  BY StaticListed DEF ChainListed
<1> DEFINE e == x[1]
           d == x[2]
           len == netNodeToRtl[x].len
           y == <<h.elm, h.node>>
<1>2. Lowest(e, d) \in {0, 1} /\ i \in Int
  BY DEF Lowest
<1>3. CASE x \in DOMAIN netNodeToRtl /\ i <= len - 2 + Lowest(e, d)
  <2>1. i \in Lowest(e, d)..(len - 2 + Lowest(e, d)) /\ len \in Nat
    BY <1>2, <1>3 DEF ChainsLong
  <2>2. IsIn(e, d, i) \/ Excused(e, d, i) \/ Pending(e, d)
    BY <1>1, <1>3, <2>1 DEF ChainListed
  <2>3. CASE IsIn(e, d, i)
    BY <1>1, <1>2, <1>3, <2>3, IsInTurn
  <2>4. CASE Excused(e, d, i)
    BY <2>4, StaticListed
  <2>5. CASE Pending(e, d) /\ h = TaskOf("used", e, d)
    <3>1. i \in Lowest(e, d)..(len - 1)
      BY <1>2, <2>1
    <3>2. IsIn(e, d, i)' \/ Excused(e, d, i)
      BY <1>1, <1>3, <2>5, <3>1, UsedTurn
    <3>3. QED
      BY <3>2, StaticListed
  <2>6. CASE Pending(e, d) /\ h # TaskOf("used", e, d)
    BY <2>6, PendingTurn
  <2>7. QED
    BY <2>2, <2>3, <2>4, <2>5, <2>6
<1>4. CASE x \in DOMAIN netNodeToRtl /\ ~ (i <= len - 2 + Lowest(e, d))
  <2> DEFINE index == IndexFor(netNodeToRtl[x], h.time)
  <2>1. netNodeToRtl'[x].len # len
    BY <1>1, <1>2, <1>4
  <2>2. CASE h.step = "get"
    <3>1. x = y /\ index \in Nat /\ len <= index /\ netNodeToRtl'[x].len = index + 1
      BY <1>4, <2>1, <2>2, ChainTurn
    <3>2. i <= index
      <4> HIDE DEF index
      <4>1. QED
        BY <1>1, <1>2, <3>1
    <3>3. QED
      BY <1>2, <2>2, <3>1, <3>2, GrownTurn
  <2>3. CASE h.step = "makeValid"
    <3>1. e = h.elm /\ d = h.node
      BY <1>4, <2>1, <2>3, ChainTurn
    <3>2. /\ IsSeq(todo) /\ todo # <<>> /\ Tasks' = ToSet(s) \cup ToSet(Tail(todo))
          /\ Tasks = {h} \cup ToSet(Tail(todo))
      BY TurnTasks
    <3>3. 1 \in DOMAIN todo /\ todo[1] = h
      BY <3>2, RestAt
    <3>4. TaskOf("used", e, d) \in Tasks
      BY <2>3, <3>1, <3>3 DEF ExtensionsFirst
    <3>5. TaskOf("used", e, d) # h
      BY <2>3, TaskFields
    <3>6. TaskOf("used", e, d) \in Tasks'
      BY <3>2, <3>4, <3>5
    <3>7. \A t \in Tasks' : t.step # "makeValid"
      BY <2>3, NoExtension
    <3>8. TaskOf("used", e, d)' = TaskOf("used", e, d)
      BY DEF TaskOf
    <3>9. QED
      BY <3>6, <3>7, <3>8 DEF Pending
  <2>4. QED
    BY <1>4, <2>1, <2>2, <2>3, ChainTurn
<1>5. CASE x \notin DOMAIN netNodeToRtl
  <2>1. netNodeToRtl'[x].len = 1
    BY <1>5, NewValue
  <2>2. QED
    BY <1>1, <1>2, <2>1
<1>6. QED
  BY <1>3, <1>4, <1>5

-----------------------------------------------------------------------------
\* The inductive invariant, and what follows from it at the end.

\* What is true while the nodes are built
WhileBuilding ==
  /\ TasksTyped /\ CreatesOnce /\ ChainsLong
  /\ AllocsFollowed /\ WritesAsk /\ UsersFollowed /\ HandOversFollowed /\ ExtensionsFirst
  /\ OnlyThere /\ FirstListed /\ ChainListed /\ ListedToTheFirst

\* The inductive invariant, beside AllocInv.
RegisterInv == OneElement /\ (Building => WhileBuilding)

\* A step that takes a task
LEMMA BuildingTurn ==
  ASSUME NEW s, Turn(s), WhileBuilding, phase = "done" => Acyclic
  PROVE  WhileBuilding'
<1>1. TasksTyped' /\ CreatesOnce' /\ ChainsLong'
  BY TypedTurn, CreatesTurn, ChainsTurn DEF WhileBuilding
<1>2. AllocsFollowed' /\ WritesAsk' /\ UsersFollowed' /\ HandOversFollowed' /\ ExtensionsFirst'
  BY AllocsTurn, WritesTurn, UsersTurn, HandOversTurn, ExtensionsTurn DEF WhileBuilding
<1>3. OnlyThere' /\ FirstListed' /\ ChainListed' /\ ListedToTheFirst'
  BY OnlyThereTurn, FirstTurn, ChainListedTurn, ListedTurn DEF WhileBuilding
<1>4. QED
  BY <1>1, <1>2, <1>3 DEF WhileBuilding

\* The last step changes nothing of it.
LEMMA BuildingStays ==
  ASSUME UNCHANGED StaticVars, UNCHANGED <<todo, rtlVars>>, WhileBuilding
  PROVE  WhileBuilding'
<1>1. /\ todo' = todo /\ netNodeToRtl' = netNodeToRtl /\ stageSignals' = stageSignals
      /\ uses' = uses /\ net' = net /\ archElements' = archElements /\ Tasks' = Tasks
      /\ Crossings' = Crossings /\ scheduledIn' = scheduledIn
  BY StaticCrossings DEF rtlVars, StaticVars, Tasks
<1>2. /\ \A t : TaskTyped(t)' <=> TaskTyped(t)
      /\ \A e, d, m : UseCall(e, d, m)' = UseCall(e, d, m)
      /\ \A n : Owner(n)' = Owner(n) /\ IsConst(n)' = IsConst(n)
      /\ \A e, n : IsOwner(e, n)' = IsOwner(e, n)
  BY StaticTyped
<1>3. /\ \A n : AllocatedForRead(n)' <=> AllocatedForRead(n)
      /\ \A e, m : Untold(e, m)' <=> Untold(e, m)
      /\ \A e, m : ToCome(e, m)' = ToCome(e, m)
      /\ \A n : IsRead(n)' = IsRead(n) /\ IsWrite(n)' = IsWrite(n)
  BY StaticUsers
<1>4. /\ \A e, n : HasRtl(e, n)' <=> HasRtl(e, n)
      /\ \A e, d, m : UsesOf(e, d, m)' = UsesOf(e, d, m)
      /\ \A stage, d : Registered(stage, d)' <=> Registered(stage, d)
      /\ \A e, d : TirTime(e, d)' = TirTime(e, d)
  BY <1>1, StaticTirTime DEF HasRtl, UsesOf, Registered
<1>5. TasksTyped' /\ CreatesOnce' /\ ChainsLong'
  <2>1. TasksTyped'
    BY <1>1, <1>2 DEF TasksTyped, WhileBuilding
  <2>2. CreatesOnce'
    BY <1>1 DEF CreatesOnce, ClosedUnderDeps, Before, HasRtl, Deps, DepsOf, WhileBuilding
  <2>3. ChainsLong'
    BY <1>1 DEF ChainsLong, WhileBuilding
  <2>4. QED
    BY <2>1, <2>2, <2>3
<1>6. AllocsFollowed'
  BY <1>1, <1>3, <1>4 DEF AllocsFollowed, Followed, TaskOf, WhileBuilding
<1>7. /\ \A e, d, m : Asking(e, d, m)' = Asking(e, d, m)
      /\ \A e, d, m : Unused(e, d, m)' <=> Unused(e, d, m)
      /\ \A e, d, m : OperandCall(e, d, m)' = OperandCall(e, d, m)
      /\ \A step, e, n : TaskOf(step, e, n)' = TaskOf(step, e, n)
  BY <1>1, <1>2, <1>4 DEF Asking, Unused, OperandCall, TaskOf
<1>8. WritesAsk'
  BY <1>1, <1>2, <1>3, <1>7 DEF WritesAsk, WhileBuilding
<1>9. UsersFollowed'
  BY <1>1, <1>3, <1>7 DEF UsersFollowed, Followed, WhileBuilding
<1>10. HandOversFollowed' /\ ExtensionsFirst'
  <2>1. HandOversFollowed'
    BY <1>1, <1>7 DEF HandOversFollowed, HandOverCalls, Followed, WhileBuilding
  <2>2. ExtensionsFirst'
    BY <1>1, <1>2, <1>7 DEF ExtensionsFirst, WhileBuilding
  <2>3. QED
    BY <2>1, <2>2
<1>11. /\ \A e, d, i : IsIn(e, d, i)' <=> IsIn(e, d, i)
       /\ \A e, d : Away(e, d)' <=> Away(e, d)
       /\ \A e, d : Lowest(e, d)' = Lowest(e, d)
       /\ \A e, d, i : Excused(e, d, i)' <=> Excused(e, d, i)
       /\ \A e, d : Pending(e, d)' <=> Pending(e, d)
  <2>1. \A e, d, i : IsIn(e, d, i)' <=> IsIn(e, d, i)
    BY <1>1, <1>4 DEF IsIn, At, Registered, start_clk
  <2>2. \A e, d : Away(e, d)' <=> Away(e, d)
    BY <1>4 DEF Away, AwayFromNextClk, start_clk
  <2>3. \A e, d : Lowest(e, d)' = Lowest(e, d)
    BY <1>1 DEF Lowest
  <2>4. \A e, d, i : Excused(e, d, i)' <=> Excused(e, d, i)
    BY <1>1, <1>3 DEF Excused
  <2>5. \A e, d : Pending(e, d)' <=> Pending(e, d)
    BY <1>1, <1>3, <1>7 DEF Pending
  <2>6. QED
    BY <2>1, <2>2, <2>3, <2>4, <2>5
<1>12. OnlyThere'
  BY <1>4 DEF OnlyThere, WhileBuilding
<1>13. FirstListed'
  BY <1>1, <1>3, <1>7, <1>11 DEF FirstListed, WhileBuilding
<1>14. ChainListed'
  BY <1>1, <1>11 DEF ChainListed, WhileBuilding
<1>15. ListedToTheFirst'
  BY <1>1, <1>11 DEF ListedToTheFirst, WhileBuilding
<1>16. QED
  BY <1>5, <1>6, <1>8, <1>9, <1>10, <1>12, <1>13, <1>14, <1>15 DEF WhileBuilding

\* "build" begins with the elements and the connections behind them; nothing is built.
LEMMA BuildingBegins ==
  ASSUME AllocInv, AllocInv', Declare, UNCHANGED StaticVars
  PROVE  WhileBuilding'
<1>1. /\ AllocOK /\ NothingBuilt /\ NodesCovered /\ Analyzed /\ Split
      /\ archElements \in Seq(ElementType) /\ connections \in Seq(Node \X Node)
  BY DEF AllocInv, AllocOK, Declare, Analyzed, Split
<1>2. /\ \A t \in Tasks' : t.step \in {"element", "connect"}
      /\ netNodeToRtl' = [x \in Crossings |-> [timeOffset |-> FirstUseTime(x[2], x[1]), len |-> 1]]
      /\ uses' = {}
  BY <1>1, DeclareEffect
<1>3. /\ todo' = OfElements \o ConnectionCalls
      /\ archElements' = archElements /\ net' = net /\ Crossings' = Crossings
      /\ stageSignals' = [q \in UNION {{e} \X ToSet(archElements[e].clks) : e \in DOMAIN archElements}
                            |-> {}]
  BY StaticCrossings DEF Declare, StaticVars
<1>4. /\ IsSeq(OfElements)
      /\ \A t : t \in ToSet(OfElements) <=>
           \E e \in DOMAIN archElements : t = [step |-> "element", elm |-> e]
  BY <1>1, OfElementsFacts
<1>5. /\ IsSeq(ConnectionCalls)
      /\ \A t \in ToSet(ConnectionCalls) : t.step = "connect"
  BY <1>1, ConnectionCallsFacts
<1>6. \A e \in DOMAIN archElements : [step |-> "element", elm |-> e] \in Tasks'
  BY <1>3, <1>4, <1>5, Joined DEF Tasks
<1>7. \A i \in DOMAIN todo' : todo'[i] \in Tasks'
  BY DEF Tasks, ToSet
<1>8. /\ \A t \in Tasks' : TaskOK(t, archElements)
      /\ IsSeq(todo')
  BY <1>3 DEF AllocInv, AllocOK, TodoOK
<1>9. TasksTyped'
  <2>1. \A t \in Tasks' : TaskTyped(t)'
    BY <1>2, <1>3, <1>8 DEF TaskTyped, TaskOK
  <2>2. ASSUME NEW x \in Crossings PROVE x[1] \in DOMAIN archElements
    <3>1. PICK c \in ToSet(connections) : x = <<Owner(c[2]), c[1]>>
      BY DEF Crossings
    <3>2. c[2] \in Node
      BY <1>1, <3>1, SeqIsSeq
    <3>3. QED
      BY <1>1, <3>1, <3>2, OwnerFacts
  <2>3. QED
    BY <1>2, <1>3, <2>1, <2>2 DEF TasksTyped
<1>10. CreatesOnce' /\ ChainsLong'
  <2>1. \A i \in DOMAIN todo' : todo'[i].step # "create"
    BY <1>2, <1>7
  <2>2. CreatesOnce'
    BY <1>2, <2>1 DEF CreatesOnce
  <2>3. ChainsLong'
    BY <1>2 DEF ChainsLong
  <2>4. QED
    BY <2>2, <2>3
<1>11. \A A, B : (\A t \in A : t.step \notin {"element", "connect"}) => Followed(todo', A, B)
  BY <1>2, <1>7 DEF Followed
<1>12. AllocsFollowed' /\ UsersFollowed' /\ HandOversFollowed'
  <2>1. AllocsFollowed'
    BY <1>11, TaskFields DEF AllocsFollowed, TaskOf
  <2>2. UsersFollowed'
    <3>1. SUFFICES ASSUME NEW e, NEW d, NEW m PROVE Followed(todo', Asking(e, d, m)', ToCome(e, m)')
      BY DEF UsersFollowed, Followed
    <3>2. \A t \in Asking(e, d, m)' : t.step \in {"alloc", "operand", "get"}
      BY DEF Asking, TaskOf, OperandCall, UseCall, GetCall
    <3>3. QED
      BY <1>11, <3>2
  <2>3. HandOversFollowed'
    <3>1. SUFFICES ASSUME NEW e, NEW d
                   PROVE  Followed(todo', HandOverCalls(e, d)', {TaskOf("used", e, d)'})
      BY DEF HandOversFollowed, Followed
    <3>2. \A t \in HandOverCalls(e, d)' : t.step = "get"
      BY DEF HandOverCalls
    <3>3. QED
      BY <1>11, <3>2
  <2>4. QED
    BY <2>1, <2>2, <2>3
<1>13. WritesAsk'
  <2>1. SUFFICES ASSUME NEW e \in DOMAIN archElements, NEW m \in Node,
                        IsWrite(m)', IsOwner(e, m)'
                 PROVE  (ToCome(e, m)' \ {TaskOf("after", e, m)'}) \cap Tasks' # {}
    BY <1>3 DEF WritesAsk
  <2> DEFINE t == [step |-> "element", elm |-> e]
  <2>2. t \in Tasks'
    BY <1>6
  <2>3. t \in ToCome(e, m)'
    BY <2>1 DEF ToCome
  <2>4. t # TaskOf("after", e, m)'
    BY DEF TaskOf
  <2>5. QED
    BY <2>2, <2>3, <2>4
<1>14. ExtensionsFirst'
  <2>1. ASSUME NEW i \in DOMAIN todo', NEW j \in DOMAIN todo', i < j, todo'[i].step = "connect"
        PROVE  todo'[j].step = "connect"
    <3>1. \A t \in ToSet(OfElements) : t.step # "connect"
      BY <1>4
    <3>2. \A k \in DOMAIN OfElements : OfElements[k] \in ToSet(OfElements)
      BY DEF ToSet
    <3>3. \A k \in DOMAIN ConnectionCalls : ConnectionCalls[k] \in ToSet(ConnectionCalls)
      BY DEF ToSet
    <3> DEFINE p == OfElements
               r == ConnectionCalls
               q == p \o r
    <3>4. i \in DOMAIN q /\ j \in DOMAIN q /\ IsSeq(p) /\ IsSeq(r)
      BY <1>3, <1>4, <1>5
    <3> HIDE DEF p, r
    <3>5. \/ i \in DOMAIN p /\ j \in DOMAIN p /\ q[i] = p[i] /\ q[j] = p[j]
          \/ q[i] \in ToSet(p) /\ q[j] \in ToSet(r)
          \/ \E k, l \in DOMAIN r : k < l /\ q[i] = r[k] /\ q[j] = r[l]
      BY <2>1, <3>4, JoinedPair
    <3>6. todo' = q
      BY <1>3 DEF p, r
    <3> HIDE DEF q
    <3>7. QED
      BY <1>5, <2>1, <3>1, <3>2, <3>3, <3>5, <3>6 DEF p, r
  <2>2. \A i \in DOMAIN todo' : todo'[i].step # "makeValid"
    BY <1>2, <1>7
  <2>3. QED
    BY <2>1, <2>2 DEF ExtensionsFirst
<1>15. \A stage, d : ~ Registered(stage, d)'
  BY <1>3 DEF Registered
<1>16. \A e, d, i : ~ IsIn(e, d, i)'
  BY <1>3 DEF IsIn, Registered
<1>17. OnlyThere' /\ ListedToTheFirst'
  BY <1>15, <1>16 DEF OnlyThere, ListedToTheFirst
<1>18. FirstListed'
  BY <1>2, <1>3 DEF FirstListed
<1>19. ChainListed'
  <2>1. SUFFICES ASSUME NEW x \in DOMAIN netNodeToRtl',
                        NEW i \in Lowest(x[1], x[2])'..(netNodeToRtl'[x].len - 2 + Lowest(x[1], x[2])')
                 PROVE  FALSE
    BY DEF ChainListed
  <2>2. netNodeToRtl'[x].len = 1
    BY <1>2
  <2>3. Lowest(x[1], x[2])' \in {0, 1}
    BY DEF Lowest
  <2>4. QED
    BY <2>1, <2>2, <2>3
<1>20. QED
  BY <1>9, <1>10, <1>12, <1>13, <1>14, <1>17, <1>18, <1>19 DEF WhileBuilding

\* Every step preserves the invariant.
LEMMA RegisterInvNext ==
  ASSUME AllocInput, AllocInv, AllocInv', phase = "done" => Acyclic, RegisterInv,
         [HlsNext]_hlsVars
  PROVE  RegisterInv'
<1>1. OneElement'
  BY OneElementNext DEF RegisterInv
<1>2. ASSUME Building' PROVE WhileBuilding'
  <2>1. CASE Declare /\ UNCHANGED StaticVars
    BY <2>1, BuildingBegins
  <2>2. CASE Building /\ UNCHANGED StaticVars /\ UNCHANGED <<todo, rtlVars>>
    BY <2>2, BuildingStays DEF RegisterInv
  <2>3. CASE \E s : Turn(s)
    BY <2>3, BuildingTurn DEF RegisterInv, Turn
  <2>4. QED
    BY <1>2, <2>1, <2>2, <2>3, BuildSteps
<1>3. QED
  BY <1>1, <1>2 DEF RegisterInv

\* At the end nothing is left to be told, so that each register is listed or excused.
LEMMA RegistersAtEnd == AllocInput /\ AllocInv /\ RegisterInv => RegistersLoaded
<1>1. SUFFICES ASSUME AllocInput, AllocInv, RegisterInv, allocPhase = "done",
                      NEW x \in DOMAIN netNodeToRtl, NEW k \in 1..(netNodeToRtl[x].len - 1),
                      Away(x[1], x[2])
               PROVE  LET clk_i == start_clk(netNodeToRtl[x].timeOffset) + k - 1
                      IN  \/ x[2] \in stageSignals[<<x[1], clk_i>>]
                          \/ k = 1 /\ AllocatedForRead(x[2]) /\ x \notin Crossings
                          \/ UntoldUse(x[1], x[2], k)
  <2>1. ASSUME AllocInv, allocPhase = "done", NEW x \in DOMAIN netNodeToRtl
        PROVE  netNodeToRtl[x].timeOffset = TirTime(x[1], x[2])
    BY <2>1 DEF AllocInv, ResourcesOK, Building
  <2>2. QED
    BY <2>1 DEF RegistersLoaded, Away
<1> DEFINE e == x[1]
           d == x[2]
           len == netNodeToRtl[x].len
           i == k - 1
           start == start_clk(TirTime(e, d))
<1>2. /\ Tasks = {} /\ Building /\ Analyzed /\ Split /\ WhileBuilding /\ EachNodeInOneElement
      /\ ResourcesOK /\ AllocOK /\ NodesCovered /\ ConnectionsSound
      /\ archElements \in Seq(ElementType) /\ connections \in Seq(Node \X Node)
  BY <1>1, NothingLeft DEF RegisterInv, OneElement, AllocInv, AllocOK
<1>3. /\ x = <<e, d>> /\ d \in Node /\ netNodeToRtl[x].timeOffset = TirTime(e, d)
      /\ len \in Nat \ {0} /\ start \in Int
  <2>1. x = <<e, d>> /\ d \in Node /\ netNodeToRtl[x].timeOffset = TirTime(e, d)
    BY <1>2 DEF ResourcesOK
  <2>2. len \in Nat \ {0}
    BY <1>2 DEF WhileBuilding, ChainsLong
  <2>3. start \in Int
    BY <1>1, <1>2, <2>1, TirTimeTyped, ClkBounds
  <2>4. QED
    BY <2>1, <2>2, <2>3
<1>4. k \in Nat /\ 1 <= k /\ k <= len - 1 /\ i \in Nat
  BY <1>3
<1>5. ASSUME IsIn(e, d, i)
      PROVE  d \in stageSignals[<<e, start_clk(netNodeToRtl[x].timeOffset) + k - 1>>]
  <2>1. start + i = start_clk(netNodeToRtl[x].timeOffset) + k - 1
    BY <1>3, <1>4
  <2>2. QED
    BY <1>5, <2>1 DEF IsIn, At, Registered
<1>6. ~ Pending(e, d)
  BY <1>2 DEF Pending
<1>7. Excused(e, d, i) /\ (k > 1 \/ ~ IsOwner(e, d)) => UntoldUse(e, d, k)
  BY DEF Excused, UntoldUse
<1>8. i \in Lowest(e, d)..(len - 2 + Lowest(e, d)) => IsIn(e, d, i) \/ Excused(e, d, i)
  BY <1>1, <1>2, <1>6 DEF WhileBuilding, ChainListed
<1>9. CASE x \in Crossings
  <2>1. i \in Lowest(e, d)..(len - 2 + Lowest(e, d))
    BY <1>3, <1>4, <1>9 DEF Lowest
  <2>2. ~ IsOwner(e, d)
    <3>1. PICK c \in ToSet(connections) : x = <<Owner(c[2]), c[1]>>
      BY <1>9 DEF Crossings
    <3>2. Owner(d) # e
      BY <1>2, <3>1 DEF ConnectionsSound, Crosses
    <3>3. Owner(d) \in DOMAIN archElements /\ IsOwner(Owner(d), d)
      BY <1>2, <1>3, OwnerFacts DEF IsOwner, NodesOf
    <3>4. e \in DOMAIN archElements
      BY <1>2 DEF WhileBuilding, TasksTyped
    <3>5. QED
      BY <1>2, <1>3, <3>2, <3>3, <3>4 DEF EachNodeInOneElement
  <2>3. QED
    BY <1>5, <1>7, <1>8, <2>1, <2>2
<1>10. CASE x \notin Crossings /\ k = 1
  <2>1. \/ IsIn(e, d, 0) \/ AllocatedForRead(d) \/ TaskOf("after", e, d) \in Tasks
    BY <1>1, <1>2, <1>10 DEF WhileBuilding, FirstListed
  <2>2. i = 0
    BY <1>10
  <2>3. QED
    BY <1>2, <1>5, <1>10, <2>1, <2>2
<1>11. CASE x \notin Crossings /\ k # 1
  <2>1. i \in Lowest(e, d)..(len - 2 + Lowest(e, d)) /\ k > 1
    BY <1>3, <1>4, <1>11 DEF Lowest
  <2>2. QED
    BY <1>5, <1>7, <1>8, <2>1
<1>12. QED
  BY <1>9, <1>10, <1>11

\* allocateDataPath, _afterNodeInstantiated, _afterOutputUsed, the connections and
\* extendValidityOfRtlResource together, in whatever order the recursion comes to the
\* nodes: every register of a pipeline is listed in the stage that loads it, but
\* for the kinds RegistersLoaded names.
THEOREM RegistersOfStages == HlsSpec => []RegistersLoaded
<1>1. HlsInit => RegisterInv
  BY DEF HlsInit, InitAllocator, RegisterInv, OneElement, Analyzed, Building
<1>2. AllocInput /\ AllocInv /\ AllocInv' /\ CycleIffReported /\ RegisterInv /\ [HlsNext]_hlsVars
        => RegisterInv'
  BY RegisterInvNext DEF CycleIffReported
<1>3. HlsSpec => HlsInit /\ [][HlsNext]_hlsVars
  BY DEF HlsSpec
<1>4. HlsSpec => [](AllocInput /\ AllocInv)
  BY AllocInvariant
<1>5. HlsSpec => []CycleIffReported
  BY ScheduleAlone, CyclesAreReported, PTL
<1>6. HlsSpec => []RegisterInv
  BY <1>1, <1>2, <1>3, <1>4, <1>5, PTL
<1>7. QED
  BY <1>4, <1>6, RegistersAtEnd, PTL

=============================================================================
