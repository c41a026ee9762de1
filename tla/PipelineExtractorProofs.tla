----------------------- MODULE PipelineExtractorProofs -----------------------
(***************************************************************************)
(* The cutting of module PipelineExtractor leaves no cycle, for every      *)
(* finite control flow graph.  The degrees do not matter for it, and which *)
(* edges of a block are cut does not matter either: the list has every     *)
(* component that is left, and a cycle of uncut edges would be within one. *)
(***************************************************************************)
EXTENDS PipelineExtractor, FiniteSetTheorems, SequenceTheorems, TLAPS

(* What is listed, besides the types: the graph is not touched before the  *)
(* greedy loop, and the list is empty after it.                            *)
ExtractInv ==
    /\ edges \in SUBSET (Blocks \X Blocks)
    /\ removed \in SUBSET edges
    /\ sccs \in Seq(SUBSET Blocks)
    /\ stage \in {"collected", "cutting", "extracted"}
    /\ stage = "collected" => g = edges /\ removed = {}
    /\ ListCoversComponents
    /\ stage = "extracted" => sccs = <<>>

-----------------------------------------------------------------------------
(* Reachability *)

LEMMA ReachesItself == \A e : \A a \in Blocks : Reaches(e, a, a)
  BY DEF Reaches

LEMMA ReachesNext == \A e, a, b : <<a, b>> \in e => Reaches(e, a, b)
  <1> SUFFICES ASSUME NEW e, NEW a, NEW b, <<a, b>> \in e,
                      NEW S \in SUBSET Blocks, a \in S, Closed(S, e)
               PROVE  b \in S
    BY DEF Reaches
  <1> QED  BY DEF Closed

LEMMA ReachesMore ==
  \A e, f, a, b : e \subseteq f /\ Reaches(e, a, b) => Reaches(f, a, b)
  BY DEF Reaches, Closed

LEMMA ReachesOn ==
  \A e, a, b, c : Reaches(e, a, b) /\ Reaches(e, b, c) => Reaches(e, a, c)
  BY DEF Reaches

(* A component can be walked through without leaving it: its edges are     *)
(* enough to reach any block of it from any other.                         *)
LEMMA ReachesWithin ==
  ASSUME NEW e \in SUBSET (Blocks \X Blocks), NEW h, NEW a \in Blocks,
         NEW b \in Component(e, a), Within(e, Component(e, a)) \subseteq h
  PROVE  Reaches(h, a, b)
  <1> SUFFICES ASSUME NEW S \in SUBSET Blocks, a \in S, Closed(S, h)
               PROVE  b \in S
    BY DEF Reaches
  <1> DEFINE C == Component(e, a)
             Escaped == {x \in Blocks : Reaches(e, a, x) /\ ~Reaches(e, x, a)}
             U == (S \cap C) \cup Escaped
  <1>1. Closed(U, e)
    <2> SUFFICES ASSUME NEW x \in Blocks, NEW y \in Blocks, <<x, y>> \in e, x \in U
                 PROVE  y \in U
      BY DEF Closed
    <2>1. Reaches(e, a, x) /\ Reaches(e, x, y)
      BY ReachesNext DEF Component
    <2>2. Reaches(e, a, y)
      BY <2>1, ReachesOn
    <2>3. CASE ~Reaches(e, y, a)
      BY <2>2, <2>3
    <2>4. CASE Reaches(e, y, a)
      <3>1. Reaches(e, x, a)
        BY <2>1, <2>4, ReachesOn
      <3>2. x \in S /\ x \in C /\ y \in C
        BY <2>1, <2>2, <2>4, <3>1 DEF Component
      <3>3. <<x, y>> \in h
        BY <3>2 DEF Within
      <3> QED  BY <3>2, <3>3 DEF Closed
    <2> QED  BY <2>3, <2>4
  <1>2. a \in U
    BY ReachesItself DEF Component
  <1>3. Reaches(e, a, b) /\ Reaches(e, b, a)
    BY DEF Component
  <1>4. U \in SUBSET Blocks
    BY DEF Component
  <1>5. b \in U
    BY <1>1, <1>2, <1>3, <1>4 DEF Reaches
  <1> QED  BY <1>3, <1>5

LEMMA ComponentIsListed ==
  ASSUME NEW e, NEW a \in Blocks, NEW b \in Component(e, a), a # b
  PROVE  Component(e, a) \in Components(e)
  BY ReachesItself DEF Components, Component

LEMMA ComponentIsSymmetric ==
  ASSUME NEW e, NEW a \in Blocks, NEW b \in Component(e, a)
  PROVE  b \in Blocks /\ a \in Component(e, b)
  BY DEF Component

(* Leaving out the blocks which are in no component does not change the    *)
(* components.                                                             *)
LEMMA SameComponents ==
  ASSUME NEW e \in SUBSET (Blocks \X Blocks)
  PROVE  Components(Within(e, UNION Components(e))) \subseteq Components(e)
  <1> DEFINE nodes == UNION Components(e)
             h == Within(e, nodes)
  <1>0. SUFFICES ASSUME NEW a \in Blocks, NEW p \in Component(h, a),
                        NEW q \in Component(h, a), p # q
                 PROVE  Component(h, a) \in Components(e)
    <2>1. Components(h) = {c \in {Component(h, a) : a \in Blocks} : \E p, q \in c : p # q}
      BY DEF Components
    <2> HIDE DEF h
    <2>2. SUFFICES Components(h) \subseteq Components(e)
      BY DEF h
    <2> SUFFICES ASSUME NEW c \in Components(h) PROVE c \in Components(e)
      OBVIOUS
    <2>3. PICK a \in Blocks : c = Component(h, a) /\ \E p, q \in c : p # q
      BY <2>1
    <2> QED  BY <1>0, <2>3
  <1>1. h \subseteq e
    BY DEF Within
  <1>2. Component(h, a) \subseteq Component(e, a)
    BY <1>1, ReachesMore DEF Component
  <1>3. \A b \in Component(e, a) : b # a => Reaches(h, a, b) /\ Reaches(h, b, a)
    <2> SUFFICES ASSUME NEW b \in Component(e, a), b # a
                 PROVE  Reaches(h, a, b) /\ Reaches(h, b, a)
      OBVIOUS
    <2>1. b \in Blocks /\ a \in Component(e, b)
      BY ComponentIsSymmetric
    <2>2. Component(e, a) \in Components(e) /\ Component(e, b) \in Components(e)
      BY <2>1, ComponentIsListed
    <2>3. /\ Within(e, Component(e, a)) \subseteq h
          /\ Within(e, Component(e, b)) \subseteq h
      BY <2>2 DEF Within
    <2> HIDE DEF h
    <2> QED  BY <2>1, <2>3, ReachesWithin
  <1>4. Component(e, a) \subseteq Component(h, a)
    BY <1>3, ReachesItself DEF Component
  <1>5. Component(h, a) = Component(e, a)
    BY <1>2, <1>4
  <1>6. PICK b \in Component(e, a) : b # a
    BY <1>0, <1>5
  <1> QED  BY <1>5, <1>6, ComponentIsListed

(* A graph in which no component is left has no cycle.                     *)
LEMMA AcyclicWhenNoneIsLeft ==
  ASSUME NEW full \in SUBSET (Blocks \X Blocks), NEW e \in SUBSET full,
         Components(Within(e, UNION Components(full))) = {}, SelfLoops(e) = {}
  PROVE  Acyclic(e)
  <1> DEFINE h == Within(e, UNION Components(full))
  <1> SUFFICES ASSUME NEW a \in Blocks, NEW b \in Blocks, <<a, b>> \in e, Reaches(e, b, a)
               PROVE  FALSE
    BY DEF Acyclic
  <1>1. a # b
    BY DEF SelfLoops
  <1>2. Reaches(e, a, b)
    BY ReachesNext
  <1>3. b \in Component(e, a) /\ a \in Component(e, b)
    BY <1>2 DEF Component
  <1>4. \A c \in Blocks : Component(e, c) \subseteq Component(full, c)
    BY ReachesMore DEF Component
  <1>5. Component(full, a) \in Components(full) /\ Component(full, b) \in Components(full)
    BY <1>1, <1>3, <1>4, ComponentIsListed
  <1>6. Within(e, Component(e, a)) \subseteq h /\ Within(e, Component(e, b)) \subseteq h
    BY <1>4, <1>5 DEF Within
  <1>7. Reaches(h, a, b) /\ Reaches(h, b, a)
    <2> HIDE DEF h
    <2> QED  BY <1>3, <1>6, ReachesWithin
  <1>8. b \in Component(h, a)
    BY <1>7 DEF Component
  <1> QED  BY <1>1, <1>8, ComponentIsListed

-----------------------------------------------------------------------------
(* The invariant *)

LEMMA ListingsAreSequences ==
  ASSUME NEW e, NEW s \in Listings(Components(e))
  PROVE  s \in Seq(SUBSET Blocks) /\ \A c \in Components(e) : \E i \in DOMAIN s : s[i] = c
  <1>1. Components(e) \subseteq SUBSET Blocks
    BY DEF Components, Component
  <1>2. IsFiniteSet(Components(e))
    <2>1. IsFiniteSet(SUBSET Blocks)
      BY BlocksAssumption, FS_SUBSET
    <2> QED  BY <1>1, <2>1, FS_Subset
  <1>3. Cardinality(Components(e)) \in Nat
    BY <1>2, FS_CardinalityType
  <1>4. s \in Seq(Components(e))
    BY <1>3 DEF Listings
  <1> QED  BY <1>1, <1>4 DEF Listings

LEMMA InitInv == ASSUME NEW e \in Graphs, ExtractInit(e) PROVE ExtractInv
  BY GraphsAssumption DEF ExtractInit, ExtractInv, ListCoversComponents

LEMMA NextInv == ExtractInv /\ [ExtractNext]_extractVars => ExtractInv'
  <1> SUFFICES ASSUME ExtractInv, [ExtractNext]_extractVars PROVE ExtractInv'
    OBVIOUS
  <1> DEFINE full == edges \ SelfLoops(edges)
             nodes == UNION Components(full)
  <1>1. CASE RmNonSccs
    <2>1. /\ g = edges /\ edges' = edges /\ stage' = "cutting"
          /\ removed' = SelfLoops(edges)
          /\ g' = Within(full, nodes)
          /\ sccs' \in Listings(Components(full))
      BY <1>1 DEF RmNonSccs, ExtractInv
    <2>2. full \in SUBSET (Blocks \X Blocks)
      BY DEF ExtractInv
    <2>3. Components(g') \subseteq Components(full)
      BY <2>1, <2>2, SameComponents
    <2>4. /\ sccs' \in Seq(SUBSET Blocks)
          /\ \A c \in Components(full) : \E i \in DOMAIN sccs' : sccs'[i] = c
      BY <2>1, ListingsAreSequences
    <2>5. removed' \in SUBSET edges
      BY <2>1 DEF SelfLoops
    <2>6. ListCoversComponents'
      BY <2>1, <2>3, <2>4 DEF ListCoversComponents
    <2> QED  BY <2>1, <2>4, <2>5, <2>6 DEF ExtractInv
  <1>2. CASE BreakComponent
    <2> DEFINE cut == CutsAt(MaxNode(sccs[Len(sccs)]))
    <2>1. /\ sccs # <<>> /\ edges' = edges /\ stage = "cutting" /\ stage' = "cutting"
          /\ removed' = removed \cup cut
          /\ g' = g \ cut
      BY <1>2 DEF BreakComponent
    <2>2. PICK found \in Listings(Components(g')) :
                sccs' = SubSeq(sccs, 1, Len(sccs) - 1) \o found
      BY <1>2 DEF BreakComponent
    <2>3. cut \subseteq g
      BY DEF CutsAt, InEdges, OutEdges
    <2>4. g = Within(edges \ removed, nodes) /\ SelfLoops(edges) \subseteq removed
      BY <2>1 DEF ExtractInv, ListCoversComponents
    <2>5. g' = Within(edges \ removed', nodes)
      <3> HIDE DEF nodes, cut
      <3> QED  BY <2>1, <2>4 DEF Within
    <2>6. removed' \in SUBSET edges
      BY <2>1, <2>3, <2>4 DEF ExtractInv, Within
    <2>7. /\ found \in Seq(SUBSET Blocks)
          /\ \A c \in Components(g') : \E i \in DOMAIN found : found[i] = c
      BY ListingsAreSequences
    <2>8. SubSeq(sccs, 1, Len(sccs) - 1) \in Seq(SUBSET Blocks)
      BY <2>1 DEF ExtractInv
    <2>9. sccs' \in Seq(SUBSET Blocks)
      BY <2>2, <2>7, <2>8
    <2>10. \A c \in Components(g') : \E i \in DOMAIN sccs' : sccs'[i] = c
      <3> DEFINE rest == SubSeq(sccs, 1, Len(sccs) - 1)
      <3> TAKE c \in Components(g')
      <3>1. PICK i \in DOMAIN found : found[i] = c
        BY <2>7
      <3> HIDE DEF rest
      <3>2. Len(rest) \in Nat /\ DOMAIN found = 1..Len(found) /\ Len(found) \in Nat
        BY <2>7, <2>8 DEF rest
      <3>3. Len(rest) + i \in DOMAIN (rest \o found) /\ (rest \o found)[Len(rest) + i] = found[i]
        BY <2>7, <2>8, <3>2 DEF rest
      <3> QED  BY <2>2, <3>1, <3>3 DEF rest
    <2>11. ListCoversComponents'
      BY <2>1, <2>4, <2>5, <2>10 DEF ListCoversComponents
    <2> QED  BY <2>1, <2>6, <2>9, <2>11 DEF ExtractInv
  <1>3. CASE AllBroken
    BY <1>3 DEF AllBroken, ExtractInv, ListCoversComponents
  <1>4. CASE UNCHANGED extractVars
    BY <1>4 DEF extractVars, ExtractInv, ListCoversComponents
  <1> QED  BY <1>1, <1>2, <1>3, <1>4 DEF ExtractNext

LEMMA InvHolds == ExtractSpec => []ExtractInv
  <1>1. (\E e \in Graphs : ExtractInit(e)) => ExtractInv
    BY InitInv
  <1> QED  BY <1>1, NextInv, PTL DEF ExtractSpec

(* The types are right, and the graph keeps only edges of the program.     *)
THEOREM ExtractTypesHold == ExtractSpec => []ExtractTypeOK
  <1>1. ExtractInv => ExtractTypeOK
    BY DEF ExtractInv, ExtractTypeOK, ListCoversComponents, Within
  <1> QED  BY <1>1, InvHolds, PTL

(* Whatever the list and the degrees were, when remove_cycle_edges_by_mfas *)
(* is done each cycle of the control flow graph has a cut edge: what is    *)
(* translated to one pipeline is acyclic.                                  *)
THEOREM PipelinesAreAcyclic == ExtractSpec => []ForwardIsAcyclic
  <1>1. ExtractInv => ForwardIsAcyclic
    <2> SUFFICES ASSUME ExtractInv, stage = "extracted"
                 PROVE  Acyclic(edges \ removed)
      BY DEF ForwardIsAcyclic
    <2> DEFINE full == edges \ SelfLoops(edges)
    <2>1. full \in SUBSET (Blocks \X Blocks)
      BY DEF ExtractInv
    <2>2. /\ SelfLoops(edges) \subseteq removed
          /\ g = Within(edges \ removed, UNION Components(full))
          /\ Components(g) = {}
      <3>1. ListCoversComponents /\ sccs = <<>> /\ stage # "collected"
        BY DEF ExtractInv
      <3>2. DOMAIN sccs = {}
        BY <3>1
      <3> QED  BY <3>1, <3>2 DEF ListCoversComponents
    <2>3. edges \ removed \in SUBSET full
      BY <2>2
    <2>4. SelfLoops(edges \ removed) = {}
      BY <2>2 DEF SelfLoops
    <2> HIDE DEF full
    <2> QED  BY <2>1, <2>2, <2>3, <2>4, AcyclicWhenNoneIsLeft
  <1> QED  BY <1>1, InvHolds, PTL
=============================================================================
