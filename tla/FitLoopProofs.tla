---------------------------- MODULE FitLoopProofs ----------------------------
(***************************************************************************)
(* Proofs about the sampler and the training loop that calls it, for every *)
(* task tree, set of prompts, batch size and length of the run.            *)
(*                                                                         *)
(* The sampler: the descents, picks and climbs of one batch keep the       *)
(* counts of the leaves exact and never let a count drop below the number  *)
(* of prompts a node still offers; from that it follows which of the       *)
(* errors of sample_batch can be raised, and where.                        *)
(*                                                                         *)
(* The loop: what makes its proofs work is that a batch is unique and that *)
(* a round-robin batch lists its fresh arms first: so an arm that was seen *)
(* before comes up in the loop only when the pass has just ended.          *)
(***************************************************************************)
EXTENDS FitLoop, FiniteSetTheorems, SequenceTheorems, TLAPS

-----------------------------------------------------------------------------
(***************************************************************************)
(* The sampler.                                                            *)
(***************************************************************************)

Building == pc \in {"descend", "climb"}

\* The climb has not reached n yet, and will.
Owed(n) == IF pc = "climb" /\ node \in DOMAIN ChildToParent
                           /\ n = ChildToParent[node]
           THEN 1 ELSE 0

\* The prompts taken and the prompts left make up the training set, and the
\* check at the start of the call leaves enough of them.
BatchInv ==
    /\ BatchUnique
    /\ Building =>
        /\ Cardinality(available) = Cardinality(Arms) - Len(samples)
        /\ \A i \in DOMAIN samples : samples[i] \notin available
        /\ BatchSize <= Cardinality(Arms)
        /\ Len(samples) <= BatchSize
    /\ pc = "descend" => Len(samples) < BatchSize

\* What the counts say of the prompts that are left, also halfway a climb.
CountInv ==
    Building =>
        /\ \A l \in Leaves : counts[l] = Cardinality(OpenPrompts(l))
        /\ \A n \in Internal : counts[n] >= Cardinality(OpenPrompts(n)) + Owed(n)
        /\ \A n \in Internal :
              AboveLeaves(n) => counts[n] = Cardinality(OpenPrompts(n)) + Owed(n)

\* A descent only enters open nodes.
DescentInv == pc = "descend" /\ level # Root => counts[level] > 0

\* The errors, and that an error ends the run.
ErrorInv ==
    /\ pc # "raised" => error = "none"
    /\ StuckOnlyBetween

IInv == TypeOK /\ BatchInv /\ CountInv /\ DescentInv /\ ErrorInv
-----------------------------------------------------------------------------
(***************************************************************************)
(* Facts about the tree.                                                   *)
(***************************************************************************)

\* The map sends a leaf to the one node that lists it, which is internal and
\* so has no entry of its own: every climb is one turn of the loop.
LEMMA ParentFacts ==
    /\ DOMAIN ChildToParent \subseteq Leaves
    /\ \A l \in DOMAIN ChildToParent :
          /\ ChildToParent[l] \in Internal
          /\ l \in Children[ChildToParent[l]]
          /\ ChildToParent[l] \notin DOMAIN ChildToParent
    /\ \A n \in Internal : \A l \in Children[n] \cap Leaves :
          l \in DOMAIN ChildToParent /\ ChildToParent[l] = n
<1>1. DOMAIN ChildToParent = {c \in Leaves : \E p \in Internal : c \in Children[p]}
  BY DEF ChildToParent
<1>2. \A l \in DOMAIN ChildToParent :
          ChildToParent[l] \in Internal /\ l \in Children[ChildToParent[l]]
  BY <1>1 DEF ChildToParent
<1>3. Leaves \cap Internal = {}
  BY DEF Leaves
<1>4. \A n \in Internal : \A l \in Children[n] \cap Leaves :
          l \in DOMAIN ChildToParent /\ ChildToParent[l] = n
  BY <1>1, <1>2, TreeAssumption
<1> QED
  BY <1>1, <1>2, <1>3, <1>4

\* Every node is a leaf or internal; children are nodes; every other node
\* than the root hangs below some node.
LEMMA NodeFacts ==
    /\ Leaves \cup Internal = Nodes
    /\ \A n \in Internal : Children[n] \subseteq Nodes /\ Root \notin Children[n]
    /\ \A n \in Nodes : Under[n] \subseteq Arms
    /\ \A n \in Internal : \A c \in Children[n] : Under[c] \subseteq Under[n]
BY TreeAssumption, UnderAssumption DEF Leaves

\* The prompts a node still offers are finitely many.
LEMMA OpenFinite ==
    ASSUME NEW n \in Nodes, NEW S \in SUBSET Arms
    PROVE  /\ IsFiniteSet(Under[n] \cap S)
           /\ Cardinality(Under[n] \cap S) \in Nat
           /\ Cardinality(Under[n] \cap S) > 0 <=> Under[n] \cap S # {}
<1>1. Under[n] \cap S \in SUBSET Arms
  OBVIOUS
<1>2. IsFiniteSet(Under[n] \cap S)
  BY <1>1, FS_Subset, TreeAssumption
<1>3. Cardinality(Under[n] \cap S) \in Nat
  BY <1>2, FS_CardinalityType
<1> QED
  BY <1>2, <1>3, FS_EmptySet

\* Taking prompt p removes one from the nodes above p, and none elsewhere.
LEMMA OpenRemove ==
    ASSUME NEW n \in Nodes, NEW S \in SUBSET Arms, NEW p \in Arms
    PROVE  Cardinality(Under[n] \cap (S \ {p})) =
                IF p \in Under[n] \cap S THEN Cardinality(Under[n] \cap S) - 1
                                         ELSE Cardinality(Under[n] \cap S)
<1>1. Under[n] \cap (S \ {p}) = (Under[n] \cap S) \ {p}
  OBVIOUS
<1> QED
  BY <1>1, OpenFinite, FS_RemoveElement

\* The orderings of a finite set of prompts are sequences without repetition.
LEMMA OrderingFacts ==
    ASSUME NEW S \in SUBSET Arms, NEW s \in Orderings(S)
    PROVE  /\ s \in Seq(S)
           /\ Cardinality(S) \in Nat
           /\ Len(s) = Cardinality(S)
           /\ \A i, j \in 1..Len(s) : s[i] = s[j] => i = j
<1>1. Cardinality(S) \in Nat
  BY FS_Subset, FS_CardinalityType, TreeAssumption
<1>2. s \in [1..Cardinality(S) -> S]
  BY DEF Orderings
<1>3. s \in Seq(S) /\ Len(s) = Cardinality(S)
  BY <1>1, <1>2
<1> QED
  BY <1>1, <1>3 DEF Orderings
\* What the round-robin and the topk branch hand over is a sequence of
\* distinct prompts.
LEMMA RoundRobinFacts ==
    ASSUME sampled \subseteq Arms, RoundRobin
    PROVE  /\ samples' \in Seq(Arms)
           /\ BatchUnique'
<1> DEFINE fresh == Arms \ sampled
           s == samples'
<1> SUFFICES /\ s \in Seq(Arms)
             /\ \A i, j \in DOMAIN s : s[i] = s[j] => i = j
  BY DEF BatchUnique
<1>1. CASE Cardinality(fresh) >= BatchSize
  <2>1. PICK S \in SUBSET fresh : s \in Orderings(S)
    BY <1>1 DEF RoundRobin, OrderedSubsets
  <2> QED
    BY <2>1, OrderingFacts, SeqMonotonic
<1>2. CASE ~(Cardinality(fresh) >= BatchSize)
  <2>1. PICK f \in Orderings(fresh), E \in SUBSET sampled :
           \E e \in Orderings(E) : s = f \o e
    BY <1>2 DEF RoundRobin, OrderedSubsets
  <2>0. PICK e \in Orderings(E) : s = f \o e
    BY <2>1
  <2>. fresh \in SUBSET Arms /\ E \in SUBSET Arms
    OBVIOUS
  <2>2. /\ f \in Seq(fresh) /\ f \in Seq(Arms)
        /\ \A i, j \in 1..Len(f) : f[i] = f[j] => i = j
    BY OrderingFacts, SeqMonotonic
  <2>3. /\ e \in Seq(E) /\ e \in Seq(Arms)
        /\ \A i, j \in 1..Len(e) : e[i] = e[j] => i = j
    BY OrderingFacts, SeqMonotonic
  <2>4. /\ s \in Seq(Arms)
        /\ Len(s) = Len(f) + Len(e)
        /\ \A i \in 1..Len(f) + Len(e) :
              s[i] = IF i <= Len(f) THEN f[i] ELSE e[i - Len(f)]
    BY <2>0, <2>2, <2>3, ConcatProperties
  <2>5. Len(f) \in Nat /\ Len(e) \in Nat /\ DOMAIN s = 1..Len(s)
    BY <2>2, <2>3, <2>4, LenProperties
  <2>6. \A i \in 1..Len(f) : f[i] \in fresh
    BY <2>2, ElementOfSeq
  <2>7. \A i \in 1..Len(e) : e[i] \in sampled
    BY <2>3, ElementOfSeq
  <2>8. ASSUME NEW i \in DOMAIN s, NEW j \in DOMAIN s, s[i] = s[j]
        PROVE  i = j
    <3>1. CASE i <= Len(f) /\ j <= Len(f)
      BY <3>1, <2>2, <2>4, <2>5, <2>8
    <3>2. CASE ~(i <= Len(f)) /\ ~(j <= Len(f))
      <4>1. i - Len(f) \in 1..Len(e) /\ j - Len(f) \in 1..Len(e)
        BY <3>2, <2>4, <2>5
      <4>2. e[i - Len(f)] = e[j - Len(f)]
        BY <3>2, <2>4, <2>5, <2>8
      <4>3. i - Len(f) = j - Len(f)
        BY <4>1, <4>2, <2>3
      <4> QED
        BY <4>3, <2>5, <2>4
    <3>3. CASE i <= Len(f) /\ ~(j <= Len(f))
      <4>1. s[i] \in fresh /\ j - Len(f) \in 1..Len(e)
        BY <3>3, <2>4, <2>5, <2>6
      <4>2. s[j] \in sampled
        BY <4>1, <3>3, <2>4, <2>5, <2>7
      <4> QED
        BY <4>1, <4>2, <2>8
    <3>4. CASE ~(i <= Len(f)) /\ j <= Len(f)
      <4>1. s[j] \in fresh /\ i - Len(f) \in 1..Len(e)
        BY <3>4, <2>4, <2>5, <2>6
      <4>2. s[i] \in sampled
        BY <4>1, <3>4, <2>4, <2>5, <2>7
      <4> QED
        BY <4>1, <4>2, <2>8
    <3> QED
      BY <3>1, <3>2, <3>3, <3>4
  <2> QED
    BY <2>4, <2>8
<1> QED
  BY <1>1, <1>2

LEMMA TopKFacts ==
    ASSUME NEW s \in OrderedSubsets(BatchSize, Arms)
    PROVE  /\ s \in Seq(Arms)
           /\ \A i, j \in DOMAIN s : s[i] = s[j] => i = j
<1>1. PICK S \in SUBSET Arms : s \in Orderings(S)
  BY DEF OrderedSubsets
<1> QED
  BY <1>1, OrderingFacts, SeqMonotonic
-----------------------------------------------------------------------------
(***************************************************************************)
(* Type correctness.                                                       *)
(***************************************************************************)
LEMMA InitType == Init => TypeOK
BY TreeAssumption DEF Init, TypeOK, Errors

LEMMA StepType == TypeOK /\ [Next]_vars => TypeOK'
<1> SUFFICES ASSUME TypeOK, [Next]_vars
             PROVE  TypeOK'
  OBVIOUS
<1>1. CASE RoundRobin
  <2>1. samples' \in Seq(Arms)
    BY <1>1, RoundRobinFacts DEF TypeOK, RoundRobin
  <2> QED
    BY <1>1, <2>1 DEF TypeOK, RoundRobin
<1>2. CASE StartTree
  <2>1. counts' \in [Nodes -> Int]
    <3>1. \A n \in Nodes : Cardinality(Under[n]) \in Int
      <4> TAKE n \in Nodes
      <4>1. Under[n] \cap Arms = Under[n]
        BY NodeFacts
      <4>2. Cardinality(Under[n] \cap Arms) \in Nat
        BY OpenFinite
      <4> QED
        BY <4>1, <4>2
    <3> QED
      BY <1>2, <3>1 DEF StartTree, InitialCounts
  <2>2. samples' \in Seq(Arms)
    BY <1>2, EmptySeq DEF StartTree
  <2> QED
    BY <1>2, <2>1, <2>2, TreeAssumption DEF TypeOK, StartTree, Errors
<1>3. CASE Descend
  <2>1. level' \in Nodes
    BY <1>3, NodeFacts DEF TypeOK, Descend, OpenChildren
  <2> QED
    BY <1>3, <2>1 DEF TypeOK, Descend, Errors
<1>4. CASE PickPrompt
  <2>1. CASE Prompts(level) \cap available = {}
    BY <1>4, <2>1 DEF TypeOK, PickPrompt, Errors
  <2>2. CASE Prompts(level) \cap available # {}
    <3>1. PICK p \in Prompts(level) \cap available :
             /\ samples' = Append(samples, p)
             /\ available' = available \ {p}
             /\ counts' = [counts EXCEPT ![level] = @ - 1]
             /\ node' = level
             /\ pc' = "climb"
             /\ UNCHANGED <<error, sampled, level>>
      BY <1>4, <2>2 DEF PickPrompt
    <3>2. p \in Arms
      BY DEF Prompts
    <3> QED
      BY <3>1, <3>2 DEF TypeOK
  <2> QED
    BY <2>1, <2>2
<1>5. CASE Climb
  <2>1. ChildToParent[node] \in Nodes
    BY <1>5, ParentFacts, NodeFacts DEF Climb
  <2> QED
    BY <1>5, <2>1 DEF TypeOK, Climb
<1>6. CASE ClimbDone
  BY <1>6, TreeAssumption DEF TypeOK, ClimbDone
<1>7. CASE TopK
  <2>1. samples' \in Seq(Arms)
    BY <1>7, TopKFacts DEF TypeOK, TopK
  <2> QED
    BY <1>7, <2>1 DEF TypeOK, TopK, Errors
<1>8. CASE Train
  <2>1. Batch \subseteq Arms
    BY ElementOfSeq, LenProperties DEF TypeOK, Batch
  <2> QED
    BY <1>8, <2>1 DEF TypeOK, Train
<1>9. CASE UNCHANGED vars
  BY <1>9 DEF TypeOK, vars
<1> QED
  BY <1>1, <1>2, <1>3, <1>4, <1>5, <1>6, <1>7, <1>8, <1>9 DEF Next, SampleBatch, FlatBatch

\* Every variable always holds a value of its kind.
THEOREM TypeCorrect == Spec => []TypeOK
<1>1. Init => TypeOK
  BY InitType
<1>2. TypeOK /\ [Next]_vars => TypeOK'
  BY StepType
<1> QED
  BY <1>1, <1>2, PTL DEF Spec
-----------------------------------------------------------------------------
(***************************************************************************)
(* The inductive invariant, one lemma per part.                            *)
(***************************************************************************)

\* A step of PickPrompt raises at an empty leaf or takes one of its prompts.
LEMMA PickCases ==
    ASSUME TypeOK, PickPrompt
    PROVE  \/ /\ Prompts(level) \cap available = {}
              /\ pc' = "raised"
              /\ UNCHANGED <<sampled, samples, available, counts, level, node>>
           \/ \E p \in Arms :
              /\ p \in Prompts(level) \cap available
              /\ samples' = Append(samples, p)
              /\ available' = available \ {p}
              /\ counts' = [counts EXCEPT ![level] = counts[level] - 1]
              /\ node' = level
              /\ pc' = "climb"
              /\ UNCHANGED <<error, sampled, level>>
<1>1. CASE Prompts(level) \cap available = {}
  BY <1>1 DEF PickPrompt
<1>2. CASE Prompts(level) \cap available # {}
  <2>1. PICK p \in Prompts(level) \cap available :
             /\ samples' = Append(samples, p)
             /\ available' = available \ {p}
             /\ counts' = [counts EXCEPT ![level] = @ - 1]
             /\ node' = level
             /\ pc' = "climb"
             /\ UNCHANGED <<error, sampled, level>>
    BY <1>2 DEF PickPrompt
  <2> QED
    BY <2>1 DEF Prompts
<1> QED
  BY <1>1, <1>2

LEMMA ArmsFinite == IsFiniteSet(Arms) /\ Cardinality(Arms) \in Nat
BY FS_CardinalityType, TreeAssumption

LEMMA BatchStep ==
    ASSUME TypeOK, BatchInv, [Next]_vars
    PROVE  BatchInv'
<1>1. CASE RoundRobin
  <2>1. BatchUnique'
    BY <1>1, RoundRobinFacts DEF TypeOK
  <2> QED
    BY <1>1, <2>1 DEF BatchInv, Building, RoundRobin
<1>2. CASE StartTree
  <2>1. /\ samples' = <<>> /\ available' = Arms
        /\ Len(samples') = 0 /\ DOMAIN samples' = 1..0
    BY <1>2, EmptySeq, LenProperties DEF StartTree
  <2>2. pc' = "descend" => ~(Cardinality(Arms) < BatchSize)
    <3>1. counts'[Root] = Cardinality(Arms)
      BY <1>2, UnderAssumption, TreeAssumption DEF StartTree, InitialCounts
    <3> QED
      BY <1>2, <3>1 DEF StartTree
  <2>3. pc' \in {"descend", "raised"}
    BY <1>2 DEF StartTree
  <2> QED
    BY <2>1, <2>2, <2>3, ArmsFinite, SamplerAssumption
       DEF BatchInv, BatchUnique, Building
<1>3. CASE Descend
  BY <1>3 DEF BatchInv, BatchUnique, Building, Descend
<1>4. CASE PickPrompt
  <2>1. CASE pc' = "raised" /\ UNCHANGED samples
    BY <2>1 DEF BatchInv, BatchUnique, Building
  <2>2. CASE \E p \in Arms :
              /\ p \in Prompts(level) \cap available
              /\ samples' = Append(samples, p)
              /\ available' = available \ {p}
              /\ pc' = "climb"
    <3>1. PICK p \in available :
              /\ samples' = Append(samples, p)
              /\ available' = available \ {p}
              /\ pc' = "climb"
      BY <2>2
    <3>2. pc = "descend" /\ samples \in Seq(Arms) /\ p \in Arms
      BY <1>4 DEF PickPrompt, TypeOK
    <3>3. /\ Len(samples') = Len(samples) + 1
          /\ DOMAIN samples = 1..Len(samples)
          /\ DOMAIN samples' = 1..Len(samples')
          /\ \A i \in 1..Len(samples) : samples'[i] = samples[i]
          /\ samples'[Len(samples) + 1] = p
          /\ Len(samples) \in Nat
      BY <3>1, <3>2
    <3>4. Cardinality(available') = Cardinality(available) - 1
      BY <3>1, FS_Subset, FS_RemoveElement, TreeAssumption DEF TypeOK
    <3>5. \A i \in DOMAIN samples' : samples'[i] \notin available'
      BY <3>1, <3>2, <3>3 DEF BatchInv, Building
    <3>6. BatchUnique'
      BY <3>1, <3>2, <3>3 DEF BatchInv, BatchUnique, Building
    <3>7. Len(samples') <= BatchSize
      BY <3>2, <3>3, SamplerAssumption DEF BatchInv
    <3> QED
      BY <3>1, <3>2, <3>3, <3>4, <3>5, <3>6, <3>7, ArmsFinite DEF BatchInv, Building
  <2> QED
    BY <1>4, <2>1, <2>2, PickCases
<1>5. CASE Climb
  BY <1>5 DEF BatchInv, BatchUnique, Building, Climb
<1>6. CASE ClimbDone
  <2>1. Len(samples) \in Nat
    BY DEF TypeOK
  <2> QED
    BY <1>6, <2>1, SamplerAssumption DEF BatchInv, BatchUnique, Building, ClimbDone
<1>7. CASE TopK
  <2>1. BatchUnique'
    BY <1>7, TopKFacts DEF TopK, BatchUnique, BatchInv
  <2> QED
    BY <1>7, <2>1 DEF BatchInv, Building, TopK
<1>8. CASE Train
  BY <1>8 DEF BatchInv, BatchUnique, Building, Train
<1>9. CASE UNCHANGED vars
  BY <1>9 DEF BatchInv, BatchUnique, Building, vars
<1> QED
  BY <1>1, <1>2, <1>3, <1>4, <1>5, <1>6, <1>7, <1>8, <1>9 DEF Next, SampleBatch, FlatBatch

\* Taking a prompt of leaf l costs one open prompt at l and at the parent of
\* l, none at the other leaves and at most one elsewhere.
LEMMA PickOpen ==
    ASSUME TypeOK, NEW l \in Leaves, NEW p \in Prompts(l) \cap available,
           NEW n \in Nodes
    PROVE  LET before == Cardinality(Under[n] \cap available)
               after  == Cardinality(Under[n] \cap (available \ {p}))
           IN  /\ before \in Nat /\ after \in Nat
               /\ after <= before
               /\ n = l => after = before - 1
               /\ n \in Leaves /\ n # l => after = before
               /\ n \in Internal /\ l \in Children[n] => after = before - 1
               /\ AboveLeaves(n) /\ l \notin Children[n] => after = before
<1> DEFINE before == Cardinality(Under[n] \cap available)
           after  == Cardinality(Under[n] \cap (available \ {p}))
<1>1. available \in SUBSET Arms /\ p \in Arms /\ p \in available /\ Cluster[p] = l
  BY DEF TypeOK, Prompts
<1>2. /\ before \in Nat
      /\ after = IF p \in Under[n] \cap available THEN before - 1 ELSE before
  BY <1>1, OpenFinite, OpenRemove
<1>3. available \ {p} \in SUBSET Arms
  BY <1>1
<1>4. after \in Nat
  BY <1>3, OpenFinite
<1>5. \A m \in Leaves : p \in Under[m] <=> m = l
  BY <1>1, UnderAssumption DEF Prompts
<1>6. n \in Internal /\ l \in Children[n] => p \in Under[n]
  BY <1>5, NodeFacts
<1>7. AboveLeaves(n) /\ l \notin Children[n] => p \notin Under[n]
  <2> SUFFICES ASSUME AboveLeaves(n), p \in Under[n]
               PROVE  l \in Children[n]
    OBVIOUS
  <2>1. Under[n] = UNION {Under[c] : c \in Children[n]}
    BY UnderAssumption DEF AboveLeaves
  <2>2. PICK c \in Children[n] : p \in Under[c]
    BY <2>1
  <2> QED
    BY <2>2, <1>5 DEF AboveLeaves
<1> HIDE DEF before, after
<1>8. /\ before \in Nat /\ after \in Nat
      /\ after <= before
      /\ n = l => after = before - 1
      /\ n \in Leaves /\ n # l => after = before
      /\ n \in Internal /\ l \in Children[n] => after = before - 1
      /\ AboveLeaves(n) /\ l \notin Children[n] => after = before
  BY <1>1, <1>2, <1>4, <1>5, <1>6, <1>7
<1> QED
  BY <1>8 DEF before, after

LEMMA CountStep ==
    ASSUME TypeOK, CountInv, [Next]_vars
    PROVE  CountInv'
<1> USE DEF OpenPrompts
<1>1. CASE RoundRobin
  BY <1>1 DEF CountInv, Building, RoundRobin
<1>2. CASE StartTree
  <2>1. \A n \in Nodes : counts'[n] = Cardinality(Under[n] \cap available')
    <3> TAKE n \in Nodes
    <3>1. Under[n] \cap Arms = Under[n]
      BY NodeFacts
    <3> QED
      BY <1>2, <3>1 DEF StartTree, InitialCounts
  <2>2. \A n : Owed(n)' = 0
    BY <1>2 DEF Owed, StartTree
  <2>3. available' = Arms
    BY <1>2 DEF StartTree
  <2>4. \A n \in Nodes : Cardinality(Under[n] \cap available') \in Nat
    BY <2>3, OpenFinite
  <2> QED
    BY <2>1, <2>2, <2>4, NodeFacts DEF CountInv, AboveLeaves
<1>3. CASE Descend
  <2>1. \A n : Owed(n)' = 0 /\ Owed(n) = 0
    BY <1>3 DEF Owed, Descend
  <2>2. pc = "descend" /\ counts' = counts /\ available' = available
    BY <1>3 DEF Descend
  <2> QED
    BY <2>1, <2>2 DEF CountInv, Building, AboveLeaves
<1>4. CASE PickPrompt
  <2>1. CASE pc' = "raised"
    BY <2>1 DEF CountInv, Building
  <2>2. CASE \E p \in Arms :
              /\ p \in Prompts(level) \cap available
              /\ samples' = Append(samples, p)
              /\ available' = available \ {p}
              /\ counts' = [counts EXCEPT ![level] = counts[level] - 1]
              /\ node' = level
              /\ pc' = "climb"
    <3>1. PICK p \in Prompts(level) \cap available :
              /\ available' = available \ {p}
              /\ counts' = [counts EXCEPT ![level] = counts[level] - 1]
              /\ node' = level
              /\ pc' = "climb"
      BY <2>2
    <3>2. pc = "descend" /\ level \in Leaves /\ level \in Nodes
      BY <1>4 DEF PickPrompt, Leaves
    <3>3. \A n : Owed(n) = 0
      BY <3>2 DEF Owed
    <3>4. \A n : Owed(n)' = IF level \in DOMAIN ChildToParent
                               /\ n = ChildToParent[level] THEN 1 ELSE 0
      BY <3>1 DEF Owed
    <3>5. \A n \in Internal : Owed(n)' = IF level \in Children[n] THEN 1 ELSE 0
      BY <3>2, <3>4, ParentFacts
    <3>6. \A n \in Nodes : counts'[n] = IF n = level THEN counts[n] - 1 ELSE counts[n]
      BY <3>1, <3>2 DEF TypeOK
    <3>7. \A l \in Leaves : counts'[l] = Cardinality(Under[l] \cap available')
      <4> TAKE l \in Leaves
      <4>1. counts[l] = Cardinality(Under[l] \cap available) /\ l \in Nodes
        BY <3>2 DEF CountInv, Building, Leaves
      <4> DEFINE before == Cardinality(Under[l] \cap available)
                 after  == Cardinality(Under[l] \cap available')
      <4>2. /\ before \in Nat /\ after \in Nat
            /\ l = level => after = before - 1
            /\ l # level => after = before
        BY <4>1, <3>1, <3>2, PickOpen
      <4> HIDE DEF before, after
      <4>3. counts'[l] = after
        BY <4>1, <4>2, <3>6 DEF before
      <4> QED
        BY <4>3 DEF after
    <3>8. \A n \in Internal :
             /\ counts'[n] >= Cardinality(Under[n] \cap available') + Owed(n)'
             /\ AboveLeaves(n) =>
                   counts'[n] = Cardinality(Under[n] \cap available') + Owed(n)'
      <4> TAKE n \in Internal
      <4> DEFINE before == Cardinality(Under[n] \cap available)
                 after  == Cardinality(Under[n] \cap available')
      <4>1. n \in Nodes /\ n # level /\ counts'[n] = counts[n] /\ counts[n] \in Int
        BY <3>2, <3>6, NodeFacts DEF Leaves, TypeOK
      <4>2. counts[n] >= before /\ (AboveLeaves(n) => counts[n] = before)
        <5>1. /\ counts[n] >= before + Owed(n)
              /\ AboveLeaves(n) => counts[n] = before + Owed(n)
          BY <3>2 DEF CountInv, Building
        <5>2. before \in Nat
          BY <4>1, OpenFinite DEF TypeOK
        <5> HIDE DEF before
        <5> QED
          BY <5>1, <5>2, <3>3, <4>1
      <4>3. /\ before \in Nat /\ after \in Nat
            /\ after <= before
            /\ level \in Children[n] => after = before - 1
            /\ AboveLeaves(n) /\ level \notin Children[n] => after = before
        BY <3>1, <3>2, <4>1, PickOpen
      <4> HIDE DEF before, after
      <4>4. /\ counts'[n] >= after + Owed(n)'
            /\ AboveLeaves(n) => counts'[n] = after + Owed(n)'
        BY <3>5, <4>1, <4>2, <4>3
      <4> QED
        BY <4>4 DEF after
    <3> QED
      BY <3>7, <3>8 DEF CountInv, AboveLeaves
  <2> QED
    BY <1>4, <2>1, <2>2, PickCases
<1>5. CASE Climb
  <2>1. /\ pc = "climb" /\ pc' = "climb" /\ available' = available
        /\ node \in DOMAIN ChildToParent /\ node' = ChildToParent[node]
        /\ counts' = [counts EXCEPT ![node'] = @ - 1]
    BY <1>5 DEF Climb
  <2>2. /\ node' \in Internal /\ node' \notin DOMAIN ChildToParent
        /\ node' \in Nodes /\ node' \notin Leaves
    BY <2>1, ParentFacts, NodeFacts DEF Leaves
  <2>3. \A n : Owed(n)' = 0
    BY <2>2 DEF Owed
  <2>4. \A n : Owed(n) = IF n = node' THEN 1 ELSE 0
    BY <2>1 DEF Owed
  <2>5. \A n \in Nodes : counts'[n] = IF n = node' THEN counts[n] - 1 ELSE counts[n]
    BY <2>1, <2>2 DEF TypeOK
  <2>6. \A l \in Leaves : counts'[l] = Cardinality(Under[l] \cap available')
    BY <2>1, <2>2, <2>5, NodeFacts DEF CountInv, Building
  <2>7. \A n \in Internal :
           /\ counts'[n] >= Cardinality(Under[n] \cap available') + Owed(n)'
           /\ AboveLeaves(n) =>
                 counts'[n] = Cardinality(Under[n] \cap available') + Owed(n)'
    <3> TAKE n \in Internal
    <3> DEFINE open == Cardinality(Under[n] \cap available)
    <3>1. n \in Nodes /\ counts[n] \in Int /\ open \in Nat
      BY NodeFacts, OpenFinite DEF TypeOK
    <3>2. /\ counts[n] >= open + Owed(n)
          /\ AboveLeaves(n) => counts[n] = open + Owed(n)
      BY <2>1 DEF CountInv, Building
    <3>3. open = Cardinality(Under[n] \cap available')
      BY <2>1
    <3> HIDE DEF open
    <3>4. /\ counts'[n] >= open + Owed(n)'
          /\ AboveLeaves(n) => counts'[n] = open + Owed(n)'
      BY <2>3, <2>4, <2>5, <3>1, <3>2
    <3> QED
      BY <3>3, <3>4
  <2> QED
    BY <2>6, <2>7 DEF CountInv, AboveLeaves
<1>6. CASE ClimbDone
  <2>1. \A n : Owed(n)' = 0 /\ Owed(n) = 0
    BY <1>6 DEF Owed, ClimbDone
  <2> QED
    BY <1>6, <2>1 DEF CountInv, Building, ClimbDone
<1>7. CASE TopK
  BY <1>7 DEF CountInv, Building, TopK
<1>8. CASE Train
  BY <1>8 DEF CountInv, Building, Train
<1>9. CASE UNCHANGED vars
  BY <1>9 DEF CountInv, Building, Owed, vars
<1> QED
  BY <1>1, <1>2, <1>3, <1>4, <1>5, <1>6, <1>7, <1>8, <1>9 DEF Next, SampleBatch, FlatBatch

\* A descent enters a child only while its count is positive.
LEMMA DescentStep ==
    ASSUME TypeOK, DescentInv, [Next]_vars
    PROVE  DescentInv'
<1>1. CASE Descend
  BY <1>1 DEF DescentInv, Descend, OpenChildren
<1>2. CASE StartTree \/ ClimbDone
  BY <1>2 DEF DescentInv, StartTree, ClimbDone
<1>3. CASE RoundRobin \/ TopK \/ Train \/ Climb
  BY <1>3 DEF DescentInv, RoundRobin, TopK, Train, Climb
<1>4. CASE PickPrompt
  BY <1>4, PickCases DEF DescentInv
<1>5. CASE UNCHANGED vars
  BY <1>5 DEF DescentInv, vars
<1> QED
  BY <1>1, <1>2, <1>3, <1>4, <1>5 DEF Next, SampleBatch, FlatBatch

\* Where a descent stands, there is a prompt to take.
LEMMA LevelOffers ==
    ASSUME TypeOK, BatchInv, CountInv, DescentInv, pc = "descend",
           level \in Leaves \/ level = Root \/ AboveLeaves(level)
    PROVE  OpenPrompts(level) # {}
<1>1. CASE level = Root
  <2>1. Cardinality(available) > 0
    BY ArmsFinite, SamplerAssumption DEF BatchInv, Building, TypeOK
  <2>2. Under[Root] \cap available = available
    BY UnderAssumption DEF TypeOK
  <2>3. available # {}
    BY <2>1, FS_EmptySet
  <2> QED
    BY <1>1, <2>2, <2>3 DEF OpenPrompts
<1>2. CASE level # Root
  <2>1. counts[level] > 0
    BY <1>2 DEF DescentInv
  <2>2. counts[level] = Cardinality(OpenPrompts(level))
    <3>1. Owed(level) = 0
      BY DEF Owed
    <3>2. Cardinality(OpenPrompts(level)) \in Nat
      BY OpenFinite DEF OpenPrompts, TypeOK
    <3> QED
      BY <1>2, <3>1, <3>2 DEF CountInv, Building, AboveLeaves
  <2> QED
    BY <2>1, <2>2, OpenFinite DEF OpenPrompts, TypeOK
<1> QED
  BY <1>1, <1>2

\* A node that offers a prompt has an open child.
LEMMA OfferIsOpen ==
    ASSUME TypeOK, CountInv, pc = "descend", level \in Internal,
           OpenPrompts(level) # {}
    PROVE  OpenChildren(level) # {}
<1>1. PICK c \in Children[level] : OpenPrompts(c) # {}
  BY UnderAssumption DEF OpenPrompts
<1>2. c \in Nodes
  BY NodeFacts
<1>3. Cardinality(OpenPrompts(c)) > 0 /\ Cardinality(OpenPrompts(c)) \in Nat
  BY <1>1, <1>2, OpenFinite DEF OpenPrompts, TypeOK
<1>4. counts[c] >= Cardinality(OpenPrompts(c))
  <2>1. Owed(c) = 0
    BY DEF Owed
  <2>2. counts[c] \in Int
    BY <1>2 DEF TypeOK
  <2> QED
    BY <1>2, <1>3, <2>1, <2>2, NodeFacts DEF CountInv, Building
<1>5. counts[c] > 0
  BY <1>2, <1>3, <1>4 DEF TypeOK
<1> QED
  BY <1>5 DEF OpenChildren

LEMMA ErrorStep ==
    ASSUME IInv, [Next]_vars
    PROVE  ErrorInv'
<1> USE DEF ErrorInv, StuckOnlyBetween
<1>1. CASE RoundRobin
  BY <1>1 DEF IInv, RoundRobin, AboveLeaves
<1>2. CASE StartTree
  BY <1>2 DEF IInv, StartTree, AboveLeaves
<1>3. CASE Descend
  <2>1. CASE OpenChildren(level) # {}
    BY <1>3, <2>1 DEF IInv, Descend, AboveLeaves
  <2>2. CASE OpenChildren(level) = {}
    <3>1. /\ pc = "descend" /\ level \in Internal /\ level' = level
          /\ pc' = "raised" /\ error' = "no available children"
      BY <1>3, <2>2 DEF Descend
    <3>2. OpenPrompts(level) = {}
      BY <2>2, <3>1, OfferIsOpen DEF IInv
    <3>3. level # Root /\ ~AboveLeaves(level)
      BY <3>1, <3>2, LevelOffers DEF IInv
    <3> QED
      BY <3>1, <3>3 DEF AboveLeaves
  <2> QED
    BY <2>1, <2>2
<1>4. CASE PickPrompt
  <2>1. pc = "descend" /\ level \in Leaves
    BY <1>4 DEF PickPrompt
  <2>2. Prompts(level) \cap available # {}
    BY <2>1, LevelOffers, UnderAssumption DEF IInv, OpenPrompts
  <2>3. UNCHANGED <<error, level>>
    BY <1>4, <2>2, PickCases DEF IInv
  <2> QED
    BY <2>1, <2>3 DEF IInv, AboveLeaves
<1>5. CASE Climb
  BY <1>5 DEF IInv, Climb, AboveLeaves
<1>6. CASE ClimbDone
  BY <1>6 DEF IInv, ClimbDone, AboveLeaves
<1>7. CASE TopK
  BY <1>7 DEF IInv, TopK, AboveLeaves
<1>8. CASE Train
  BY <1>8 DEF IInv, Train, AboveLeaves
<1>9. CASE UNCHANGED vars
  BY <1>9 DEF IInv, vars, AboveLeaves
<1> QED
  BY <1>1, <1>2, <1>3, <1>4, <1>5, <1>6, <1>7, <1>8, <1>9 DEF Next, SampleBatch, FlatBatch
-----------------------------------------------------------------------------
(***************************************************************************)
(* The round-robin pass.  A batch under construction is only ever one of   *)
(* the tree branch, which is not entered before the pass is over.          *)
(***************************************************************************)
PassInv == /\ Building => ~RoundRobinPending
           /\ RoundRobinFresh

\* An ordering of a set lists all of it.
LEMMA OrderingCovers ==
    ASSUME NEW S \in SUBSET Arms, NEW s \in Orderings(S), NEW a \in S
    PROVE  \E i \in 1..Cardinality(S) : s[i] = a
<1> DEFINE n == Cardinality(S)
<1>1. IsFiniteSet(S) /\ n \in Nat
  BY FS_Subset, FS_CardinalityType, TreeAssumption
<1>2. s \in Injection(1..n, S)
  BY DEF Orderings, Injection, IsInjective
<1>3. Cardinality(1..n) = n
  BY <1>1, FS_Interval
<1>4. s \in Surjection(1..n, S)
  BY <1>1, <1>2, <1>3, FS_Injection
<1> QED
  BY <1>4 DEF Surjection

\* A round-robin batch has all of the fresh prompts if they do not fill it.
LEMMA RoundRobinLast ==
    ASSUME sampled \subseteq Arms, RoundRobin,
           ~(Cardinality(Arms \ sampled) >= BatchSize)
    PROVE  Arms \subseteq sampled \cup Batch'
<1> DEFINE fresh == Arms \ sampled
           s == samples'
<1>1. PICK f \in Orderings(fresh), E \in SUBSET sampled :
         \E e \in Orderings(E) : s = f \o e
  BY DEF RoundRobin, OrderedSubsets
<1>2. PICK e \in Orderings(E) : s = f \o e
  BY <1>1
<1>. fresh \in SUBSET Arms /\ E \in SUBSET Arms
  OBVIOUS
<1>3. f \in Seq(Arms) /\ e \in Seq(Arms) /\ Len(f) = Cardinality(fresh)
  BY OrderingFacts, SeqMonotonic
<1>4. Len(f) \in Nat /\ Len(e) \in Nat
  BY <1>3, LenProperties
<1>5. /\ s \in Seq(Arms)
      /\ Len(s) = Len(f) + Len(e)
      /\ \A i \in 1..Len(f) + Len(e) :
            s[i] = IF i <= Len(f) THEN f[i] ELSE e[i - Len(f)]
  BY <1>2, <1>3, ConcatProperties
<1>6. DOMAIN s = 1..Len(f) + Len(e)
  BY <1>5, LenProperties
<1>7. ASSUME NEW a \in fresh PROVE a \in Batch'
  <2>0. \E i \in 1..Cardinality(fresh) : f[i] = a
    BY OrderingCovers
  <2>1. PICK i \in 1..Len(f) : f[i] = a
    BY <1>3, <2>0
  <2>2. i \in DOMAIN s /\ s[i] = a
    BY <1>4, <1>5, <1>6, <2>1
  <2> QED
    BY <2>2 DEF Batch
<1> QED
  BY <1>7

\* A round-robin batch has fresh prompts only, or all of the fresh ones.
LEMMA RoundRobinDraws ==
    ASSUME sampled \subseteq Arms, RoundRobin
    PROVE  Batch' \cap sampled = {} \/ Arms \subseteq sampled \cup Batch'
<1> DEFINE fresh == Arms \ sampled
           s == samples'
<1>1. CASE Cardinality(fresh) >= BatchSize
  <2>1. PICK S \in SUBSET fresh : s \in Orderings(S)
    BY <1>1 DEF RoundRobin, OrderedSubsets
  <2>2. s \in Seq(S)
    BY <2>1, OrderingFacts
  <2>3. \A i \in DOMAIN s : s[i] \in S
    BY <2>2, ElementOfSeq, LenProperties
  <2> QED
    BY <2>3 DEF Batch
<1>2. CASE ~(Cardinality(fresh) >= BatchSize)
  BY <1>2, RoundRobinLast
<1> QED
  BY <1>1, <1>2

LEMMA PassStep ==
    ASSUME TypeOK, PassInv, [Next]_vars
    PROVE  PassInv'
<1> USE DEF PassInv, Building, RoundRobinPending, RoundRobinFresh
<1>1. CASE RoundRobin
  <2>1. pc' = "returned" /\ sampled' = sampled /\ sampled \subseteq Arms
    BY <1>1 DEF RoundRobin, TypeOK
  <2>2. Batch' \subseteq Arms
    <3>1. samples' \in Seq(Arms)
      BY <1>1, <2>1, RoundRobinFacts
    <3> QED
      BY <3>1, ElementOfSeq, LenProperties DEF Batch
  <2>3. Batch' \cap sampled = {} \/ sampled \cup Batch' = Arms
    BY <1>1, <2>1, <2>2, RoundRobinDraws
  <2> QED
    BY <2>1, <2>3
<1>2. CASE StartTree
  BY <1>2 DEF StartTree
<1>3. CASE Descend
  BY <1>3 DEF Descend
<1>4. CASE PickPrompt
  BY <1>4 DEF PickPrompt
<1>5. CASE Climb
  BY <1>5 DEF Climb
<1>6. CASE ClimbDone
  BY <1>6 DEF ClimbDone
<1>7. CASE TopK
  BY <1>7 DEF TopK
<1>8. CASE Train
  BY <1>8 DEF Train
<1>9. CASE UNCHANGED vars
  BY <1>9 DEF vars, Batch
<1> QED
  BY <1>1, <1>2, <1>3, <1>4, <1>5, <1>6, <1>7, <1>8, <1>9 DEF Next, SampleBatch, FlatBatch
-----------------------------------------------------------------------------
(***************************************************************************)
(* The theorems.                                                           *)
(***************************************************************************)
LEMMA InitInv == Init => IInv
<1> SUFFICES ASSUME Init PROVE IInv
  OBVIOUS
<1>1. TypeOK
  BY InitType
<1>2. DOMAIN samples = 1..0
  BY EmptySeq, LenProperties DEF Init
<1> QED
  BY <1>1, <1>2 DEF Init, IInv, BatchInv, BatchUnique, CountInv, DescentInv, ErrorInv,
     Building, StuckOnlyBetween

\* The inductive invariant holds throughout.
LEMMA Inductive == Spec => []IInv
<1>1. Init => IInv
  BY InitInv
<1>2. IInv /\ [Next]_vars => IInv'
  <2> SUFFICES ASSUME IInv, [Next]_vars
               PROVE  IInv'
    OBVIOUS
  <2>1. TypeOK'
    BY StepType DEF IInv
  <2>2. BatchInv'
    BY BatchStep DEF IInv
  <2>3. CountInv'
    BY CountStep DEF IInv
  <2>4. DescentInv'
    BY DescentStep DEF IInv
  <2>5. ErrorInv'
    BY ErrorStep
  <2> QED
    BY <2>1, <2>2, <2>3, <2>4, <2>5 DEF IInv
<1> QED
  BY <1>1, <1>2, PTL DEF Spec

\* No batch ever holds a prompt twice, in any tree and also while the
\* round-robin pass fills up its last batch.
THEOREM BatchIsUnique == Spec => []BatchUnique
<1>1. IInv => BatchUnique
  BY DEF IInv, BatchInv
<1> QED
  BY <1>1, Inductive, PTL

\* A count is never below the number of prompts a subtree still offers:
\* decrementing too few ancestors only ever overestimates.
THEOREM CountsHideNothing == Spec => []CountsNeverHide
<1>1. IInv => CountsNeverHide
  <2> SUFFICES ASSUME IInv, NEW n \in Nodes, pc \in {"descend", "climb"}
               PROVE  counts[n] >= Cardinality(OpenPrompts(n))
    BY DEF CountsNeverHide
  <2>1. Cardinality(OpenPrompts(n)) \in Nat /\ counts[n] \in Int
    BY OpenFinite DEF IInv, TypeOK, OpenPrompts
  <2>2. Owed(n) \in {0, 1}
    BY DEF Owed
  <2>3. CASE n \in Leaves
    BY <2>1, <2>3 DEF IInv, CountInv, Building
  <2>4. CASE n \in Internal
    BY <2>1, <2>2, <2>4 DEF IInv, CountInv, Building
  <2> QED
    BY <2>3, <2>4, NodeFacts
<1> QED
  BY <1>1, Inductive, PTL

\* The counts of the leaves, and of the nodes with only leaves below them,
\* are exact whenever a descent reads them.
THEOREM LowCountsAreExact == Spec => []LowCountsExact
<1>1. IInv => LowCountsExact
  <2> SUFFICES ASSUME IInv, pc = "descend", NEW n \in Nodes,
                      n \in Leaves \/ AboveLeaves(n)
               PROVE  counts[n] = Cardinality(OpenPrompts(n))
    BY DEF LowCountsExact
  <2>1. Owed(n) = 0
    BY DEF Owed
  <2>2. Cardinality(OpenPrompts(n)) \in Nat
    BY OpenFinite DEF IInv, TypeOK, OpenPrompts
  <2> QED
    BY <2>1, <2>2 DEF IInv, CountInv, Building, AboveLeaves
<1> QED
  BY <1>1, Inductive, PTL

\* The round-robin pass repeats a prompt only in the batch that ends it.
THEOREM RoundRobinIsFresh == Spec => []RoundRobinFresh
<1>1. Init => PassInv
  BY DEF Init, PassInv, Building, RoundRobinFresh
<1>2. TypeOK /\ PassInv /\ [Next]_vars => PassInv'
  BY PassStep
<1>3. PassInv => RoundRobinFresh
  BY DEF PassInv
<1> QED
  BY <1>1, <1>2, <1>3, TypeCorrect, PTL DEF Spec

\* A dead end is never at a leaf, and otherwise only between the root and the
\* parents of leaves.
THEOREM StuckIsBetween == Spec => []StuckOnlyBetween
<1>1. IInv => StuckOnlyBetween
  BY DEF IInv, ErrorInv
<1> QED
  BY <1>1, Inductive, PTL

\* In a tree with no internal node below an internal child of the root, no
\* descent meets a dead end: the check at the start of the call is enough.
THEOREM ShallowIsNeverStuck ==
    ASSUME \A n \in Internal \ {Root} : AboveLeaves(n)
    PROVE  Spec => [](error # "no available children")
<1>1. IInv => error # "no available children"
  BY DEF IInv, ErrorInv, StuckOnlyBetween
<1> QED
  BY <1>1, Inductive, PTL
-----------------------------------------------------------------------------
(***************************************************************************)
(* The sampler implements UniqueBatch, for every tree, provided that there *)
(* are prompts enough for a batch: torch slices a short round-robin batch  *)
(* without an error.                                                       *)
(***************************************************************************)

\* Between two calls there is no batch, so the next one starts from none.
IdleInv == pc = "idle" => samples = <<>>

\* A sequence without repetition lists as many prompts as it is long.
LEMMA DistinctSize ==
    ASSUME NEW s \in Seq(Arms), \A i, j \in DOMAIN s : s[i] = s[j] => i = j
    PROVE  /\ {s[i] : i \in DOMAIN s} \in SUBSET Arms
           /\ Cardinality({s[i] : i \in DOMAIN s}) = Len(s)
<1> DEFINE R == {s[i] : i \in DOMAIN s}
<1>1. DOMAIN s = 1..Len(s) /\ Len(s) \in Nat
  BY LenProperties
<1>2. R \in SUBSET Arms
  BY ElementOfSeq, <1>1
<1>3. IsFiniteSet(1..Len(s)) /\ Cardinality(1..Len(s)) = Len(s)
  BY <1>1, FS_Interval
<1>4. s \in [1..Len(s) -> R]
  BY <1>1
<1>5. s \in Injection(1..Len(s), R)
  BY <1>1, <1>4 DEF Injection, IsInjective
<1>6. s \in Surjection(1..Len(s), R)
  BY <1>1, <1>4 DEF Surjection
<1>7. Cardinality(R) = Cardinality(1..Len(s))
  BY <1>3, <1>5, <1>6, FS_Surjection
<1> QED
  BY <1>2, <1>3, <1>7

\* A round-robin batch is full if there are prompts enough.
LEMMA RoundRobinFull ==
    ASSUME sampled \subseteq Arms, RoundRobin, BatchSize <= Cardinality(Arms)
    PROVE  Len(samples') = BatchSize
<1> DEFINE fresh == Arms \ sampled
           rest == AtMost(BatchSize - Cardinality(fresh), sampled)
           s == samples'
<1>. fresh \in SUBSET Arms
  OBVIOUS
<1>1. CASE Cardinality(fresh) >= BatchSize
  <2>1. PICK S \in SUBSET fresh : Cardinality(S) = BatchSize /\ s \in Orderings(S)
    BY <1>1 DEF RoundRobin, OrderedSubsets
  <2> QED
    BY <2>1, OrderingFacts
<1>2. CASE ~(Cardinality(fresh) >= BatchSize)
  <2>1. PICK f \in Orderings(fresh), E \in SUBSET sampled :
           Cardinality(E) = rest /\ \E e \in Orderings(E) : s = f \o e
    BY <1>2 DEF RoundRobin, OrderedSubsets
  <2>2. PICK e \in Orderings(E) : s = f \o e
    BY <2>1
  <2>. E \in SUBSET Arms
    OBVIOUS
  <2>3. /\ f \in Seq(Arms) /\ Len(f) = Cardinality(fresh)
        /\ e \in Seq(Arms) /\ Len(e) = rest
    BY <2>1, OrderingFacts, SeqMonotonic
  <2>4. Len(s) = Len(f) + Len(e)
    BY <2>2, <2>3, ConcatProperties
  <2>5. /\ Cardinality(fresh) = Cardinality(Arms) - Cardinality(Arms \cap sampled)
        /\ Arms \cap sampled = sampled
    BY ArmsFinite, FS_Difference
  <2>6. /\ Cardinality(fresh) \in Nat
        /\ Cardinality(sampled) \in Nat
    BY ArmsFinite, FS_Subset, FS_CardinalityType
  <2>7. rest = BatchSize - Cardinality(fresh)
    BY <2>5, <2>6, <1>2, ArmsFinite, SamplerAssumption DEF AtMost
  <2> QED
    BY <2>3, <2>4, <2>6, <2>7, SamplerAssumption
<1> QED
  BY <1>1, <1>2

LEMMA TopKFull ==
    ASSUME NEW s \in OrderedSubsets(BatchSize, Arms)
    PROVE  Len(s) = BatchSize
<1>1. PICK S \in SUBSET Arms : Cardinality(S) = BatchSize /\ s \in Orderings(S)
  BY DEF OrderedSubsets
<1> QED
  BY <1>1, OrderingFacts

\* UniqueBatch counts as FiniteSets does.
LEMMA SameCardinality ==
    ASSUME NEW S PROVE Promise!Cardinality(S) = Cardinality(S)
BY DEF Promise!Cardinality, Cardinality

\* Every step maps to a step of UniqueBatch, or to none.
LEMMA PromiseStep ==
    ASSUME BatchSize <= Cardinality(Arms),
           TypeOK, BatchInv, IdleInv, TypeOK', BatchUnique', [Next]_vars
    PROVE  [Promise!Next]_(Promise!vars)
<1> DEFINE full == Len(samples') = BatchSize
<1>0. samples \in Seq(Arms) /\ samples' \in Seq(Arms)
  BY DEF TypeOK
<1>1. Batch' \in SUBSET Arms /\ Cardinality(Batch') = Len(samples')
  BY <1>0, DistinctSize DEF BatchUnique, Batch
<1>2. Batch \in SUBSET Arms /\ Cardinality(Batch) = Len(samples)
  BY <1>0, DistinctSize DEF BatchUnique, BatchInv, Batch
<1>3. ASSUME samples = <<>> PROVE Batch = {}
  <2>1. DOMAIN samples = {}
    BY <1>3
  <2> QED
    BY <2>1 DEF Batch
<1>4. ASSUME samples' = <<>> PROVE Batch' = {}
  <2>1. DOMAIN samples' = {}
    BY <1>4
  <2> QED
    BY <2>1 DEF Batch
<1>5. ASSUME UNCHANGED samples PROVE Batch' = Batch
  BY <1>5 DEF Batch
<1>6. ASSUME pc # "returned", pc # "raised", pc' = "returned",
             Batch \subseteq Batch', full
      PROVE  Promise!Next
  BY <1>1, <1>6, SameCardinality DEF Promise!Next, Promise!Deliver, Status
<1>7. ASSUME pc # "returned", pc # "raised", pc' = "raised", Batch' = Batch
      PROVE  Promise!Next
  BY <1>7 DEF Promise!Next, Promise!Fail, Status
<1>8. ASSUME Status' = Status, Batch' = Batch
      PROVE  UNCHANGED Promise!vars
  BY <1>8 DEF Promise!vars
<1>a. CASE RoundRobin
  <2>1. full
    BY <1>a, RoundRobinFull DEF TypeOK
  <2> QED
    BY <1>a, <2>1, <1>3, <1>6 DEF RoundRobin, IdleInv
<1>b. CASE StartTree
  <2>1. Batch = {} /\ Batch' = {} /\ pc = "idle"
    BY <1>b, <1>3, <1>4 DEF StartTree, IdleInv
  <2>2. pc' \in {"raised", "descend"}
    BY <1>b DEF StartTree
  <2> QED
    BY <2>1, <2>2, <1>7, <1>8 DEF Status
<1>c. CASE Descend
  <2>1. pc = "descend" /\ pc' \in {"raised", "descend"} /\ UNCHANGED samples
    BY <1>c DEF Descend
  <2> QED
    BY <2>1, <1>5, <1>7, <1>8 DEF Status
<1>d. CASE PickPrompt
  <2>0. pc = "descend" /\ Len(samples) < BatchSize
    BY <1>d DEF PickPrompt, BatchInv
  <2>1. CASE pc' = "raised" /\ UNCHANGED samples
    BY <2>0, <2>1, <1>5, <1>7
  <2>2. CASE \E p \in Arms : /\ p \in Prompts(level) \cap available
                            /\ samples' = Append(samples, p)
                            /\ pc' = "climb"
    <3>1. PICK p \in available : samples' = Append(samples, p) /\ pc' = "climb"
      BY <2>2
    <3>2. p \in Arms /\ Len(samples) \in Nat
      BY <1>0, <3>1 DEF TypeOK
    <3>3. /\ DOMAIN samples = 1..Len(samples)
          /\ DOMAIN samples' = 1..Len(samples) + 1
          /\ \A i \in 1..Len(samples) : samples'[i] = samples[i]
          /\ samples'[Len(samples) + 1] = p
      BY <1>0, <3>1, <3>2
    <3>4. Batch' = Batch \cup {p}
      BY <3>2, <3>3 DEF Batch
    <3>5. p \notin Batch
      BY <2>0, <3>1 DEF BatchInv, Building, Batch
    <3> QED
      BY <2>0, <3>1, <3>2, <3>4, <3>5, <1>2, SameCardinality DEF Promise!Next, Promise!Grow, Status
  <2> QED
    BY <1>d, <2>1, <2>2, PickCases
<1>e. CASE Climb
  BY <1>e, <1>5, <1>8 DEF Climb, Status
<1>f. CASE ClimbDone
  <2>1. pc = "climb" /\ UNCHANGED samples
    BY <1>f DEF ClimbDone
  <2>2. CASE pc' = "returned" /\ full
    BY <2>1, <2>2, <1>5, <1>6
  <2>3. CASE pc' = "descend"
    BY <2>1, <2>3, <1>5, <1>8 DEF Status
  <2> QED
    BY <1>f, <2>2, <2>3 DEF ClimbDone
<1>g. CASE TopK
  <2>0. ~(Cardinality(Arms) < BatchSize)
    BY ArmsFinite, SamplerAssumption
  <2>1. pc' = "returned" /\ samples' \in OrderedSubsets(BatchSize, Arms)
    BY <1>g, <2>0 DEF TopK
  <2>2. full
    BY <2>1, TopKFull
  <2> QED
    BY <1>g, <2>1, <2>2, <1>3, <1>6 DEF TopK, IdleInv
<1>h. CASE Train
  <2>1. pc = "returned" /\ pc' = "idle" /\ Batch' = {}
    BY <1>h, <1>4 DEF Train
  <2> QED
    BY <2>1 DEF Promise!Next, Promise!Take, Status
<1>i. CASE UNCHANGED vars
  BY <1>i, <1>5, <1>8 DEF vars, Status
<1> QED
  BY <1>a, <1>b, <1>c, <1>d, <1>e, <1>f, <1>g, <1>h, <1>i
     DEF Next, SampleBatch, FlatBatch

LEMMA IdleStep == IdleInv /\ [Next]_vars => IdleInv'
BY DEF IdleInv, Next, SampleBatch, FlatBatch, RoundRobin, StartTree, Descend,
       PickPrompt, Climb, ClimbDone, TopK, Train, vars

\* sample_batch hands over a full batch of distinct prompts, or raises once and
\* for all, whatever the tree and however the choices fall.
THEOREM SamplerDelivers ==
    ASSUME BatchSize <= Cardinality(Arms)
    PROVE  Spec => DeliversUniqueBatch
<1>1. Init => Promise!Init
  <2> SUFFICES ASSUME Init PROVE Promise!Init
    OBVIOUS
  <2>1. Batch = {}
    BY DEF Init, Batch
  <2> QED
    BY <2>1 DEF Init, Promise!Init, Status
<1>2. Init => IdleInv
  BY DEF Init, IdleInv
<1>3. IdleInv /\ [Next]_vars => IdleInv'
  BY IdleStep
<1>4. IInv /\ IInv' /\ IdleInv /\ [Next]_vars => [Promise!Next]_(Promise!vars)
  BY PromiseStep DEF IInv, BatchInv
<1> QED
  BY <1>1, <1>2, <1>3, <1>4, Inductive, PTL DEF Spec, DeliversUniqueBatch, Promise!Spec

-----------------------------------------------------------------------------
(***************************************************************************)
(* The training loop.                                                      *)
(***************************************************************************)

\* The arms of the batch that have been updated.
Updated == {samples[i] : i \in 1..pos}

LoopInv ==
    /\ TypeOK
    /\ BatchInv
    /\ curriculum \in BOOLEAN
    /\ globalSteps \in 1..TotalSteps
    /\ pos \in 0..Len(samples)
    /\ completion \in 0..TotalSteps
    /\ outcome \in {"running", "index error", "finished"}
    /\ pc # "returned" => pos = 0 /\ outcome = "running"
    /\ Updated \subseteq sampled

\* The histories agree with the flags, and no arm is pulled twice in a step.
PullInv ==
    /\ pulls \in [Arms -> Nat]
    /\ gentle \in [Arms -> Nat]
    /\ lastPull \in [Arms -> Nat]
    /\ \A a \in Arms :
          /\ pulls[a] = 0 <=> a \notin sampled
          /\ gentle[a] <= pulls[a]
          /\ pulls[a] <= globalSteps
          /\ a \notin Updated => pulls[a] <= globalSteps - 1
          /\ lastPull[a] <= globalSteps

\* staleness, also halfway a step: an updated arm has the age -1.
StaleInv ==
    /\ staleness \in [Arms -> Int]
    /\ \A a \in Arms :
          staleness[a] = IF ~curriculum THEN 0
                         ELSE IF outcome = "running" THEN globalSteps - 1 - lastPull[a]
                         ELSE globalSteps - lastPull[a]

LambdaInv ==
    /\ lambda \in [Arms -> Nat]
    /\ LambdaBounded
    /\ \A a \in Arms : pulls[a] = 0 => lambda[a] = One

\* While the pass is unfinished, an arm of the batch that was seen before
\* comes after all the arms that were not.
OldLast(s, seen) ==
    \A i \in DOMAIN s : s[i] \in seen => Arms \subseteq seen \cup {s[j] : j \in 1..i - 1}

GentleInv ==
    /\ GentleOnceAndFirst
    /\ Building => ~RoundRobinPending
    /\ pc = "returned" /\ RoundRobinPending =>
          \A i \in DOMAIN samples :
             i > pos /\ samples[i] \in sampled =>
                Arms \subseteq sampled \cup {samples[j] : j \in 1..i - 1}

FitInv == LoopInv /\ PullInv /\ StaleInv /\ LambdaInv /\ GentleInv

LEMMA StepNumber ==
    ASSUME LoopInv
    PROVE  globalSteps \in Nat /\ TotalSteps \in Nat /\ globalSteps <= TotalSteps
                              /\ 1 <= globalSteps
<1>1. globalSteps \in 1..TotalSteps
  BY DEF LoopInv
<1>2. TotalSteps \in Nat
  BY FitLoopAssumption
<1> QED
  BY <1>1, <1>2
-----------------------------------------------------------------------------
(***************************************************************************)
(* The steps of the sampler.                                               *)
(***************************************************************************)

\* The order of a round-robin batch.
LEMMA RoundRobinOrder ==
    ASSUME sampled \subseteq Arms, RoundRobin
    PROVE  OldLast(samples', sampled)
<1> DEFINE fresh == Arms \ sampled
           s == samples'
<1> SUFFICES ASSUME NEW i \in DOMAIN s, s[i] \in sampled, NEW a \in fresh
             PROVE  \E j \in 1..i - 1 : s[j] = a
  BY DEF OldLast
<1>1. CASE Cardinality(fresh) >= BatchSize
  <2>1. PICK S \in SUBSET fresh : s \in Orderings(S)
    BY <1>1 DEF RoundRobin, OrderedSubsets
  <2>2. s \in Seq(S)
    BY <2>1, OrderingFacts
  <2>3. s[i] \in S
    BY <2>2, ElementOfSeq, LenProperties
  <2> QED
    BY <2>3
<1>2. CASE ~(Cardinality(fresh) >= BatchSize)
  <2>1. PICK f \in Orderings(fresh), E \in SUBSET sampled :
           \E e \in Orderings(E) : s = f \o e
    BY <1>2 DEF RoundRobin, OrderedSubsets
  <2>2. PICK e \in Orderings(E) : s = f \o e
    BY <2>1
  <2>. fresh \in SUBSET Arms /\ E \in SUBSET Arms
    OBVIOUS
  <2>3. /\ f \in Seq(Arms) /\ e \in Seq(Arms) /\ Len(f) = Cardinality(fresh)
        /\ f \in Seq(fresh)
    BY OrderingFacts, SeqMonotonic
  <2>4. Len(f) \in Nat /\ Len(e) \in Nat
    BY <2>3, LenProperties
  <2>5. /\ s \in Seq(Arms)
        /\ Len(s) = Len(f) + Len(e)
        /\ \A k \in 1..Len(f) + Len(e) :
              s[k] = IF k <= Len(f) THEN f[k] ELSE e[k - Len(f)]
    BY <2>2, <2>3, ConcatProperties
  <2>6. i \in 1..Len(f) + Len(e)
    BY <2>5, LenProperties
  <2>7. ~(i <= Len(f))
    <3> SUFFICES ASSUME i <= Len(f) PROVE FALSE
      OBVIOUS
    <3>1. i \in 1..Len(f) /\ s[i] = f[i]
      BY <2>4, <2>5, <2>6
    <3>2. f[i] \in fresh
      BY <2>3, <3>1, ElementOfSeq
    <3> QED
      BY <3>1, <3>2
  <2>8. \E j \in 1..Cardinality(fresh) : f[j] = a
    BY OrderingCovers
  <2>9. PICK j \in 1..Len(f) : f[j] = a
    BY <2>3, <2>8
  <2>10. j \in 1..Len(f) + Len(e) /\ j <= Len(f) /\ j \in 1..i - 1
    BY <2>4, <2>6, <2>7, <2>9
  <2>11. s[j] = a
    BY <2>5, <2>9, <2>10
  <2> QED
    BY <2>10, <2>11
<1> QED
  BY <1>1, <1>2

\* What every step of the sampler leaves alone.
LEMMA SamplerFrame ==
    ASSUME SampleBatch
    PROVE  /\ pc \in {"idle", "descend", "climb"}
           /\ sampled' = sampled
           /\ Next
BY DEF SampleBatch, FlatBatch, StartTree, Descend, PickPrompt, Climb, ClimbDone,
       RoundRobin, TopK, Next

LEMMA SampleStep ==
    ASSUME FitInv, Sample
    PROVE  FitInv'
<1> USE DEF FitInv
<1>1. SampleBatch /\ UNCHANGED loopVars
  BY DEF Sample
<1>2. /\ pc \in {"idle", "descend", "climb"} /\ sampled' = sampled
      /\ Next /\ TypeOK /\ BatchInv
  BY <1>1, SamplerFrame DEF LoopInv
<1>3. /\ UNCHANGED <<curriculum, globalSteps, pos, staleness, lambda, completion>>
      /\ UNCHANGED <<outcome, pulls, gentle, lastPull>>
      /\ pos = 0 /\ outcome = "running"
  BY <1>1, <1>2 DEF loopVars, LoopInv
<1>4. TypeOK' /\ BatchInv'
  BY <1>2, StepType, BatchStep
<1>5. LoopInv'
  <2>1. Len(samples') \in Nat
    BY <1>4, LenProperties DEF TypeOK
  <2>2. Updated' = {}
    BY <1>3 DEF Updated
  <2> QED
    BY <1>3, <1>4, <2>1, <2>2 DEF LoopInv
<1>6. Updated = {} /\ Updated' = {}
  BY <1>3 DEF Updated
<1>7. PullInv' /\ StaleInv' /\ LambdaInv'
  BY <1>2, <1>3, <1>6 DEF PullInv, StaleInv, LambdaInv, LambdaBounded
<1>8. GentleOnceAndFirst'
  BY <1>3 DEF GentleInv, GentleOnceAndFirst
<1>9. GentleInv'
  <2>1. CASE RoundRobin
    <3>1. OldLast(samples', sampled) /\ pc' = "returned"
      BY <1>2, <2>1, RoundRobinOrder DEF TypeOK, RoundRobin
    <3> QED
      BY <1>2, <1>3, <1>8, <3>1 DEF GentleInv, OldLast, Building
  <2>2. CASE ~RoundRobin
    <3>1. ~RoundRobinPending
      BY <1>1, <2>2
         DEF SampleBatch, FlatBatch, StartTree, Descend, PickPrompt, Climb, ClimbDone,
             GentleInv, Building
    <3> QED
      BY <1>2, <1>8, <3>1 DEF GentleInv, RoundRobinPending
  <2> QED
    BY <2>1, <2>2
<1> QED
  BY <1>5, <1>7, <1>9
-----------------------------------------------------------------------------
(***************************************************************************)
(* The update of one arm.                                                  *)
(***************************************************************************)

\* The arm that Update takes has not been updated in this step.
LEMMA NextArm ==
    ASSUME FitInv, Update
    PROVE  /\ samples[pos + 1] \in Arms
           /\ samples[pos + 1] \notin Updated
           /\ pos + 1 \in DOMAIN samples
           /\ DOMAIN samples = 1..Len(samples)
           /\ Len(samples) \in Nat
           /\ pos \in Nat
           /\ Updated' = Updated \cup {samples[pos + 1]}
<1>1. /\ samples \in Seq(Arms) /\ BatchUnique /\ pos \in 0..Len(samples)
      /\ pos < Len(samples) /\ samples' = samples /\ pos' = pos + 1
  BY DEF FitInv, LoopInv, Update, TypeOK, BatchInv
<1>2. Len(samples) \in Nat /\ DOMAIN samples = 1..Len(samples)
  BY <1>1, LenProperties
<1>3. pos \in Nat /\ pos + 1 \in 1..Len(samples)
  BY <1>1, <1>2
<1>4. samples[pos + 1] \in Arms
  BY <1>1, <1>3, ElementOfSeq
<1>5. \A i \in 1..pos : i \in DOMAIN samples /\ i # pos + 1
  BY <1>2, <1>3
<1>6. samples[pos + 1] \notin Updated
  BY <1>1, <1>2, <1>3, <1>5 DEF Updated, BatchUnique
<1>7. 1..pos + 1 = (1..pos) \cup {pos + 1}
  BY <1>3
<1> QED
  BY <1>1, <1>2, <1>3, <1>4, <1>6, <1>7 DEF Updated

\* clamp(min, max).
LEMMA ClampBounds ==
    ASSUME NEW x \in Nat
    PROVE  /\ Clamp(x, LambdaMin, LambdaMax) \in Nat
           /\ Clamp(x, LambdaMin, LambdaMax) <= LambdaMax
BY FitLoopAssumption DEF Clamp

LEMMA AfterFullBounds ==
    ASSUME NEW l \in Nat, NEW k \in AfterFull(l)
    PROVE  k \in Nat /\ k <= LambdaMax
<1>1. \A d \in Decayed(l) : d \in Nat
  BY ClampBounds DEF Decayed
<1> QED
  BY <1>1, ClampBounds, FitLoopAssumption DEF AfterFull

LEMMA UpdateStep ==
    ASSUME FitInv, Update
    PROVE  FitInv'
<1> DEFINE a == samples[pos + 1]
<1> USE DEF FitInv
<1>1. /\ a \in Arms /\ a \notin Updated
      /\ pos + 1 \in DOMAIN samples /\ DOMAIN samples = 1..Len(samples)
      /\ Len(samples) \in Nat /\ pos \in Nat
      /\ Updated' = Updated \cup {a}
  BY NextArm
<1>2. /\ pc = "returned" /\ outcome = "running" /\ pos < Len(samples)
      /\ pos' = pos + 1
      /\ sampled' = sampled \cup {a}
      /\ pulls' = [pulls EXCEPT ![a] = @ + 1]
      /\ lastPull' = [lastPull EXCEPT ![a] = globalSteps]
      /\ staleness' = IF curriculum THEN [staleness EXCEPT ![a] = -1] ELSE staleness
      /\ UNCHANGED <<pc, samples, available, counts, level, node, error,
                     curriculum, globalSteps, completion, outcome>>
  BY DEF Update
<1>3. \/ /\ curriculum /\ RoundRobinCompleted
         /\ \E l \in AfterFull(lambda[a]) : lambda' = [lambda EXCEPT ![a] = l]
         /\ gentle' = gentle
      \/ /\ curriculum /\ ~RoundRobinCompleted
         /\ lambda' = [lambda EXCEPT ![a] = @ + One]
         /\ gentle' = [gentle EXCEPT ![a] = @ + 1]
      \/ /\ ~curriculum
         /\ lambda' = lambda /\ gentle' = gentle
  BY DEF Update
<1> HIDE DEF a
<1>4. LoopInv'
  <2>1. TypeOK'
    BY <1>1, <1>2 DEF LoopInv, TypeOK
  <2>2. BatchInv'
    BY <1>2 DEF LoopInv, BatchInv, BatchUnique, Building
  <2>3. pos' \in 0..Len(samples')
    BY <1>1, <1>2
  <2>4. Updated' \subseteq sampled'
    BY <1>1, <1>2 DEF LoopInv
  <2>5. globalSteps' \in 1..TotalSteps /\ completion' \in 0..TotalSteps
    BY <1>2 DEF LoopInv
  <2> QED
    BY <1>2, <2>1, <2>2, <2>3, <2>4, <2>5 DEF LoopInv
<1>5. ~RoundRobinCompleted => pulls[a] = 0
  <2> SUFFICES ASSUME ~RoundRobinCompleted, a \in sampled PROVE FALSE
    BY <1>1 DEF PullInv
  <2>1. RoundRobinPending
    BY DEF RoundRobinCompleted, RoundRobinPending
  <2>2. Arms \subseteq sampled \cup {samples[j] : j \in 1..(pos + 1) - 1}
    BY <1>1, <1>2, <2>1 DEF GentleInv, a
  <2>3. (pos + 1) - 1 = pos
    BY <1>1
  <2> QED
    BY <2>1, <2>2, <2>3 DEF Updated, RoundRobinPending, LoopInv, TypeOK
<1>6. PullInv'
  <2>1. gentle' \in [Arms -> Nat] /\ \A b \in Arms : gentle'[b] <= pulls'[b]
    <3>1. \/ gentle' = gentle
          \/ gentle' = [gentle EXCEPT ![a] = @ + 1]
      BY <1>3
    <3>2. /\ gentle \in [Arms -> Nat] /\ pulls \in [Arms -> Nat]
          /\ \A b \in Arms : gentle[b] <= pulls[b]
      BY DEF PullInv
    <3> QED
      BY <1>1, <1>2, <3>1, <3>2
  <2>2. globalSteps \in Nat
    BY StepNumber
  <2>3. ASSUME NEW b \in Arms
        PROVE  /\ pulls[b] \in Nat /\ lastPull[b] \in Nat
               /\ pulls[b] <= globalSteps /\ lastPull[b] <= globalSteps
    BY DEF PullInv
  <2>4. pulls' \in [Arms -> Nat] /\ lastPull' \in [Arms -> Nat]
    BY <1>1, <1>2, <2>2 DEF PullInv
  <2>5. ASSUME NEW b \in Arms
        PROVE  /\ pulls'[b] = 0 <=> b \notin sampled'
               /\ pulls'[b] <= globalSteps'
               /\ b \notin Updated' => pulls'[b] <= globalSteps' - 1
               /\ lastPull'[b] <= globalSteps'
    <3>1. CASE b = a
      <4>1. pulls'[b] = pulls[b] + 1 /\ lastPull'[b] = globalSteps
        BY <1>2, <3>1 DEF PullInv
      <4>2. a \notin Updated => pulls[b] <= globalSteps - 1
        BY <3>1 DEF PullInv
      <4>3. globalSteps' = globalSteps /\ b \in sampled' /\ b \in Updated'
        BY <1>1, <1>2, <3>1
      <4>4. pulls[b] <= globalSteps - 1
        BY <1>1, <4>2
      <4>5. pulls'[b] # 0 /\ pulls'[b] <= globalSteps'
        BY <2>2, <2>3, <4>1, <4>3, <4>4
      <4>6. lastPull'[b] <= globalSteps'
        BY <2>2, <4>1, <4>3
      <4> QED
        BY <4>3, <4>5, <4>6
    <3>2. CASE b # a
      <4>1. pulls'[b] = pulls[b] /\ lastPull'[b] = lastPull[b]
        BY <1>2, <3>2 DEF PullInv
      <4>2. globalSteps' = globalSteps /\ (b \in sampled' <=> b \in sampled)
        BY <1>1, <1>2, <3>2
      <4>3. b \in Updated' <=> b \in Updated
        BY <1>1, <1>2, <3>2
      <4>4. /\ pulls[b] = 0 <=> b \notin sampled
            /\ b \notin Updated => pulls[b] <= globalSteps - 1
        BY DEF PullInv
      <4>5. pulls'[b] <= globalSteps' /\ lastPull'[b] <= globalSteps'
        BY <2>3, <4>1, <4>2
      <4>6. b \notin Updated' => pulls'[b] <= globalSteps' - 1
        BY <4>1, <4>2, <4>3, <4>4
      <4>7. pulls'[b] = 0 <=> b \notin sampled'
        BY <4>1, <4>2, <4>4
      <4> QED
        BY <4>5, <4>6, <4>7
    <3> QED
      BY <3>1, <3>2
  <2> QED
    BY <2>1, <2>4, <2>5 DEF PullInv
<1>7. StaleInv'
  <2>1. globalSteps \in Nat
    BY StepNumber
  <2> QED
    BY <1>1, <1>2, <2>1 DEF StaleInv, PullInv
<1>8. LambdaInv'
  <2>1. CASE curriculum /\ RoundRobinCompleted
    <3>1. PICK l \in AfterFull(lambda[a]) : lambda' = [lambda EXCEPT ![a] = l]
      BY <1>3, <2>1
    <3>2. l \in Nat /\ l <= LambdaMax
      BY <1>1, <3>1, AfterFullBounds DEF LambdaInv
    <3> QED
      BY <1>1, <1>2, <3>1, <3>2 DEF LambdaInv, LambdaBounded, PullInv
  <2>2. CASE curriculum /\ ~RoundRobinCompleted
    <3>1. lambda' = [lambda EXCEPT ![a] = @ + One] /\ lambda[a] = One
      BY <1>1, <1>3, <1>5, <2>2 DEF LambdaInv
    <3>2. One + One \in Nat /\ One + One <= LambdaMax
      BY FitLoopAssumption
    <3>3. lambda' \in [Arms -> Nat] /\ LambdaBounded'
      BY <1>1, <3>1, <3>2 DEF LambdaInv, LambdaBounded
    <3>4. pulls'[a] # 0
      BY <1>1, <1>2 DEF PullInv
    <3>5. \A b \in Arms : b # a => pulls'[b] = pulls[b] /\ lambda'[b] = lambda[b]
      BY <1>2, <3>1 DEF PullInv, LambdaInv
    <3> QED
      BY <3>3, <3>4, <3>5 DEF LambdaInv
  <2>3. CASE ~curriculum
    BY <1>1, <1>2, <1>3, <2>3 DEF LambdaInv, LambdaBounded, PullInv
  <2> QED
    BY <2>1, <2>2, <2>3
<1>9. GentleOnceAndFirst'
  <2> SUFFICES ASSUME RoundRobinInit, curriculum
               PROVE  \A b \in Arms : gentle'[b] = IF pulls'[b] = 0 THEN 0 ELSE 1
    BY <1>2 DEF GentleOnceAndFirst
  <2>1. \A b \in Arms : gentle[b] = IF pulls[b] = 0 THEN 0 ELSE 1
    BY DEF GentleInv, GentleOnceAndFirst
  <2>2. CASE RoundRobinCompleted
    <3>1. pulls[a] # 0
      BY <1>1, <2>2 DEF RoundRobinCompleted, PullInv
    <3> QED
      BY <1>1, <1>2, <1>3, <2>1, <2>2, <3>1 DEF PullInv
  <2>3. CASE ~RoundRobinCompleted
    BY <1>1, <1>2, <1>3, <1>5, <2>1, <2>3 DEF PullInv
  <2> QED
    BY <2>2, <2>3
<1>10. GentleInv'
  <2>1. ~Building'
    BY <1>2 DEF Building
  <2> SUFFICES ASSUME RoundRobinPending', NEW i \in DOMAIN samples, i > pos + 1,
                      samples[i] \in sampled'
               PROVE  Arms \subseteq sampled' \cup {samples[j] : j \in 1..i - 1}
    BY <1>2, <1>9, <2>1 DEF GentleInv
  <2>2. samples[i] # a
    <3>1. BatchUnique
      BY DEF LoopInv, BatchInv
    <3>2. i # pos + 1
      BY <1>1
    <3> QED
      BY <1>1, <3>1, <3>2 DEF BatchUnique, a
  <2>3. RoundRobinPending /\ samples[i] \in sampled /\ i > pos
    BY <1>1, <1>2, <2>2 DEF RoundRobinPending, LoopInv, TypeOK
  <2> QED
    BY <1>2, <2>3 DEF GentleInv
<1> QED
  BY <1>4, <1>6, <1>7, <1>8, <1>10
-----------------------------------------------------------------------------
(***************************************************************************)
(* The end of a step.                                                      *)
(***************************************************************************)
LEMMA EndStepFacts ==
    ASSUME FitInv, EndStep
    PROVE  /\ pc = "returned" /\ outcome = "running"
           /\ Updated = Batch
           /\ UNCHANGED <<sampled, available, counts, level, node, error>>
           /\ UNCHANGED <<curriculum, lambda, pulls, gentle, lastPull>>
           /\ staleness' = IF curriculum THEN Aged ELSE staleness
           /\ completion' \in {completion, globalSteps}
           /\ \/ /\ outcome' = "running" /\ globalSteps < TotalSteps
                 /\ pc' = "idle" /\ samples' = <<>> /\ pos' = 0
                 /\ globalSteps' = globalSteps + 1
              \/ /\ outcome' \in {"index error", "finished"}
                 /\ UNCHANGED <<pc, samples, pos, globalSteps>>
<1>1. Updated = Batch
  <2>1. DOMAIN samples = 1..pos
    BY LenProperties DEF FitInv, LoopInv, TypeOK, EndStep, AllUpdated
  <2> QED
    BY <2>1 DEF Updated, Batch
<1>2. globalSteps \in Nat /\ TotalSteps \in Nat /\ globalSteps <= TotalSteps
  BY StepNumber DEF FitInv
<1>3. completion' \in {completion, globalSteps}
  BY DEF EndStep
<1>4. \/ outcome' = "running" /\ globalSteps < TotalSteps
      \/ outcome' \in {"index error", "finished"}
  <2>1. outcome' = IF globalSteps \notin HistoryRows THEN "index error"
                   ELSE IF globalSteps >= TotalSteps THEN "finished"
                   ELSE "running"
    BY DEF EndStep
  <2>2. ~(globalSteps >= TotalSteps) => globalSteps < TotalSteps
    BY <1>2
  <2> QED
    BY <2>1, <2>2
<1> QED
  BY <1>1, <1>3, <1>4 DEF EndStep

LEMMA EndStepStep ==
    ASSUME FitInv, EndStep
    PROVE  FitInv'
<1> USE DEF FitInv
<1>1. /\ UNCHANGED <<sampled, available, counts, level, node, error>>
      /\ UNCHANGED <<curriculum, lambda, pulls, gentle, lastPull>>
      /\ staleness' = IF curriculum THEN Aged ELSE staleness
      /\ completion' \in {completion, globalSteps}
      /\ pc = "returned" /\ outcome = "running"
  BY EndStepFacts
<1>2. /\ globalSteps \in Nat /\ TotalSteps \in Nat
      /\ globalSteps <= TotalSteps /\ 1 <= globalSteps
  BY StepNumber
<1>3. LambdaInv' /\ GentleOnceAndFirst'
  BY <1>1 DEF LambdaInv, LambdaBounded, GentleInv, GentleOnceAndFirst
<1>4. CASE /\ outcome' = "running" /\ globalSteps < TotalSteps
           /\ pc' = "idle" /\ samples' = <<>> /\ pos' = 0
           /\ globalSteps' = globalSteps + 1
  <2>1. /\ samples' \in Seq(Arms) /\ Len(samples') = 0 /\ DOMAIN samples' = 1..0
    BY <1>4, EmptySeq, LenProperties
  <2>2. TypeOK' /\ BatchInv'
    BY <1>1, <1>4, <2>1 DEF LoopInv, TypeOK, BatchInv, BatchUnique, Building
  <2>3. Updated' = {}
    BY <1>4 DEF Updated
  <2>4. LoopInv'
    BY <1>1, <1>2, <1>4, <2>1, <2>2, <2>3 DEF LoopInv
  <2>5. PullInv'
    BY <1>1, <1>2, <1>4, <2>3 DEF PullInv
  <2>6. StaleInv'
    <3>1. lastPull \in [Arms -> Nat]
      BY DEF PullInv
    <3> QED
      BY <1>1, <1>2, <1>4, <3>1 DEF StaleInv, Aged
  <2>7. GentleInv'
    BY <1>3, <1>4 DEF GentleInv, Building
  <2> QED
    BY <1>3, <2>4, <2>5, <2>6, <2>7
<1>5. CASE /\ outcome' \in {"index error", "finished"}
           /\ UNCHANGED <<pc, samples, pos, globalSteps>>
  <2>1. TypeOK' /\ BatchInv'
    BY <1>1, <1>5 DEF LoopInv, TypeOK, BatchInv, BatchUnique, Building
  <2>2. Updated' = Updated
    BY <1>5 DEF Updated
  <2>3. LoopInv'
    <3>1. globalSteps' \in 1..TotalSteps
      BY <1>5 DEF LoopInv
    <3>2. completion \in 0..TotalSteps
      BY DEF LoopInv
    <3>4. globalSteps \in 0..TotalSteps
      BY <1>2
    <3>3. completion' \in 0..TotalSteps
      BY <1>1, <3>2, <3>4
    <3> QED
      BY <1>1, <1>5, <2>1, <2>2, <3>1, <3>3 DEF LoopInv
  <2>4. PullInv'
    BY <1>1, <1>5, <2>2 DEF PullInv
  <2>5. StaleInv'
    <3>1. ~(outcome' = "running") /\ globalSteps' = globalSteps
      BY <1>5
    <3>2. staleness \in [Arms -> Int] /\ lastPull \in [Arms -> Nat]
      BY DEF StaleInv, PullInv
    <3>3. staleness' \in [Arms -> Int]
      BY <1>1, <3>2 DEF Aged
    <3>4. ASSUME NEW b \in Arms
          PROVE  staleness'[b] = IF ~curriculum' THEN 0
                                 ELSE globalSteps' - lastPull'[b]
      <4>1. /\ staleness[b] = IF ~curriculum THEN 0 ELSE globalSteps - 1 - lastPull[b]
            /\ lastPull[b] \in Nat
        BY <1>1, <3>2 DEF StaleInv
      <4>2. CASE curriculum
        <5>1. staleness'[b] = staleness[b] + 1
          BY <1>1, <4>2 DEF Aged
        <5> QED
          BY <1>1, <1>2, <3>1, <4>1, <4>2, <5>1
      <4>3. CASE ~curriculum
        BY <1>1, <4>1, <4>3
      <4> QED
        BY <4>2, <4>3
    <3> QED
      BY <3>1, <3>3, <3>4 DEF StaleInv
  <2>6. GentleInv'
    <3>1. /\ Building' <=> Building
          /\ RoundRobinPending' <=> RoundRobinPending
      BY <1>1, <1>5 DEF Building, RoundRobinPending
    <3>2. Building' => ~RoundRobinPending'
      BY <3>1 DEF GentleInv
    <3>3. samples' = samples /\ pos' = pos /\ sampled' = sampled
      BY <1>1, <1>5
    <3>4. pc' = "returned" /\ RoundRobinPending' =>
             \A i \in DOMAIN samples' :
                i > pos' /\ samples'[i] \in sampled' =>
                   Arms \subseteq sampled' \cup {samples'[j] : j \in 1..i - 1}
      BY <1>1, <3>1, <3>3 DEF GentleInv
    <3> QED
      BY <1>3, <3>2, <3>4 DEF GentleInv
  <2> QED
    BY <1>3, <2>3, <2>4, <2>5, <2>6
<1> QED
  BY <1>4, <1>5, EndStepFacts
-----------------------------------------------------------------------------
(***************************************************************************)
(* The invariant and the theorems.                                         *)
(***************************************************************************)
LEMMA InitFitInv == FitInit => FitInv
<1> SUFFICES ASSUME FitInit PROVE FitInv
  OBVIOUS
<1>1. TypeOK /\ BatchInv
  BY InitInv DEF FitInit, IInv
<1>2. samples = <<>> /\ Len(samples) = 0 /\ DOMAIN samples = 1..0
  BY EmptySeq, LenProperties DEF FitInit, Init
<1>3. Updated = {}
  BY DEF FitInit, Updated
<1>4. LoopInv
  BY <1>1, <1>2, <1>3, FitLoopAssumption DEF FitInit, LoopInv
<1>5. PullInv /\ StaleInv
  BY <1>3 DEF FitInit, Init, PullInv, StaleInv
<1>6. LambdaInv
  BY FitLoopAssumption DEF FitInit, LambdaInv, LambdaBounded
<1>7. GentleInv
  BY DEF FitInit, Init, GentleInv, GentleOnceAndFirst, Building
<1> QED
  BY <1>4, <1>5, <1>6, <1>7 DEF FitInv

LEMMA NextFitInv == FitInv /\ [FitNext]_fitVars => FitInv'
<1> SUFFICES ASSUME FitInv, [FitNext]_fitVars PROVE FitInv'
  OBVIOUS
<1>1. CASE Sample
  BY <1>1, SampleStep
<1>2. CASE Update
  BY <1>2, UpdateStep
<1>3. CASE EndStep
  BY <1>3, EndStepStep
<1>4. CASE UNCHANGED fitVars
  <2>1. UNCHANGED vars /\ UNCHANGED loopVars
    BY <1>4 DEF fitVars
  <2>2. TypeOK' /\ BatchInv' /\ Updated' = Updated
    BY <2>1, StepType, BatchStep DEF FitInv, LoopInv, Updated, vars, loopVars
  <2> QED
    <3>1. LoopInv'
      BY <2>1, <2>2 DEF vars, loopVars, FitInv, LoopInv
    <3>2. PullInv' /\ StaleInv' /\ LambdaInv'
      BY <2>1, <2>2 DEF vars, loopVars, FitInv, PullInv, StaleInv, LambdaInv,
                        LambdaBounded
    <3>3. GentleInv'
      BY <2>1 DEF vars, loopVars, FitInv, GentleInv, GentleOnceAndFirst, Building,
                  RoundRobinPending
    <3> QED
      BY <3>1, <3>2, <3>3 DEF FitInv
<1> QED
  BY <1>1, <1>2, <1>3, <1>4 DEF FitNext

LEMMA FitInvariance == FitSpec => []FitInv
BY InitFitInv, NextFitInv, PTL DEF FitSpec

(***************************************************************************)
(* Every state of the training loop is well typed; the counters never go   *)
(* beyond the steps of the run.                                            *)
(***************************************************************************)
THEOREM FitTypeCorrect == FitSpec => []FitTypeOK
<1>1. FitInv => FitTypeOK
  <2> SUFFICES ASSUME FitInv PROVE FitTypeOK
    OBVIOUS
  <2>1. globalSteps \in 1..TotalSteps /\ TotalSteps \in Nat
    BY FitLoopAssumption DEF FitInv, LoopInv
  <2>2. /\ pulls \in [Arms -> 0..TotalSteps]
        /\ gentle \in [Arms -> 0..TotalSteps]
        /\ lastPull \in [Arms -> 0..TotalSteps]
    BY <2>1 DEF FitInv, PullInv
  <2>3. staleness \in [Arms -> -1..TotalSteps]
    BY <2>1 DEF FitInv, PullInv, StaleInv
  <2> QED
    BY <2>2, <2>3 DEF FitTypeOK, FitInv, LoopInv, LambdaInv
<1> QED
  BY <1>1, FitInvariance, PTL

(***************************************************************************)
(* In the round-robin pass every arm gets the gentle update exactly once,  *)
(* as its first, also in the batch in which the pass ends.                 *)
(***************************************************************************)
THEOREM GentleIsOnceAndFirst == FitSpec => []GentleOnceAndFirst
<1>1. FitInv => GentleOnceAndFirst
  BY DEF FitInv, GentleInv
<1> QED
  BY <1>1, FitInvariance, PTL

(***************************************************************************)
(* No pseudo-count exceeds lambda_max, though the update of the            *)
(* round-robin pass does not clamp it.                                     *)
(***************************************************************************)
THEOREM LambdaIsBounded == FitSpec => []LambdaBounded
<1>1. FitInv => LambdaBounded
  BY DEF FitInv, LambdaInv
<1> QED
  BY <1>1, FitInvariance, PTL

(***************************************************************************)
(* Between two steps the staleness of an arm is its age.                   *)
(***************************************************************************)
THEOREM StalenessIsItsAge == FitSpec => []StalenessIsAge
<1>1. FitInv => StalenessIsAge
  BY DEF FitInv, LoopInv, StaleInv, StalenessIsAge
<1> QED
  BY <1>1, FitInvariance, PTL
-----------------------------------------------------------------------------
(***************************************************************************)
(* The end of the round-robin pass is noted as early as it can come.  That *)
(* is no consequence of FitInv: one has to know how far the pass has got   *)
(* at each step, which is a count.  The products stand for the arms that   *)
(* so many full batches hold.                                              *)
(***************************************************************************)

\* A step that the pass reaches has more arms than the batches before it
\* held, and either the batches up to it are full or the pass ends in it.
Reached ==
    \/ Cardinality(sampled \cup Batch) = globalSteps * BatchSize
    \/ /\ sampled \cup Batch = Arms
       /\ Cardinality(Arms) <= globalSteps * BatchSize

OnTrack ==
    curriculum /\ RoundRobinInit /\ completion = 0 /\ outcome = "running" =>
        /\ ~Building
        /\ pc = "idle" => /\ Cardinality(sampled) = (globalSteps - 1) * BatchSize
                          /\ sampled = Arms => Arms = {}
        /\ pc = "returned" => /\ (globalSteps - 1) * BatchSize < Cardinality(Arms)
                              /\ Reached

PassInvariant == PassIsShortest /\ OnTrack

\* One more batch.
LEMMA OneMoreBatch ==
    ASSUME NEW g \in Nat, NEW b \in Nat
    PROVE  g * b \in Nat /\ (g - 1) * b + b = g * b
OBVIOUS

\* Rounding up: the only number of batches that n arms fill, the last one
\* perhaps in part.
LEMMA BatchesNeeded ==
    ASSUME NEW n \in Nat, NEW b \in Nat \ {0}, NEW g \in Nat \ {0},
           (g - 1) * b < n, n <= g * b
    PROVE  g = (n + b - 1) \div b
<1> DEFINE x == n + b - 1
           q == x \div b
           r == x % b
           y == b * q
           z == g * b
<1>1. x \in Nat /\ z \in Nat /\ z <= x /\ x < z + b
  <2>1. z \in Nat /\ (g - 1) * b + b = z
    BY OneMoreBatch
  <2>2. (g - 1) * b \in Nat
    <3>1. g - 1 \in Nat
      OBVIOUS
    <3> QED
      BY <3>1
  <2> HIDE DEF z
  <2>3. n <= z
    BY DEF z
  <2> DEFINE w == (g - 1) * b
  <2>4. w \in Nat /\ w + b = z /\ w < n
    BY <2>1, <2>2
  <2> HIDE DEF w
  <2> QED
    BY <2>1, <2>3, <2>4
<1>2. q \in Nat /\ x = y + r /\ r \in 0..b - 1 /\ y \in Nat
  <2>1. x \in Nat
    BY <1>1
  <2> HIDE DEF x
  <2>2. q \in Nat /\ x = b * q + (x % b) /\ (x % b) \in 0..b - 1
    BY <2>1
  <2>3. b * q \in Nat
    BY <2>2
  <2> QED
    BY <2>2, <2>3
<1> HIDE DEF q, r, x
<1>3. q < g => y + b <= z
  <2> SUFFICES ASSUME q < g PROVE y + b <= z
    OBVIOUS
  <2>1. (g - q - 1) * b >= 0
    <3>1. g - q - 1 \in Nat
      BY <1>2
    <3> QED
      BY <3>1
  <2> QED
    BY <2>1, <1>2
<1>4. q > g => z + b <= y
  <2> SUFFICES ASSUME q > g PROVE z + b <= y
    OBVIOUS
  <2>1. (q - g - 1) * b >= 0
    <3>1. q - g - 1 \in Nat
      BY <1>2
    <3> QED
      BY <3>1
  <2> QED
    BY <2>1, <1>2
<1> HIDE DEF y, z
<1>5. ~(q < g) /\ ~(q > g)
  BY <1>1, <1>2, <1>3, <1>4
<1>6. q = g
  BY <1>2, <1>5
<1> QED
  BY <1>6 DEF q, x

\* What a round-robin batch adds to the arms seen: a full batch, or all that
\* were left.
LEMMA RoundRobinAdds ==
    ASSUME sampled \subseteq Arms, RoundRobin
    PROVE  /\ Batch' \subseteq Arms
           /\ \/ /\ Cardinality(sampled \cup Batch') = Cardinality(sampled) + BatchSize
              \/ /\ sampled \cup Batch' = Arms
                 /\ Cardinality(Arms) < Cardinality(sampled) + BatchSize
<1> DEFINE fresh == Arms \ sampled
           s == samples'
<1>1. s \in Seq(Arms) /\ \A i, j \in DOMAIN s : s[i] = s[j] => i = j
  BY RoundRobinFacts DEF BatchUnique
<1>2. Batch' = {s[i] : i \in DOMAIN s}
  BY DEF Batch
<1>3. Batch' \in SUBSET Arms /\ Cardinality(Batch') = Len(s)
  <2> HIDE DEF s
  <2> QED
    BY <1>1, <1>2, DistinctSize
<1>4. /\ IsFiniteSet(sampled) /\ IsFiniteSet(Batch') /\ IsFiniteSet(Arms)
      /\ Cardinality(sampled) \in Nat /\ Cardinality(Arms) \in Nat
      /\ Cardinality(fresh) = Cardinality(Arms) - Cardinality(sampled)
  <2>1. Arms \cap sampled = sampled
    OBVIOUS
  <2>2. IsFiniteSet(sampled) /\ IsFiniteSet(Batch')
    BY <1>3, ArmsFinite, FS_Subset
  <2>3. Cardinality(fresh) = Cardinality(Arms) - Cardinality(sampled)
    BY <2>1, ArmsFinite, FS_Difference
  <2> QED
    BY <2>2, <2>3, ArmsFinite, FS_CardinalityType
<1>5. CASE Cardinality(fresh) >= BatchSize
  <2>1. PICK S \in SUBSET fresh : Cardinality(S) = BatchSize /\ s \in Orderings(S)
    BY <1>5 DEF RoundRobin, OrderedSubsets
  <2>2. s \in Seq(S) /\ Len(s) = BatchSize
    BY <2>1, OrderingFacts
  <2>3. \A i \in DOMAIN s : s[i] \in S
    BY <2>2, ElementOfSeq, LenProperties
  <2>4. sampled \cap Batch' = {}
    BY <1>2, <2>3
  <2>5. Cardinality(sampled \cap Batch') = 0
    BY <2>4, FS_EmptySet
  <2>6. Cardinality(sampled \cup Batch') =
           Cardinality(sampled) + Cardinality(Batch') - Cardinality(sampled \cap Batch')
    BY <1>4, FS_Union
  <2>7. Cardinality(sampled \cup Batch') = Cardinality(sampled) + BatchSize
    <3>1. Cardinality(Batch') = BatchSize
      BY <1>3, <2>2
    <3> HIDE DEF s
    <3> QED
      BY <1>4, <2>5, <2>6, <3>1, SamplerAssumption
  <2> QED
    BY <1>3, <2>7
<1>6. CASE ~(Cardinality(fresh) >= BatchSize)
  <2>1. Arms \subseteq sampled \cup Batch'
    BY <1>6, RoundRobinLast
  <2>2. Cardinality(Arms) < Cardinality(sampled) + BatchSize
    BY <1>4, <1>6, SamplerAssumption
  <2> QED
    BY <1>3, <2>1, <2>2
<1> QED
  BY <1>5, <1>6

LEMMA SamplePass ==
    ASSUME FitInv, PassInvariant, Sample
    PROVE  PassInvariant'
<1>1. /\ pc \in {"idle", "descend", "climb"} /\ SampleBatch
      /\ UNCHANGED <<sampled, curriculum, globalSteps, completion, outcome>>
  BY SamplerFrame DEF Sample, loopVars
<1>2. PassIsShortest'
  BY <1>1 DEF PassInvariant, PassIsShortest
<1>3. OnTrack'
  <2> SUFFICES ASSUME curriculum, RoundRobinInit, completion = 0, outcome = "running"
               PROVE  /\ ~Building'
                      /\ pc' # "idle"
                      /\ pc' = "returned" =>
                           /\ (globalSteps - 1) * BatchSize < Cardinality(Arms)
                           /\ Reached'
    BY <1>1 DEF OnTrack
  <2>1. /\ pc = "idle"
        /\ Cardinality(sampled) = (globalSteps - 1) * BatchSize
        /\ sampled = Arms => Arms = {}
    BY <1>1 DEF PassInvariant, OnTrack, Building
  <2>2. sampled \subseteq Arms
    BY DEF FitInv, LoopInv, TypeOK
  <2>3. CASE RoundRobin
    <3>1. pc' = "returned" /\ sampled # Arms
      BY <2>3 DEF RoundRobin, RoundRobinPending
    <3>2. (globalSteps - 1) * BatchSize < Cardinality(Arms)
      <4>1. /\ Cardinality(sampled) \in Nat
            /\ Cardinality(sampled) <= Cardinality(Arms)
            /\ Cardinality(sampled) # Cardinality(Arms)
        <5>1. /\ IsFiniteSet(sampled)
              /\ Cardinality(sampled) <= Cardinality(Arms)
              /\ Cardinality(sampled) # Cardinality(Arms)
          BY <2>2, <3>1, ArmsFinite, FS_Subset
        <5> QED
          BY <5>1, FS_CardinalityType
      <4> QED
        BY <2>1, <4>1, ArmsFinite
    <3>3. globalSteps \in Nat /\ BatchSize \in Nat
      BY StepNumber, SamplerAssumption DEF FitInv
    <3>4. Cardinality(sampled) + BatchSize = globalSteps * BatchSize
      BY <2>1, <3>3, OneMoreBatch
    <3>5. globalSteps * BatchSize \in Nat
      BY <3>3, OneMoreBatch
    <3>6. \/ Cardinality(sampled \cup Batch') = globalSteps * BatchSize
          \/ /\ sampled \cup Batch' = Arms
             /\ Cardinality(Arms) <= globalSteps * BatchSize
      <4> DEFINE full == globalSteps * BatchSize
      <4>1. Cardinality(sampled) + BatchSize = full /\ full \in Nat
        BY <3>4, <3>5
      <4> HIDE DEF full
      <4>2. \/ Cardinality(sampled \cup Batch') = full
            \/ sampled \cup Batch' = Arms /\ Cardinality(Arms) < full
        BY <2>2, <2>3, <4>1, RoundRobinAdds
      <4>3. Cardinality(Arms) < full => Cardinality(Arms) <= full
        BY <4>1, ArmsFinite
      <4> QED
        BY <4>2, <4>3 DEF full
    <3> QED
      BY <1>1, <3>1, <3>2, <3>6 DEF Building, Reached
  <2>4. CASE ~RoundRobin
    <3>1. StartTree \/ TopK
      BY <1>1, <2>1, <2>4
         DEF SampleBatch, FlatBatch, Descend, PickPrompt, Climb, ClimbDone
    <3>2. sampled = Arms
      BY <2>2, <3>1 DEF StartTree, TopK, RoundRobinPending
    <3>3. Arms = {} /\ Cardinality(Arms) = 0 /\ 0 < BatchSize
      BY <2>1, <3>2, FS_EmptySet, SamplerAssumption
    <3>4. TopK => pc' = "raised"
      BY <3>3 DEF TopK
    <3>5. StartTree => pc' = "raised"
      <4>1. InitialCounts[Root] = Cardinality(Arms)
        BY UnderAssumption, TreeAssumption DEF InitialCounts
      <4> QED
        BY <3>3, <4>1 DEF StartTree
    <3> QED
      BY <3>1, <3>4, <3>5 DEF Building
  <2> QED
    BY <2>3, <2>4
<1> QED
  BY <1>2, <1>3 DEF PassInvariant

LEMMA UpdatePass ==
    ASSUME FitInv, PassInvariant, Update
    PROVE  PassInvariant'
<1> DEFINE a == samples[pos + 1]
<1>1. /\ UNCHANGED <<pc, samples, curriculum, globalSteps, completion, outcome>>
      /\ pc = "returned" /\ sampled' = sampled \cup {a}
  BY DEF Update
<1>2. a \in Batch
  BY NextArm DEF Batch
<1>3. sampled' \cup Batch' = sampled \cup Batch
  BY <1>1, <1>2 DEF Batch
<1>4. PassIsShortest'
  BY <1>1 DEF PassInvariant, PassIsShortest
<1>5. Reached' <=> Reached
  BY <1>1, <1>3 DEF Reached
<1> QED
  BY <1>1, <1>4, <1>5 DEF PassInvariant, OnTrack, Building

LEMMA EndStepPass ==
    ASSUME FitInv, PassInvariant, EndStep
    PROVE  PassInvariant'
<1>1. /\ pc = "returned" /\ outcome = "running"
      /\ UNCHANGED <<sampled, curriculum>>
      /\ sampled \cup Batch = sampled
      /\ sampled \subseteq Arms
      /\ completion' = IF /\ curriculum /\ RoundRobinInit
                          /\ sampled = Arms /\ completion = 0
                       THEN globalSteps ELSE completion
      /\ outcome' = "running" => pc' = "idle" /\ globalSteps' = globalSteps + 1
  <2>1. sampled \cup Batch = sampled
    BY EndStepFacts DEF FitInv, LoopInv
  <2> QED
    BY <2>1, EndStepFacts DEF EndStep, FitInv, LoopInv, TypeOK
<1>2. /\ globalSteps \in Nat \ {0} /\ BatchSize \in Nat \ {0}
      /\ Cardinality(Arms) \in Nat /\ globalSteps * BatchSize \in Nat
  <2>1. globalSteps \in Nat \ {0} /\ BatchSize \in Nat \ {0}
    BY StepNumber, SamplerAssumption DEF FitInv
  <2> QED
    BY <2>1, ArmsFinite, OneMoreBatch
<1>3. CASE curriculum /\ RoundRobinInit /\ completion = 0
  <2>1. /\ (globalSteps - 1) * BatchSize < Cardinality(Arms)
        /\ \/ Cardinality(sampled) = globalSteps * BatchSize
           \/ /\ sampled = Arms
              /\ Cardinality(Arms) <= globalSteps * BatchSize
    BY <1>1, <1>3 DEF PassInvariant, OnTrack, Reached
  <2>2. CASE sampled = Arms
    <3>1. Cardinality(Arms) <= globalSteps * BatchSize
      <4> DEFINE full == globalSteps * BatchSize
      <4>1. full \in Nat /\ (Cardinality(Arms) = full \/ Cardinality(Arms) <= full)
        BY <1>2, <2>1, <2>2
      <4> HIDE DEF full
      <4>2. Cardinality(Arms) <= full
        BY <1>2, <4>1
      <4> QED
        BY <4>2 DEF full
    <3>2. globalSteps = (Cardinality(Arms) + BatchSize - 1) \div BatchSize
      BY <1>2, <2>1, <3>1, BatchesNeeded
    <3>3. completion' = globalSteps /\ completion' # 0
      BY <1>1, <1>2, <1>3, <2>2
    <3> QED
      BY <3>2, <3>3 DEF PassInvariant, PassIsShortest, PassSteps, OnTrack
  <2>3. CASE sampled # Arms
    <3>1. completion' = 0
      BY <1>1, <1>3, <2>3
    <3>2. Cardinality(sampled) = globalSteps * BatchSize
      BY <2>1, <2>3
    <3>3. globalSteps' = globalSteps + 1 => globalSteps' - 1 = globalSteps
      BY <1>2
    <3> QED
      BY <1>1, <2>3, <3>1, <3>2, <3>3
         DEF PassInvariant, PassIsShortest, OnTrack, Building
  <2> QED
    BY <2>2, <2>3
<1>4. CASE ~(curriculum /\ RoundRobinInit /\ completion = 0)
  <2>1. completion' = completion
    BY <1>1, <1>4
  <2> QED
    BY <1>1, <1>4, <2>1 DEF PassInvariant, PassIsShortest, OnTrack
<1> QED
  BY <1>3, <1>4

(***************************************************************************)
(* fit() notes the end of the round-robin pass in the step in which        *)
(* ceil(num_arms / batch_size) batches have been trained on: no batch of   *)
(* the pass is wasted on arms already seen while fresh ones are left, and  *)
(* the note is never a step late.                                          *)
(***************************************************************************)
THEOREM PassTakesNoLonger == FitSpec => []PassIsShortest
<1>1. FitInit => PassInvariant
  <2> SUFFICES ASSUME FitInit PROVE PassInvariant
    OBVIOUS
  <2>1. /\ sampled = {} /\ Cardinality({}) = 0 /\ globalSteps = 1
        /\ pc = "idle" /\ completion = 0
    BY FS_EmptySet DEF FitInit, Init
  <2>2. (1 - 1) * BatchSize = 0
    BY SamplerAssumption
  <2> QED
    BY <2>1, <2>2 DEF PassInvariant, PassIsShortest, OnTrack, Building
<1>2. FitInv /\ PassInvariant /\ [FitNext]_fitVars => PassInvariant'
  <2> SUFFICES ASSUME FitInv, PassInvariant, [FitNext]_fitVars
               PROVE  PassInvariant'
    OBVIOUS
  <2>1. CASE UNCHANGED fitVars
    BY <2>1 DEF fitVars, vars, loopVars, PassInvariant, PassIsShortest, OnTrack,
                Building, Reached, Batch
  <2> QED
    BY <2>1, SamplePass, UpdatePass, EndStepPass DEF FitNext
<1>3. PassInvariant => PassIsShortest
  BY DEF PassInvariant
<1> QED
  BY <1>1, <1>2, <1>3, FitInvariance, PTL DEF FitSpec
-----------------------------------------------------------------------------
(***************************************************************************)
(* fit() implements the loop around sample_batch that BanditSampler        *)
(* assumes.                                                                *)
(***************************************************************************)

\* The constant operators of the instance are those of the module.
LEMMA SameTree ==
    /\ Core!Internal = Internal
    /\ Core!Leaves = Leaves
    /\ \A l \in Nodes : Core!Prompts(l) = Prompts(l)
    /\ Core!ChildToParent = ChildToParent
    /\ Core!InitialCounts = InitialCounts
<1>1. Core!Internal = Internal
  BY DEF Core!Internal, Internal
<1>2. Core!Leaves = Leaves
  BY <1>1 DEF Core!Leaves, Leaves
<1>3. \A l \in Nodes : Core!Prompts(l) = Prompts(l)
  BY DEF Core!Prompts, Prompts
<1>4. Core!ChildToParent = ChildToParent
  BY <1>1, <1>2 DEF Core!ChildToParent, ChildToParent
<1>5. Core!InitialCounts = InitialCounts
  BY DEF Core!InitialCounts, InitialCounts, Core!Cardinality, Cardinality
<1> QED
  BY <1>1, <1>2, <1>3, <1>4, <1>5

LEMMA SameCount == ASSUME NEW S PROVE Core!Cardinality(S) = Cardinality(S)
BY DEF Core!Cardinality, Cardinality

LEMMA SameOrderings == ASSUME NEW S PROVE Core!Orderings(S) = Orderings(S)
BY SameCount DEF Core!Orderings, Orderings

LEMMA SameSubsets ==
    ASSUME NEW k, NEW S PROVE Core!OrderedSubsets(k, S) = OrderedSubsets(k, S)
BY SameCount, SameOrderings DEF Core!OrderedSubsets, OrderedSubsets

\* In sample_batch, what counts as marked are the flags themselves.
LEMMA SampleMaps ==
    ASSUME FitInv, Sample
    PROVE  Core!Next
<1>1. pc # "returned" /\ pos = 0 /\ pos' = 0 /\ sampled' = sampled
  BY DEF FitInv, LoopInv, Sample, loopVars, SampleBatch, FlatBatch, RoundRobin,
         StartTree, Descend, PickPrompt, Climb, ClimbDone, TopK
<1>2. MarkedBefore = sampled
  BY <1>1 DEF MarkedBefore
<1>3. MarkedBefore' = sampled
  BY <1>1 DEF MarkedBefore
<1>4. Core!RoundRobinPending = RoundRobinPending
  BY <1>2 DEF Core!RoundRobinPending, RoundRobinPending
<1>5. CASE RoundRobin
  BY <1>2, <1>3, <1>4, <1>5, SameCount, SameOrderings, SameSubsets
     DEF Core!RoundRobin, RoundRobin, Core!AtMost, AtMost, Core!Next,
         Core!SampleBatch, Core!FlatBatch
<1>6. CASE StartTree
  BY <1>2, <1>3, <1>4, <1>6, SameTree
     DEF Core!StartTree, StartTree, Core!Next, Core!SampleBatch
<1>7. CASE Descend
  BY <1>2, <1>3, <1>7, SameTree
     DEF Core!Descend, Descend, Core!OpenChildren, OpenChildren, Core!Next,
         Core!SampleBatch
<1>8. CASE PickPrompt
  <2>1. Core!Prompts(level) = Prompts(level)
    BY SameTree DEF FitInv, LoopInv, TypeOK
  <2> QED
    BY <1>2, <1>3, <1>8, <2>1, SameTree
       DEF Core!PickPrompt, PickPrompt, Core!Next, Core!SampleBatch
<1>9. CASE Climb
  BY <1>2, <1>3, <1>9, SameTree
     DEF Core!Climb, Climb, Core!Next, Core!SampleBatch
<1>10. CASE ClimbDone
  BY <1>2, <1>3, <1>10, SameTree
     DEF Core!ClimbDone, ClimbDone, Core!Next, Core!SampleBatch
<1>11. CASE TopK /\ ~RoundRobinPending
  BY <1>2, <1>3, <1>4, <1>11, SameCount, SameSubsets
     DEF Core!TopK, TopK, Core!Next, Core!SampleBatch, Core!FlatBatch
<1> QED
  BY <1>5, <1>6, <1>7, <1>8, <1>9, <1>10, <1>11 DEF Sample, SampleBatch, FlatBatch, TopK

\* An arm that is updated counts as marked when it was so before the step.
LEMMA UpdateMaps ==
    ASSUME FitInv, Update
    PROVE  UNCHANGED Core!vars
<1> DEFINE a == samples[pos + 1]
           first == {samples[i] : i \in {i \in 1..pos : pulls[samples[i]] = 1}}
<1>1. /\ a \in Arms /\ a \notin Updated /\ pos \in Nat
      /\ pc = "returned" /\ pc' = "returned" /\ samples' = samples
      /\ pos' = pos + 1
      /\ sampled' = sampled \cup {a}
      /\ pulls' = [pulls EXCEPT ![a] = pulls[a] + 1]
  BY NextArm DEF Update
<1>2. /\ pulls \in [Arms -> Nat]
      /\ pulls[a] = 0 <=> a \notin sampled
  BY <1>1 DEF FitInv, PullInv
<1>3. 1..pos + 1 = (1..pos) \cup {pos + 1}
  BY <1>1
<1>4. \A i \in 1..pos : samples[i] \in Updated
  BY DEF Updated
<1>5. \A i \in 1..pos : samples[i] # a
  BY <1>1, <1>4
<1>6. \A i \in 1..pos : pulls'[samples[i]] = pulls[samples[i]]
  BY <1>1, <1>2, <1>5
<1>7. pulls'[a] = pulls[a] + 1 /\ pulls[a] \in Nat
  BY <1>1, <1>2
<1>8. MarkedBefore = sampled \ first
  BY <1>1 DEF MarkedBefore
<1>9. MarkedBefore' =
        (sampled \cup {a}) \ {samples[i] : i \in {i \in 1..pos + 1 : pulls'[samples[i]] = 1}}
  BY <1>1 DEF MarkedBefore
<1>10. {samples[i] : i \in {i \in 1..pos + 1 : pulls'[samples[i]] = 1}}
         = first \cup (IF a \in sampled THEN {} ELSE {a})
  <2>1. CASE a \in sampled
    <3>1. pulls'[a] # 1
      BY <1>2, <1>7, <2>1
    <3>2. {i \in 1..pos + 1 : pulls'[samples[i]] = 1} = {i \in 1..pos : pulls[samples[i]] = 1}
      BY <1>3, <1>6, <3>1
    <3> QED
      BY <3>2, <2>1
  <2>2. CASE a \notin sampled
    <3>1. pulls'[a] = 1
      BY <1>2, <1>7, <2>2
    <3>2. {i \in 1..pos + 1 : pulls'[samples[i]] = 1}
            = {i \in 1..pos : pulls[samples[i]] = 1} \cup {pos + 1}
      BY <1>3, <1>6, <3>1
    <3> QED
      BY <3>2, <2>2
  <2> QED
    BY <2>1, <2>2
<1>11. a \notin first
  BY <1>5
<1>12. MarkedBefore' = MarkedBefore
  <2> HIDE DEF first, a
  <2> QED
    BY <1>8, <1>9, <1>10, <1>11
<1> QED
  BY <1>12 DEF Core!vars, Update

\* The end of a step marks the whole batch; the end of the run marks nothing.
LEMMA EndStepMaps ==
    ASSUME FitInv, EndStep
    PROVE  Core!Next \/ UNCHANGED Core!vars
<1>1. CASE pc' = "idle"
  <2>1. MarkedBefore' = sampled /\ MarkedBefore \subseteq sampled
    BY <1>1, EndStepFacts DEF MarkedBefore
  <2>2. sampled \subseteq MarkedBefore \cup Updated
    BY EndStepFacts DEF MarkedBefore, Updated
  <2>3. Updated = Batch /\ Updated \subseteq sampled
    BY EndStepFacts DEF FitInv, LoopInv
  <2>4. MarkedBefore' = MarkedBefore \cup Batch
    BY <2>1, <2>2, <2>3
  <2>5. Core!Batch = Batch
    BY DEF Core!Batch, Batch
  <2>6. Core!Train
    BY <1>1, <2>4, <2>5, EndStepFacts DEF Core!Train
  <2> QED
    BY <2>6 DEF Core!Next
<1>2. CASE UNCHANGED <<pc, samples, pos, globalSteps>>
  BY <1>2, EndStepFacts DEF Core!vars, MarkedBefore
<1> QED
  BY <1>1, <1>2, EndStepFacts

\* The loop of fit(), with its arms marked one by one, drives the sampler as
\* the module of the sampler assumes.
THEOREM FitDrivesSampler == FitSpec => DrivesSampler
<1>1. FitInit => Core!Init
  <2> SUFFICES ASSUME FitInit PROVE Core!Init
    OBVIOUS
  <2>1. MarkedBefore = {}
    BY DEF FitInit, Init, MarkedBefore
  <2> QED
    BY <2>1 DEF FitInit, Init, Core!Init
<1>2. FitInv /\ [FitNext]_fitVars => [Core!Next]_(Core!vars)
  <2> SUFFICES ASSUME FitInv, [FitNext]_fitVars
               PROVE  [Core!Next]_(Core!vars)
    OBVIOUS
  <2>1. CASE UNCHANGED fitVars
    BY <2>1 DEF fitVars, vars, loopVars, Core!vars, MarkedBefore
  <2> QED
    BY <2>1, SampleMaps, UpdateMaps, EndStepMaps DEF FitNext
<1> QED
  BY <1>1, <1>2, FitInvariance, PTL DEF FitSpec, DrivesSampler, Core!Spec

\* So the training loop gets full batches of distinct prompts, one per step.
THEOREM FitDelivers ==
    ASSUME BatchSize <= Cardinality(Arms)
    PROVE  FitSpec => DeliversUniqueBatch
<1>1. FitInit => Promise!Init
  <2> SUFFICES ASSUME FitInit PROVE Promise!Init
    OBVIOUS
  <2>1. Batch = {}
    BY DEF FitInit, Init, Batch
  <2> QED
    BY <2>1 DEF FitInit, Init, Promise!Init, Status
<1>2. FitInit => IdleInv
  BY DEF FitInit, Init, IdleInv
<1>3. IdleInv /\ [FitNext]_fitVars => IdleInv'
  BY DEF IdleInv, FitNext, Sample, Update, EndStep, SampleBatch, FlatBatch, RoundRobin,
         StartTree, Descend, PickPrompt, Climb, ClimbDone, TopK, vars, fitVars
<1>4. FitInv /\ FitInv' /\ IdleInv /\ [FitNext]_fitVars => [Promise!Next]_(Promise!vars)
  <2> SUFFICES ASSUME FitInv, FitInv', IdleInv, [FitNext]_fitVars
               PROVE  [Promise!Next]_(Promise!vars)
    OBVIOUS
  <2>1. CASE Sample
    BY <2>1, PromiseStep DEF Sample, Next, FitInv, LoopInv, BatchInv
  <2>2. CASE UNCHANGED <<pc, samples>>
    BY <2>2 DEF Promise!vars, Batch, Status
  <2>3. CASE EndStep /\ pc' = "idle"
    <3>1. pc = "returned" /\ samples' = <<>>
      BY <2>3, EndStepFacts
    <3>2. Batch' = {}
      BY <3>1 DEF Batch
    <3> QED
      BY <2>3, <3>1, <3>2 DEF Promise!Next, Promise!Take, Status
  <2>4. EndStep => pc' = "idle" \/ UNCHANGED <<pc, samples>>
    BY EndStepFacts
  <2>5. Update \/ UNCHANGED fitVars => UNCHANGED <<pc, samples>>
    BY DEF Update, fitVars, vars
  <2> QED
    BY <2>1, <2>2, <2>3, <2>4, <2>5 DEF FitNext
<1> QED
  BY <1>1, <1>2, <1>3, <1>4, FitInvariance, PTL
     DEF FitSpec, DeliversUniqueBatch, Promise!Spec
=============================================================================
