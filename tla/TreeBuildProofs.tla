--------------------------- MODULE TreeBuildProofs --------------------------
(***************************************************************************)
(* What the construction of the task tree promises for every data set,     *)
(* every minimum size of a cluster and every tree HDBSCAN may lead to.     *)
(***************************************************************************)
EXTENDS TreeBuild, FiniteSetTheorems, SequenceTheorems, WellFoundedInduction,
        TLAPS

-----------------------------------------------------------------------------
(***************************************************************************)
(* Induction over the natural numbers, in the form of a smallest           *)
(* counterexample.                                                         *)
(***************************************************************************)

\* A non-empty set of natural numbers has a smallest element.
LEMMA SmallestNumber ==
  ASSUME NEW T \in SUBSET Nat, T # {}
  PROVE  \E n \in T : \A m \in T : n <= m
<1> DEFINE Intervals == {0..n : n \in T}
<1>1. ASSUME NEW n \in T PROVE 0..n \in FiniteSubsetsOf(Nat)
  <2>1. IsFiniteSet(0..n)
    BY FS_Interval
  <2>2. 0..n \in SUBSET Nat
    OBVIOUS
  <2>3. QED BY <2>1, <2>2 DEF FiniteSubsetsOf
<1>2. Intervals \subseteq FiniteSubsetsOf(Nat)
  BY <1>1
<1>3. Intervals # {}
  OBVIOUS
<1>4. PICK U \in Intervals : \A V \in Intervals : <<V, U>> \notin StrictSubsetOrdering(Nat)
  BY <1>2, <1>3, FS_StrictSubsetOrderingWellFounded, WFMin, Zenon
<1>5. PICK n \in T : U = 0..n
  OBVIOUS
<1>6. ASSUME NEW m \in T, m < n PROVE FALSE
  <2> DEFINE a == 0..m
  <2> DEFINE b == 0..n
  <2>1. a \subseteq b /\ n \in b /\ n \notin a /\ a \in SUBSET Nat /\ b \in SUBSET Nat
    BY <1>6
  <2>2. a \in Intervals /\ U = b
    BY <1>5
  <2> HIDE DEF a, b
  <2>3. <<a, b>> \in StrictSubsetOrdering(Nat)
    BY <2>1 DEF StrictSubsetOrdering
  <2>4. QED BY <2>2, <2>3, <1>4
<1>7. QED BY <1>6


-----------------------------------------------------------------------------
(***************************************************************************)
(* The minimum sizes of a cluster.                                         *)
(***************************************************************************)

\* Rounding to the nearest is never below rounding down.
LEMMA RoundIsAtLeastFloor ==
  ASSUME NEW a \in Nat, NEW b \in Nat \ {0}
  PROVE  /\ a \div b \in Nat
         /\ Round(a, b) \in Nat
         /\ Round(a, b) >= a \div b
<1>1. a \div b \in Nat
  OBVIOUS
<1>2. Round(a, b) = a \div b \/ Round(a, b) = (a \div b) + 1
  BY DEF Round
<1>3. QED BY <1>1, <1>2

\* A share of at most one rounds down to at most the whole.
LEMMA ShareIsAtMostWhole ==
  ASSUME NEW n \in Nat, NEW a \in Nat, NEW b \in Nat \ {0}, a <= b
  PROVE  (a * n) \div b <= n
<1> DEFINE x == a * n
           q == x \div b
           y == b * q
           z == b * n
<1>1. x \in Nat /\ z \in Nat /\ x <= z
  <2>1. (b - a) * n >= 0
    OBVIOUS
  <2>2. QED BY <2>1
<1>2. q \in Nat /\ y \in Nat /\ y <= x
  <2>1. x \in Nat
    BY <1>1
  <2> HIDE DEF x
  <2>2. q \in Nat /\ x = b * q + (x % b) /\ (x % b) \in 0..b - 1
    BY <2>1
  <2>3. b * q \in Nat
    BY <2>2
  <2>4. QED BY <2>1, <2>2, <2>3
<1>3. q > n => y > z
  <2> HIDE DEF q
  <2>1. SUFFICES ASSUME q > n PROVE y > z
    OBVIOUS
  <2>2. (q - n) * b > 0
    <3>1. q - n \in Nat /\ q - n > 0
      BY <2>1, <1>2
    <3>2. QED BY <3>1
  <2>3. QED BY <2>2, <1>2
<1> HIDE DEF y, z, q
<1>4. q <= n
  BY <1>1, <1>2, <1>3 DEF x
<1>5. QED BY <1>4 DEF q

\* The points, and the two minimum sizes.
LEMMA Sizes ==
  ASSUME dataset \in Datasets
  PROVE  /\ IsFiniteSet(Points) /\ N \in Nat /\ Arms \subseteq Points
         /\ MinAllowed \in Nat /\ MinAllowed <= N
         /\ \A n \in Nat : /\ MinClusterSize(n) \in Nat
                           /\ MinClusterSize(n) >= MinAllowed
                           /\ MinClusterSize(n) >= 2
<1>1. IsFiniteSet(dataset.arms) /\ IsFiniteSet(dataset.targets)
  BY BuildAssumption
<1>2. IsFiniteSet(Points) /\ Arms \subseteq Points
  BY <1>1, FS_Union DEF Points, PointsOf, Arms
<1>3. N \in Nat
  BY <1>2, FS_CardinalityType DEF N
<1>4. PctNum \in Nat /\ PctDen \in Nat \ {0} /\ PctNum <= PctDen
  BY BuildAssumption
<1>5. PctNum * N \in Nat
  BY <1>3, <1>4
<1>6. /\ MinAllowed \in Nat
      /\ Round(PctNum * N, PctDen) \in Nat
      /\ Round(PctNum * N, PctDen) >= MinAllowed
  <2> DEFINE x == PctNum * N
  <2>1. x \in Nat
    BY <1>5
  <2> HIDE DEF x
  <2>2. Round(x, PctDen) \in Nat /\ x \div PctDen \in Nat /\ Round(x, PctDen) >= x \div PctDen
    BY <2>1, <1>4, RoundIsAtLeastFloor
  <2>3. QED BY <2>2 DEF x, MinAllowed
<1>7. MinAllowed <= N
  BY <1>3, <1>4, ShareIsAtMostWhole DEF MinAllowed
<1>8. Round(PctNum * N, PctDen) >= 2
  BY BuildAssumption DEF N, Points
<1>9. ASSUME NEW n \in Nat
      PROVE  /\ MinClusterSize(n) \in Nat
             /\ MinClusterSize(n) >= MinAllowed
             /\ MinClusterSize(n) >= 2
  <2> DEFINE x == PctNum * n
             here == Round(x, PctDen)
             whole == Round(PctNum * N, PctDen)
  <2>1. x \in Nat
    BY <1>4
  <2>2. MinClusterSize(n) = IF here < whole THEN whole ELSE here
    BY DEF MinClusterSize
  <2>3. here \in Nat
    <3> HIDE DEF x
    <3>1. QED BY <2>1, <1>4, RoundIsAtLeastFloor
  <2>4. whole \in Nat /\ whole >= MinAllowed /\ whole >= 2
    BY <1>6, <1>8
  <2> HIDE DEF here, whole
  <2>5. QED BY <2>2, <2>3, <2>4, <1>6
<1>10. QED BY <1>2, <1>3, <1>6, <1>7, <1>9

\* A function on 1..n is a sequence of length n.
LEMMA SequenceFromFunction ==
  ASSUME NEW S, NEW n \in Nat, NEW f \in [1..n -> S]
  PROVE  f \in Seq(S) /\ Len(f) = n
OBVIOUS

\* The classes that HDBSCAN may return: more than one, disjoint, and none
\* smaller than its minimum.
LEMMA SplitClasses ==
  ASSUME NEW members, NEW classes \in Splits(members),
         Cardinality(members) \in Nat,
         \A n \in Nat : MinClusterSize(n) \in Nat /\ MinClusterSize(n) >= 2
  PROVE  /\ classes \in Seq(SUBSET members)
         /\ Len(classes) >= 2
         /\ \A l \in 1..Len(classes) :
              Cardinality(classes[l]) >= MinClusterSize(Cardinality(members))
         /\ \A k, l \in 1..Len(classes) : k # l => classes[k] \cap classes[l] = {}
<1> DEFINE n == Cardinality(members)
           m == MinClusterSize(n)
           Class(labels, l) == {p \in members : labels[p] = l}
<1>1. PICK k \in 2..(n \div m) :
        classes \in {[l \in 1..k |-> Class(labels, l)] :
                       labels \in {f \in [members -> 0..k] :
                                     \A l \in 1..k : Cardinality(Class(f, l)) >= m}}
  BY DEF Splits
<1>2. PICK labels \in [members -> 0..k] :
        /\ classes = [l \in 1..k |-> Class(labels, l)]
        /\ \A l \in 1..k : Cardinality(Class(labels, l)) >= m
  BY <1>1
<1>3. m \in Nat /\ m >= 2 /\ n \in Nat
  OBVIOUS
<1>4. k \in Nat /\ k >= 2
  <2> HIDE DEF n, m
  <2>1. n \div m \in Nat
    BY <1>3
  <2>2. QED BY <2>1
<1>5. classes \in Seq(SUBSET members) /\ Len(classes) = k
  <2>0. \A l \in 1..k : Class(labels, l) \in SUBSET members
    OBVIOUS
  <2> HIDE DEF Class
  <2>1. classes \in [1..k -> SUBSET members]
    BY <1>2, <2>0
  <2> HIDE DEF n, m
  <2>2. QED BY <2>1, <1>4, SequenceFromFunction
<1>6. \A l \in 1..k : Cardinality(classes[l]) >= m
  BY <1>2
<1>7. \A i, j \in 1..k : i # j => classes[i] \cap classes[j] = {}
  BY <1>2
<1>8. QED BY <1>4, <1>5, <1>6, <1>7

-----------------------------------------------------------------------------
(***************************************************************************)
(* The shape of a tree whose ids are those below k.                        *)
(***************************************************************************)

\* n is the parent of c, in one position of one list only.
Below(t, c) == {n \in DOMAIN t : c \in Elements(t[n])}

Shape(t, k) ==
    /\ \A n \in DOMAIN t : n \in 0..k - 1 /\ t[n] \in Seq(Nat) /\ t[n] # <<>>
    /\ \A n \in DOMAIN t : \A i \in DOMAIN t[n] : t[n][i] \in 0..k - 1 /\ n < t[n][i]
    /\ \A c \in 1..k - 1 : \E n \in DOMAIN t : \E i \in DOMAIN t[n] : t[n][i] = c
    /\ \A m, n \in DOMAIN t : \A i \in DOMAIN t[m], j \in DOMAIN t[n] :
           t[m][i] = t[n][j] => m = n /\ i = j

\* The nodes of such a tree.
LEMMA ShapeNodes ==
  ASSUME NEW t, NEW k \in Nat \ {0}, Shape(t, k)
  PROVE  NodesOf(t) = 0..k - 1
<1>1. ASSUME NEW x \in NodesOf(t) PROVE x \in 0..k - 1
  BY <1>1 DEF Shape, NodesOf, Elements
<1>2. ASSUME NEW x \in 0..k - 1 PROVE x \in NodesOf(t)
  <2>1. CASE x = 0
    BY <2>1 DEF NodesOf
  <2>2. CASE x # 0
    <3>1. x \in 1..k - 1
      BY <2>2
    <3>2. PICK n \in DOMAIN t : \E i \in DOMAIN t[n] : t[n][i] = x
      BY <3>1 DEF Shape
    <3>3. QED BY <3>2 DEF NodesOf, Elements
  <2>3. QED BY <2>1, <2>2
<1>3. QED BY <1>1, <1>2

\* u is t, where n has the children w, with k put behind them.
IsGrown(u, t, w, n, k) ==
    /\ DOMAIN u = DOMAIN t \cup {n}
    /\ w \in Seq(Nat)
    /\ u[n] \in Seq(Nat) /\ Len(u[n]) = Len(w) + 1
    /\ u[n][Len(w) + 1] = k
    /\ \A i \in 1..Len(w) : u[n][i] = w[i]
    /\ n \notin DOMAIN t => Len(w) = 0
    /\ n \in DOMAIN t => w = t[n]
    /\ \A m \in DOMAIN t : m # n => u[m] = t[m]

\* The lists after a child was added.
LEMMA WithChildLists ==
  ASSUME NEW t, NEW k \in Nat \ {0}, NEW n \in 0..k - 1, Shape(t, k)
  PROVE  IsGrown(WithChild(t, n, k), t, ChildrenOf(t, n), n, k)
<1> DEFINE w == ChildrenOf(t, n)
           u == WithChild(t, n, k)
<1>1. w \in Seq(Nat) /\ (n \notin DOMAIN t => Len(w) = 0) /\ (n \in DOMAIN t => w = t[n])
  BY DEF Shape, ChildrenOf
<1>2. /\ DOMAIN u = DOMAIN t \cup {n}
      /\ u[n] = Append(w, k)
      /\ \A m \in DOMAIN t : m # n => u[m] = t[m]
  BY DEF WithChild
<1> HIDE DEF u, w
<1>3. /\ u[n] \in Seq(Nat) /\ Len(u[n]) = Len(w) + 1
      /\ u[n][Len(w) + 1] = k
      /\ \A i \in 1..Len(w) : u[n][i] = w[i]
  BY <1>1, <1>2
<1>4. QED BY <1>1, <1>2, <1>3 DEF u, w, IsGrown

\* A new id in the list of any node.
LEMMA ShapeGrows ==
  ASSUME NEW t, NEW k \in Nat \ {0}, NEW n \in 0..k - 1, Shape(t, k)
  PROVE  Shape(WithChild(t, n, k), k + 1)
<1> DEFINE u == WithChild(t, n, k)
           w == ChildrenOf(t, n)
           L == Len(w)
<1>1. /\ DOMAIN u = DOMAIN t \cup {n}
      /\ w \in Seq(Nat)
      /\ u[n] \in Seq(Nat) /\ Len(u[n]) = L + 1
      /\ u[n][L + 1] = k
      /\ \A i \in 1..L : u[n][i] = w[i]
      /\ n \notin DOMAIN t => L = 0
      /\ n \in DOMAIN t => w = t[n]
      /\ \A m \in DOMAIN t : m # n => u[m] = t[m]
  <2>1. IsGrown(u, t, w, n, k)
    BY WithChildLists
  <2>2. QED BY <2>1 DEF IsGrown
<1> HIDE DEF u, w
<1>2. L \in Nat
  BY <1>1
<1>3. ASSUME NEW m \in DOMAIN u PROVE m \in 0..k /\ u[m] \in Seq(Nat) /\ u[m] # <<>>
  BY <1>1, <1>2 DEF Shape
\* Each entry is the new one or an old one in its old place.
<1>4. ASSUME NEW m \in DOMAIN u, NEW i \in DOMAIN u[m]
      PROVE  \/ m = n /\ i = L + 1 /\ u[m][i] = k
             \/ m \in DOMAIN t /\ i \in DOMAIN t[m] /\ u[m][i] = t[m][i]
  <2>1. CASE m # n
    BY <2>1, <1>1
  <2>2. CASE m = n
    <3>1. i \in 1..L + 1
      BY <1>1, <2>2
    <3>2. CASE i = L + 1
      BY <3>2, <2>2, <1>1
    <3>3. CASE i # L + 1
      <4>1. i \in 1..L
        BY <3>1, <3>3, <1>2
      <4>2. n \in DOMAIN t
        BY <4>1, <1>1
      <4>3. QED BY <4>1, <4>2, <2>2, <1>1
    <3>4. QED BY <3>2, <3>3
  <2>3. QED BY <2>1, <2>2
<1>5. ASSUME NEW m \in DOMAIN t, NEW i \in DOMAIN t[m]
      PROVE  m \in DOMAIN u /\ i \in DOMAIN u[m] /\ u[m][i] = t[m][i]
  <2>1. CASE m # n
    BY <2>1, <1>1
  <2>2. CASE m = n
    <3>1. w = t[n] /\ i \in 1..L
      BY <2>2, <1>1
    <3>2. i \in DOMAIN u[n]
      BY <3>1, <1>1, <1>2
    <3>3. QED BY <2>2, <3>1, <3>2, <1>1
  <2>3. QED BY <2>1, <2>2
<1>6. ASSUME NEW m \in DOMAIN u, NEW i \in DOMAIN u[m]
      PROVE  u[m][i] \in 0..k /\ m < u[m][i]
  <2>1. CASE m = n /\ i = L + 1 /\ u[m][i] = k
    BY <2>1
  <2>2. CASE m \in DOMAIN t /\ i \in DOMAIN t[m] /\ u[m][i] = t[m][i]
    BY <2>2 DEF Shape
  <2>3. QED BY <2>1, <2>2, <1>4
<1>7. ASSUME NEW c \in 1..k
      PROVE  \E m \in DOMAIN u : \E i \in DOMAIN u[m] : u[m][i] = c
  <2>1. CASE c = k
    <3>1. n \in DOMAIN u /\ L + 1 \in DOMAIN u[n]
      BY <1>1, <1>2
    <3>2. QED BY <3>1, <2>1, <1>1
  <2>2. CASE c # k
    <3>1. c \in 1..k - 1
      BY <2>2
    <3>2. PICK m \in DOMAIN t : \E i \in DOMAIN t[m] : t[m][i] = c
      BY <3>1 DEF Shape
    <3>3. QED BY <3>2, <1>5
  <2>3. QED BY <2>1, <2>2
<1>8. ASSUME NEW l \in DOMAIN u, NEW m \in DOMAIN u,
             NEW i \in DOMAIN u[l], NEW j \in DOMAIN u[m], u[l][i] = u[m][j]
      PROVE  l = m /\ i = j
  <2>1. CASE l \in DOMAIN t /\ i \in DOMAIN t[l] /\ u[l][i] = t[l][i]
    <3>1. u[l][i] < k
      BY <2>1 DEF Shape
    <3>2. u[m][j] # k
      BY <3>1, <1>8
    <3>3. m \in DOMAIN t /\ j \in DOMAIN t[m] /\ u[m][j] = t[m][j]
      BY <3>2, <1>4
    <3>4. t[l][i] = t[m][j]
      BY <2>1, <3>3, <1>8
    <3>5. l \in DOMAIN t /\ i \in DOMAIN t[l]
      BY <2>1
    <3> HIDE DEF L
    <3>6. QED BY <3>3, <3>4, <3>5 DEF Shape
  <2>2. CASE l = n /\ i = L + 1 /\ u[l][i] = k
    <3>1. CASE m \in DOMAIN t /\ j \in DOMAIN t[m] /\ u[m][j] = t[m][j]
      BY <3>1, <2>2, <1>8 DEF Shape
    <3>2. CASE m = n /\ j = L + 1
      BY <3>2, <2>2
    <3>3. QED BY <3>1, <3>2, <1>4
  <2>3. QED BY <2>1, <2>2, <1>4
<1>9. k + 1 - 1 = k
  OBVIOUS
<1>10. Shape(u, k + 1)
  BY <1>3, <1>6, <1>7, <1>8, <1>9 DEF Shape
<1>11. QED BY <1>10 DEF u

-----------------------------------------------------------------------------
(***************************************************************************)
(* The inductive invariant of the construction.                            *)
(***************************************************************************)

\* The values of the variables but the stack.
Kinds ==
    /\ dataset \in Datasets
    /\ resumeFlag \in BOOLEAN
    /\ saved = NoCheckpoint \/ (saved \in Saved /\ DOMAIN saved.clusters = Points)
    /\ pc \in {"start", "enter", "children", "map", "moments", "utilities",
               "load", "ready", "failed"}
    /\ clusters \in [Points -> Nat]
    /\ \A n \in DOMAIN tree : n \in Nat /\ tree[n] \in Seq(Nat)
    /\ nextId \in Nat \ {0}
    /\ hasMap \in BOOLEAN
    /\ \A n \in DOMAIN treeMoments : treeMoments[n] \in {"none", "number", "nan"}
    /\ pc \in {"moments", "utilities"} => DOMAIN treeMoments = DOMAIN tree
    /\ \A n \in DOMAIN penultimates : penultimates[n] \in {"number", "nan"}
    /\ invalid \subseteq Nat
    /\ rebuilt \in {"unloaded", "unbuilt", "same", "different"}

\* Which ways of starting come to which place.
Phases ==
    /\ pc \in {"enter", "children", "map", "utilities"} => ~resumeFlag
    /\ pc \in {"start", "enter", "children", "map", "utilities", "load"} =>
           rebuilt = "unloaded"
    /\ rebuilt = "unbuilt" => resumeFlag
    /\ resumeFlag => rebuilt \in {"unloaded", "unbuilt"}
    /\ resumeFlag /\ rebuilt = "unloaded" => pc \in {"start", "load", "failed"}

\* What is left of a call: disjoint clusters, large enough to be split again.
CallOK(f) ==
    /\ f.node < nextId
    /\ Cardinality(f.members) >= MinAllowed
    /\ \A j \in 1..Len(f.todo) :
           /\ f.todo[j] \subseteq f.members
           /\ f.todo[j] # {}
           /\ Cardinality(f.todo[j]) >= MinAllowed
    /\ \A j, k \in 1..Len(f.todo) : j # k => f.todo[j] \cap f.todo[k] = {}

Calls(points) == [node : Nat, members : SUBSET points, todo : Seq(SUBSET points)]

\* A call is for a later id than the call it was made by, and its node is no
\* parent before its points are split.
StackOK ==
    /\ stack \in Seq(Calls(Points))
    /\ Building <=> stack # <<>>
    /\ \A i \in 1..Len(stack) : CallOK(stack[i])
    /\ \A i, j \in 1..Len(stack) : i < j => stack[j].node < stack[i].node
    /\ pc = "enter" => Top.todo = <<>> /\ Top.node \notin DOMAIN tree

\* The points of a call that are not in the cluster of a child yet.
Pending(i) ==
    IF pc = "enter" /\ i = 1 THEN stack[1].members ELSE UNION Elements(stack[i].todo)

\* They are what is in the cluster of its node.
Owners ==
    \A i \in 1..Len(stack) : \A p \in Points :
        clusters[p] = stack[i].node <=> p \in Pending(i)

\* The tree that was built: no leaf is without points, and no point is in the
\* cluster of an internal node but of one whose call goes on.
Built ==
    rebuilt \in {"unloaded", "same"} =>
        /\ Shape(tree, nextId)
        /\ \A p \in Points : clusters[p] < nextId
        /\ \A n \in 0..nextId - 1 :
               n \notin DOMAIN tree => \E p \in Points : clusters[p] = n
        /\ \A p \in Points :
               clusters[p] \in DOMAIN tree =>
                   \E i \in 1..Len(stack) : stack[i].node = clusters[p]

\* Before the construction all points are in the cluster of the root.
Started ==
    pc = "start" => DOMAIN tree = {} /\ \A p \in Points : clusters[p] = 0

CoreInv ==
    /\ Kinds /\ Phases /\ StackOK /\ Owners /\ Built /\ Started
    /\ tooSmall = 0

\* All points of S are in the cluster of m.
InCluster(S, m) == \A p \in S : clusters[p] = m

\* t and c are the tree and the clusters when a new child of m has taken over
\* the points S.
Adopted(S, m, c, t) ==
    /\ Shape(t, nextId + 1)
    /\ DOMAIN t = DOMAIN tree \cup {m}
    /\ c \in [Points -> Nat]
    /\ \A p \in Points : c[p] = IF p \in S THEN nextId ELSE clusters[p]
    /\ \A p \in Points : c[p] < nextId + 1
    /\ \A k \in 0..nextId :
           k \notin DOMAIN tree \cup {m} => \E p \in Points : c[p] = k

\* A new child of m may take over points that are all in the cluster of m.
LEMMA Adoption ==
  ASSUME nextId \in Nat \ {0}, Kinds, Built, rebuilt = "unloaded",
         NEW S \in SUBSET Points, S # {}, NEW m \in 0..nextId - 1,
         InCluster(S, m)
  PROVE  Adopted(S, m, Assigned(S, nextId), WithChild(tree, m, nextId))
<1> DEFINE c == Assigned(S, nextId)
           t == WithChild(tree, m, nextId)
<1>1. /\ nextId \in Nat \ {0} /\ clusters \in [Points -> Nat]
      /\ Shape(tree, nextId)
      /\ \A p \in Points : clusters[p] < nextId
      /\ \A n \in 0..nextId - 1 :
            n \notin DOMAIN tree => \E p \in Points : clusters[p] = n
  BY DEF Kinds, Built
<1>2. Shape(t, nextId + 1)
  BY <1>1, ShapeGrows
<1>3. DOMAIN t = DOMAIN tree \cup {m}
  BY DEF WithChild
<1>4. c \in [Points -> Nat] /\ \A p \in Points : c[p] = IF p \in S THEN nextId ELSE clusters[p]
  BY <1>1 DEF Assigned
<1> HIDE DEF c, t
<1>0. nextId \in Nat \ {0}
  BY <1>1
<1>5. ASSUME NEW p \in Points PROVE c[p] < nextId + 1
  <2>1. c[p] = nextId \/ c[p] = clusters[p]
    BY <1>4
  <2>2. clusters[p] \in Nat /\ clusters[p] < nextId
    BY <1>1
  <2>3. QED BY <1>0, <2>1, <2>2
<1>6. ASSUME NEW n \in 0..nextId, n \notin DOMAIN tree \cup {m}
      PROVE  \E p \in Points : c[p] = n
  <2>1. CASE n = nextId
    <3>1. PICK p \in S : TRUE
      OBVIOUS
    <3>2. QED BY <3>1, <2>1, <1>4
  <2>2. CASE n # nextId
    <3>1. n \in 0..nextId - 1
      BY <2>2, <1>0
    <3>2. PICK p \in Points : clusters[p] = n
      BY <3>1, <1>1, <1>6
    <3>3. p \notin S
      BY <3>2, <1>6 DEF InCluster
    <3>4. QED BY <3>2, <3>3, <1>4
  <2>3. QED BY <2>1, <2>2
<1>7. Adopted(S, m, c, t)
  BY <1>2, <1>3, <1>4, <1>5, <1>6 DEF Adopted
<1>8. QED BY <1>7 DEF c, t

-----------------------------------------------------------------------------
(***************************************************************************)
(* The steps of the construction.                                          *)
(***************************************************************************)

\* What depends on the data set only.
LEMMA ConfigSame ==
  ASSUME UNCHANGED config
  PROVE  /\ dataset' = dataset /\ resumeFlag' = resumeFlag /\ saved' = saved
         /\ Points' = Points /\ Arms' = Arms /\ Targeting' = Targeting
         /\ N' = N /\ MinAllowed' = MinAllowed
BY DEF config, Points, PointsOf, Arms, Targeting, N, MinAllowed

\* The stack without its first call.
LEMMA TailOfStack ==
  ASSUME NEW S, NEW s \in Seq(S), s # <<>>
  PROVE  /\ Len(s) \in Nat \ {0}
         /\ s[1] \in S
         /\ Tail(s) \in Seq(S)
         /\ Len(Tail(s)) = Len(s) - 1
         /\ \A i \in 1..Len(s) - 1 : i + 1 \in 1..Len(s) /\ Tail(s)[i] = s[i + 1]
         /\ Tail(s) = <<>> <=> Len(s) = 1
<1>1. /\ Len(s) \in Nat \ {0}
      /\ s[1] \in S
      /\ Tail(s) \in Seq(S)
      /\ Len(Tail(s)) = Len(s) - 1
      /\ \A i \in 1..Len(s) - 1 : i + 1 \in 1..Len(s) /\ Tail(s)[i] = s[i + 1]
  OBVIOUS
<1>2. Tail(s) = <<>> <=> Len(Tail(s)) = 0
  BY <1>1, EmptySeq
<1>3. QED BY <1>1, <1>2

\* A call returns, when its points are in the clusters of its children or it
\* has no children.
LEMMA PopStep ==
  ASSUME CoreInv, Building, Pop,
         UNCHANGED <<config, clusters, tree, nextId, rebuilt>>,
         \/ Top.node \notin DOMAIN tree
         \/ \A p \in Points : clusters[p] # Top.node
  PROVE  StackOK' /\ Owners' /\ Built'
<1> DEFINE s == stack
           u == Tail(stack)
           L == Len(stack)
<1>1. /\ s \in Seq(Calls(Points)) /\ s # <<>>
      /\ \A i \in 1..L : CallOK(s[i])
      /\ \A i, j \in 1..L : i < j => s[j].node < s[i].node
  BY DEF CoreInv, StackOK
<1>2. /\ L \in Nat \ {0}
      /\ u \in Seq(Calls(Points))
      /\ Len(u) = L - 1
      /\ \A i \in 1..L - 1 : i + 1 \in 1..L /\ u[i] = s[i + 1]
      /\ u = <<>> <=> L = 1
  BY <1>1, TailOfStack
<1>3. stack' = u /\ pc' = IF L = 1 THEN "map" ELSE "children"
  BY DEF Pop
<1>4. /\ Points' = Points /\ MinAllowed' = MinAllowed
      /\ clusters' = clusters /\ tree' = tree /\ nextId' = nextId
      /\ rebuilt' = rebuilt
  BY ConfigSame
<1>5. ASSUME NEW i \in 1..L - 1 PROVE CallOK(stack[i])'
  <2>1. CallOK(s[i + 1])
    BY <1>1, <1>2
  <2>2. stack'[i] = s[i + 1]
    BY <1>2, <1>3
  <2>3. QED BY <2>1, <2>2, <1>4 DEF CallOK
<1> HIDE DEF s, u, L
<1>6. StackOK'
  <2>1. Building' <=> stack' # <<>>
    BY <1>2, <1>3 DEF Building
  <2>2. pc' # "enter"
    BY <1>3
  <2>3. \A i, j \in 1..L - 1 : i < j => u[j].node < u[i].node
    <3> TAKE i \in 1..L - 1, j \in 1..L - 1
    <3>1. u[i] = s[i + 1] /\ u[j] = s[j + 1] /\ i + 1 \in 1..L /\ j + 1 \in 1..L
      BY <1>2
    <3>2. i < j => i + 1 < j + 1
      BY <1>2
    <3>3. QED BY <3>1, <3>2, <1>1
  <2>4. stack' \in Seq(Calls(Points'))
    BY <1>2, <1>3, <1>4
  <2>5. QED BY <1>2, <1>3, <1>5, <2>1, <2>2, <2>3, <2>4 DEF StackOK, u
<1>7. Owners'
  <2>1. SUFFICES ASSUME NEW i \in 1..L - 1, NEW p \in Points
                 PROVE  clusters[p] = u[i].node <=> p \in UNION Elements(u[i].todo)
    BY <1>2, <1>3, <1>4 DEF Owners, Pending
  <2>2. i + 1 \in 1..L /\ u[i] = s[i + 1] /\ i + 1 # 1
    BY <1>2
  <2>3. clusters[p] = s[i + 1].node <=> p \in Pending(i + 1)
    BY <2>2 DEF CoreInv, Owners, s, L
  <2>4. Pending(i + 1) = UNION Elements(s[i + 1].todo)
    BY <2>2 DEF Pending, s
  <2>5. QED BY <2>2, <2>3, <2>4
<1>8. Built'
  <2>1. SUFFICES ASSUME rebuilt \in {"unloaded", "same"},
                        NEW p \in Points, clusters[p] \in DOMAIN tree
                 PROVE  \E i \in 1..L - 1 : u[i].node = clusters[p]
    BY <1>2, <1>3, <1>4 DEF CoreInv, Built
  <2>2. PICK i \in 1..L : s[i].node = clusters[p]
    BY <2>1 DEF CoreInv, Built, s, L
  <2>3. i # 1
    BY <2>1, <2>2 DEF Top, s
  <2>4. i - 1 \in 1..L - 1 /\ (i - 1) + 1 = i
    BY <2>3, <1>2
  <2>5. QED BY <2>2, <2>4, <1>2
<1>9. QED BY <1>6, <1>7, <1>8

\* The stack with other clusters to be done by its first call.
LEMMA StackWithTodo ==
  ASSUME NEW P, NEW s \in Seq(Calls(P)), s # <<>>, NEW todo \in Seq(SUBSET P)
  PROVE  LET u == [s EXCEPT ![1].todo = todo]
         IN  /\ u \in Seq(Calls(P))
             /\ Len(u) = Len(s)
             /\ Len(s) \in Nat \ {0}
             /\ u[1].node = s[1].node /\ u[1].members = s[1].members
             /\ u[1].todo = todo
             /\ \A i \in 1..Len(s) : i # 1 => u[i] = s[i]
<1> DEFINE u == [s EXCEPT ![1].todo = todo]
           L == Len(s)
           f == [s[1] EXCEPT !.todo = todo]
<1>1. L \in Nat \ {0} /\ s \in [1..L -> Calls(P)] /\ 1 \in 1..L
  OBVIOUS
<1>2. s[1] \in Calls(P)
  BY <1>1
<1>3. f \in Calls(P) /\ f.node = s[1].node /\ f.members = s[1].members /\ f.todo = todo
  BY <1>2 DEF Calls
<1>4. u = [s EXCEPT ![1] = f]
  OBVIOUS
<1> HIDE DEF u, f, L
<1>5. u \in [1..L -> Calls(P)] /\ u[1] = f /\ \A i \in 1..L : i # 1 => u[i] = s[i]
  BY <1>1, <1>3, <1>4
<1>6. u \in Seq(Calls(P)) /\ Len(u) = L
  BY <1>1, <1>5, SequenceFromFunction
<1>7. QED BY <1>1, <1>3, <1>5, <1>6 DEF u, L

\* A subset of a call's points is finite.
LEMMA FiniteParts ==
  ASSUME dataset \in Datasets, NEW S \in SUBSET Points
  PROVE  IsFiniteSet(S) /\ Cardinality(S) \in Nat
BY Sizes, FS_Subset, FS_CardinalityType

\* The points of the first call, before it is split.
LEMMA SplitStep ==
  ASSUME CoreInv, Split
  PROVE  StackOK' /\ Owners' /\ Built'
<1> DEFINE s == stack
           L == Len(stack)
           n == stack[1].node
           M == stack[1].members
<1>1. /\ pc = "enter" /\ Building
      /\ Kinds /\ Built /\ Owners /\ Phases
      /\ rebuilt = "unloaded"
      /\ s \in Seq(Calls(Points)) /\ s # <<>>
      /\ \A i \in 1..L : CallOK(s[i])
      /\ \A i, j \in 1..L : i < j => s[j].node < s[i].node
      /\ n \notin DOMAIN tree
  BY DEF CoreInv, StackOK, Split, Building, Phases, Top
<1>2. PICK classes \in Splits(M) :
        LET leftover == M \ UNION {classes[l] : l \in DOMAIN classes} IN
        /\ stack' = [stack EXCEPT ![1].todo = classes]
        /\ IF leftover # {}
           THEN /\ clusters' = Assigned(leftover, nextId)
                /\ tree' = WithChild(tree, n, nextId)
                /\ nextId' = nextId + 1
           ELSE UNCHANGED <<clusters, tree, nextId>>
  BY DEF Split, Top
<1>3. /\ pc' = "children"
      /\ Points' = Points /\ MinAllowed' = MinAllowed /\ rebuilt' = rebuilt
  BY ConfigSame DEF Split
<1>4. L \in Nat \ {0} /\ s[1] \in Calls(Points)
  BY <1>1, TailOfStack
<1>5. /\ n \in Nat /\ n < nextId /\ nextId \in Nat \ {0}
      /\ M \in SUBSET Points
  BY <1>1, <1>4 DEF CallOK, Kinds, Calls
<1>6. /\ classes \in Seq(SUBSET M)
      /\ \A j \in 1..Len(classes) :
           classes[j] # {} /\ Cardinality(classes[j]) >= MinAllowed
      /\ \A j, k \in 1..Len(classes) : j # k => classes[j] \cap classes[k] = {}
  <2>1. dataset \in Datasets
    BY <1>1 DEF Kinds
  <2>2. Cardinality(M) \in Nat
    BY <1>5, <2>1, FiniteParts
  <2> DEFINE m == MinClusterSize(Cardinality(M))
  <2>3. m \in Nat /\ m >= MinAllowed /\ m >= 2 /\ MinAllowed \in Nat
    BY <2>1, <2>2, Sizes
  <2>4. /\ classes \in Seq(SUBSET M)
        /\ \A j \in 1..Len(classes) : Cardinality(classes[j]) >= m
        /\ \A j, k \in 1..Len(classes) : j # k => classes[j] \cap classes[k] = {}
    BY <2>1, <2>2, Sizes, SplitClasses
  <2> HIDE DEF m
  <2>5. ASSUME NEW j \in 1..Len(classes)
        PROVE  classes[j] # {} /\ Cardinality(classes[j]) >= MinAllowed
    <3>1. Cardinality(classes[j]) >= m
      BY <2>4
    <3>2. classes[j] \in SUBSET M
      BY <2>4
    <3>3. classes[j] \in SUBSET Points
      BY <3>2, <1>5
    <3>4. Cardinality(classes[j]) \in Nat
      BY <2>1, <3>3, FiniteParts
    <3>5. Cardinality({}) = 0
      BY FS_EmptySet
    <3>6. CASE classes[j] = {}
      <4>1. Cardinality(classes[j]) = 0
        BY <3>5, <3>6
      <4>2. QED BY <4>1, <3>1, <2>3
    <3>7. Cardinality(classes[j]) >= MinAllowed
      BY <3>1, <3>4, <2>3
    <3>8. QED BY <3>6, <3>7
  <2>6. QED BY <2>4, <2>5
<1>7. classes \in Seq(SUBSET Points)
  BY <1>5, <1>6
<1> DEFINE rest == UNION Elements(classes)
           leftover == M \ rest
<1>8. M \ UNION {classes[l] : l \in DOMAIN classes} = leftover
  BY DEF Elements
<1>9. /\ stack' \in Seq(Calls(Points))
      /\ Len(stack') = L
      /\ stack'[1].node = n /\ stack'[1].members = M
      /\ stack'[1].todo = classes
      /\ \A i \in 1..L : i # 1 => stack'[i] = s[i]
  BY <1>1, <1>2, <1>7, StackWithTodo
<1>10. /\ leftover # {} => /\ clusters' = Assigned(leftover, nextId)
                           /\ tree' = WithChild(tree, n, nextId)
                           /\ nextId' = nextId + 1
       /\ leftover = {} => clusters' = clusters /\ tree' = tree /\ nextId' = nextId
  BY <1>2, <1>8
<1>11. \A p \in Points : clusters[p] = n <=> p \in M
  <2>1. 1 \in 1..L /\ Pending(1) = M
    BY <1>1, <1>4 DEF Pending
  <2>2. QED BY <2>1, <1>1 DEF Owners
<1>12. rest \subseteq M
  BY <1>6 DEF Elements
<1>13. \A i \in 1..L : stack'[i].node = s[i].node
  BY <1>9
<1> HIDE DEF rest, leftover, s, n, M, L
<1>14. leftover # {} =>
        /\ Shape(tree', nextId')
        /\ DOMAIN tree' = DOMAIN tree \cup {n}
        /\ \A p \in Points :
             clusters'[p] = IF p \in leftover THEN nextId ELSE clusters[p]
        /\ \A p \in Points : clusters'[p] < nextId'
        /\ \A k \in 0..nextId' - 1 :
             k \notin DOMAIN tree' => \E p \in Points : clusters'[p] = k
  <2>1. SUFFICES ASSUME leftover # {}
                 PROVE  /\ Shape(tree', nextId')
                        /\ DOMAIN tree' = DOMAIN tree \cup {n}
                        /\ \A p \in Points :
                             clusters'[p] = IF p \in leftover THEN nextId ELSE clusters[p]
                        /\ \A p \in Points : clusters'[p] < nextId'
                        /\ \A k \in 0..nextId' - 1 :
                             k \notin DOMAIN tree' => \E p \in Points : clusters'[p] = k
    OBVIOUS
  <2>2. leftover \in SUBSET Points /\ n \in 0..nextId - 1
    BY <1>5 DEF leftover
  <2>3. InCluster(leftover, n)
    BY <1>5, <1>11 DEF leftover, InCluster
  <2>4. nextId + 1 - 1 = nextId
    BY <1>5
  <2>5. /\ clusters' = Assigned(leftover, nextId)
        /\ tree' = WithChild(tree, n, nextId)
        /\ nextId' = nextId + 1
    BY <1>10, <2>1
  <2>6. Adopted(leftover, n, clusters', tree')
    BY <2>1, <2>2, <2>3, <2>5, <1>1, <1>5, Adoption
  <2>7. 0..nextId' - 1 = 0..nextId
    <3>1. nextId' = nextId + 1 /\ nextId \in Nat
      BY <1>5, <2>5
    <3>2. QED BY <3>1
  <2>8. Shape(tree', nextId') /\ (\A p \in Points : clusters'[p] < nextId')
    BY <2>5, <2>6 DEF Adopted
  <2>9. /\ DOMAIN tree' = DOMAIN tree \cup {n}
        /\ \A p \in Points :
             clusters'[p] = IF p \in leftover THEN nextId ELSE clusters[p]
    BY <2>6 DEF Adopted
  <2>10. \A k \in 0..nextId' - 1 :
            k \notin DOMAIN tree' => \E p \in Points : clusters'[p] = k
    BY <2>6, <2>7, <2>9 DEF Adopted
  <2>11. QED BY <2>8, <2>9, <2>10
<1>15. nextId' \in Nat /\ nextId' >= nextId
  BY <1>5, <1>10
<1>16. StackOK'
  <2>1. ASSUME NEW i \in 1..L PROVE CallOK(stack[i])'
    <3>1. CASE i = 1
      <4>1. n < nextId'
        BY <1>5, <1>15
      <4>2. Cardinality(M) >= MinAllowed
        BY <1>1, <1>4 DEF CallOK, M, s
      <4>3. \A j \in 1..Len(classes) : classes[j] \subseteq M
        BY <1>6
      <4>4. QED BY <3>1, <4>1, <4>2, <4>3, <1>3, <1>6, <1>9 DEF CallOK
    <3>2. CASE i # 1
      <4>1. stack'[i] = s[i] /\ CallOK(s[i])
        BY <3>2, <1>1, <1>9
      <4>2. s[i].node < nextId'
        <5>1. s[i] \in Calls(Points)
          BY <1>1, <1>4 DEF L, s
        <5>2. s[i].node \in Nat /\ s[i].node < nextId
          BY <5>1, <4>1 DEF CallOK, Calls
        <5>3. QED BY <5>2, <1>5, <1>15
      <4>3. QED BY <4>1, <4>2, <1>3 DEF CallOK
    <3>3. QED BY <3>1, <3>2
  <2>2. \A i, j \in 1..L : i < j => stack'[j].node < stack'[i].node
    BY <1>1, <1>13
  <2>3. Building' /\ stack' # <<>> /\ pc' # "enter"
    BY <1>3, <1>4, <1>9 DEF Building
  <2>4. QED BY <1>3, <1>9, <2>1, <2>2, <2>3 DEF StackOK
<1>17. Owners'
  <2>1. SUFFICES ASSUME NEW i \in 1..L, NEW p \in Points
                 PROVE  clusters'[p] = s[i].node <=> p \in UNION Elements(stack'[i].todo)
    BY <1>3, <1>9, <1>13 DEF Owners, Pending
  <2>2. CASE i = 1
    <3>1. stack'[i].todo = classes /\ s[i].node = n
      BY <2>2, <1>9 DEF n, s
    <3>2. clusters[p] = n <=> p \in M
      BY <1>11
    <3>3. CASE p \in leftover
      <4>1. clusters'[p] = nextId
        BY <3>3, <1>14
      <4>2. p \notin rest
        BY <3>3 DEF leftover
      <4>3. QED BY <3>1, <4>1, <4>2, <1>5 DEF rest
    <3>4. CASE p \notin leftover
      <4>1. clusters'[p] = clusters[p]
        BY <3>4, <1>10, <1>14
      <4>2. p \in rest <=> p \in M
        BY <3>4, <1>12 DEF leftover
      <4>3. QED BY <3>1, <3>2, <4>1, <4>2 DEF rest
    <3>5. QED BY <3>3, <3>4
  <2>3. CASE i # 1
    <3>1. stack'[i] = s[i]
      BY <2>3, <1>9
    <3>2. clusters[p] = s[i].node <=> p \in UNION Elements(s[i].todo)
      BY <2>3, <1>1 DEF Owners, Pending, s, L
    <3>3. s[i].node < n
      <4>1. 1 \in 1..L /\ 1 < i
        BY <2>3, <1>4
      <4>2. QED BY <4>1, <1>1 DEF n, s
    <3>4. s[i].node \in Nat
      <4>1. s[i] \in Calls(Points)
        BY <1>1, <1>4 DEF L, s
      <4>2. QED BY <4>1 DEF Calls
    <3>5. CASE p \in leftover
      <4>1. clusters'[p] = nextId
        BY <3>5, <1>14
      <4>2. clusters[p] = n
        BY <3>5, <1>11 DEF leftover
      <4>3. QED BY <3>1, <3>2, <3>3, <3>4, <4>1, <4>2, <1>5
    <3>6. CASE p \notin leftover
      <4>1. clusters'[p] = clusters[p]
        BY <3>6, <1>10, <1>14
      <4>2. QED BY <3>1, <3>2, <4>1
    <3>7. QED BY <3>5, <3>6
  <2>4. QED BY <2>2, <2>3
<1>18. Built'
  <2>1. CASE leftover = {}
    <3>1. clusters' = clusters /\ tree' = tree /\ nextId' = nextId
      BY <2>1, <1>10
    <3>2. ASSUME NEW p \in Points, clusters[p] \in DOMAIN tree
          PROVE  \E i \in 1..L : stack'[i].node = clusters[p]
      BY <3>2, <1>1, <1>13 DEF Built, L, s
    <3>3. QED BY <3>1, <3>2, <1>1, <1>3, <1>9 DEF Built
  <2>2. CASE leftover # {}
    <3>1. ASSUME NEW p \in Points, clusters'[p] \in DOMAIN tree'
          PROVE  \E i \in 1..L : stack'[i].node = clusters'[p]
      <4>1. CASE p \in leftover
        <5>1. clusters'[p] = nextId /\ nextId \in DOMAIN tree \cup {n}
          BY <4>1, <2>2, <3>1, <1>14
        <5>2. nextId \in DOMAIN tree
          BY <5>1, <1>5
        <5>3. nextId \in 0..nextId - 1
          BY <5>2, <1>1 DEF Built, Shape
        <5>4. QED BY <5>3, <1>5
      <4>2. CASE p \notin leftover
        <5>1. clusters'[p] = clusters[p] /\ clusters[p] \in DOMAIN tree \cup {n}
          BY <4>2, <2>2, <3>1, <1>14
        <5>2. CASE clusters[p] = n
          <6>1. 1 \in 1..L /\ stack'[1].node = n
            BY <1>4, <1>9
          <6>2. QED BY <6>1, <5>1, <5>2
        <5>3. CASE clusters[p] \in DOMAIN tree
          <6>1. PICK i \in 1..L : s[i].node = clusters[p]
            BY <5>3, <1>1 DEF Built, L, s
          <6>2. QED BY <6>1, <5>1, <1>13
        <5>4. QED BY <5>1, <5>2, <5>3
      <4>3. QED BY <4>1, <4>2
    <3>2. QED BY <2>2, <3>1, <1>3, <1>9, <1>14 DEF Built
  <2>3. QED BY <2>1, <2>2
<1>19. QED BY <1>16, <1>17, <1>18

\* A call on top of the others.
Pushed(f, u) == <<f>> \o u

IsPushed(v, f, u, S) ==
    /\ v \in Seq(S)
    /\ Len(v) = Len(u) + 1
    /\ v[1] = f
    /\ \A i \in 2..Len(u) + 1 : v[i] = u[i - 1]

\* What is where on the new stack.
LEMMA PushedStack ==
  ASSUME NEW S, NEW f \in S, NEW u \in Seq(S)
  PROVE  IsPushed(Pushed(f, u), f, u, S)
BY DEF Pushed, IsPushed

\* What is left to do after the first cluster.
LEMMA ElementsOfTail ==
  ASSUME NEW S, NEW todo \in Seq(SUBSET S), todo # <<>>,
         \A j, k \in 1..Len(todo) : j # k => todo[j] \cap todo[k] = {}
  PROVE  UNION Elements(Tail(todo)) = (UNION Elements(todo)) \ todo[1]
<1>1. /\ Len(todo) \in Nat \ {0}
      /\ Tail(todo) \in Seq(SUBSET S)
      /\ Len(Tail(todo)) = Len(todo) - 1
      /\ \A i \in 1..Len(todo) - 1 : i + 1 \in 1..Len(todo) /\ Tail(todo)[i] = todo[i + 1]
  BY TailOfStack
<1> DEFINE u == Tail(todo)
           L == Len(todo)
<1> HIDE DEF u, L
<1>2. /\ L \in Nat \ {0} /\ DOMAIN todo = 1..L /\ DOMAIN u = 1..L - 1
      /\ \A i \in 1..L - 1 : i + 1 \in 1..L /\ u[i] = todo[i + 1]
      /\ \A j, k \in 1..L : j # k => todo[j] \cap todo[k] = {}
  BY <1>1 DEF u, L
<1>3. ASSUME NEW x \in UNION Elements(u)
      PROVE  x \in UNION Elements(todo) /\ x \notin todo[1]
  <2>1. PICK i \in 1..L - 1 : x \in u[i]
    BY <1>2 DEF Elements
  <2>2. i + 1 \in 1..L /\ x \in todo[i + 1] /\ i + 1 # 1 /\ 1 \in 1..L
    BY <1>2, <2>1
  <2>3. QED BY <1>2, <2>2 DEF Elements
<1>4. ASSUME NEW x \in UNION Elements(todo), x \notin todo[1]
      PROVE  x \in UNION Elements(u)
  <2>1. PICK i \in 1..L : x \in todo[i]
    BY <1>2 DEF Elements
  <2>2. i - 1 \in 1..L - 1 /\ (i - 1) + 1 = i
    BY <1>2, <1>4, <2>1
  <2>3. x \in u[i - 1]
    BY <1>2, <2>1, <2>2
  <2>4. QED BY <1>2, <2>2, <2>3 DEF Elements
<1>5. UNION Elements(u) = (UNION Elements(todo)) \ todo[1]
  BY <1>3, <1>4
<1>6. QED BY <1>5 DEF u

\* The next cluster becomes a child, and a call is made for it.
LEMMA CallStep ==
  ASSUME CoreInv, CallForChild
  PROVE  StackOK' /\ Owners' /\ Built'
<1> DEFINE s == stack
           L == Len(stack)
           n == stack[1].node
           todo == stack[1].todo
           S == todo[1]
           f == Frame(nextId, S)
           u == [s EXCEPT ![1].todo = Tail(todo)]
<1>1. /\ pc = "children" /\ Building
      /\ Kinds /\ Built /\ Owners /\ Phases
      /\ rebuilt = "unloaded"
      /\ s \in Seq(Calls(Points)) /\ s # <<>>
      /\ \A i \in 1..L : CallOK(s[i])
      /\ \A i, j \in 1..L : i < j => s[j].node < s[i].node
      /\ todo # <<>>
  BY DEF CoreInv, StackOK, CallForChild, Building, Phases, Top
<1>2. L \in Nat \ {0} /\ s[1] \in Calls(Points) /\ 1 \in 1..L /\ CallOK(s[1])
  BY <1>1, TailOfStack
<1>3. /\ n \in Nat /\ n < nextId /\ nextId \in Nat \ {0}
      /\ s[1].members \in SUBSET Points
      /\ todo \in Seq(SUBSET Points)
      /\ \A j \in 1..Len(todo) :
           /\ todo[j] \subseteq s[1].members
           /\ todo[j] # {}
           /\ Cardinality(todo[j]) >= MinAllowed
      /\ \A j, k \in 1..Len(todo) : j # k => todo[j] \cap todo[k] = {}
  BY <1>1, <1>2 DEF CallOK, Kinds, Calls
<1>4. /\ Len(todo) \in Nat \ {0}
      /\ Tail(todo) \in Seq(SUBSET Points)
      /\ Len(Tail(todo)) = Len(todo) - 1
      /\ \A i \in 1..Len(todo) - 1 : i + 1 \in 1..Len(todo) /\ Tail(todo)[i] = todo[i + 1]
  BY <1>1, <1>3, TailOfStack
<1>5. /\ S \in SUBSET Points /\ S # {} /\ Cardinality(S) >= MinAllowed
      /\ Head(todo) = S
  BY <1>3, <1>4
<1>6. /\ clusters' = Assigned(S, nextId)
      /\ tree' = WithChild(tree, n, nextId)
      /\ nextId' = nextId + 1
      /\ stack' = Pushed(f, u)
      /\ pc' = "enter"
  BY <1>5 DEF CallForChild, Top, Pushed
<1>7. Points' = Points /\ MinAllowed' = MinAllowed /\ rebuilt' = rebuilt
  BY ConfigSame DEF CallForChild
<1>8. /\ u \in Seq(Calls(Points)) /\ Len(u) = L
      /\ u[1].node = n /\ u[1].members = s[1].members /\ u[1].todo = Tail(todo)
      /\ \A i \in 1..L : i # 1 => u[i] = s[i]
  <2> DEFINE rem == Tail(todo)
             w == [s EXCEPT ![1].todo = rem]
  <2>1. rem \in Seq(SUBSET Points)
    BY <1>4
  <2> HIDE DEF rem
  <2>2. /\ w \in Seq(Calls(Points)) /\ Len(w) = L
        /\ w[1].node = n /\ w[1].members = s[1].members /\ w[1].todo = rem
        /\ \A i \in 1..L : i # 1 => w[i] = s[i]
    BY <1>1, <2>1, StackWithTodo
  <2>3. w = u
    BY DEF rem
  <2> HIDE DEF u, w
  <2>4. QED BY <2>2, <2>3 DEF rem
<1>9. /\ f \in Calls(Points) /\ f.node = nextId /\ f.members = S /\ f.todo = <<>>
  BY <1>3, <1>5 DEF Frame, Calls
<1> HIDE DEF f, u
<1>10. /\ stack' \in Seq(Calls(Points)) /\ Len(stack') = L + 1
       /\ stack'[1] = f
       /\ \A i \in 2..L + 1 : stack'[i] = u[i - 1]
  <2>1. f \in Calls(Points) /\ u \in Seq(Calls(Points)) /\ Len(u) = L
    BY <1>8, <1>9
  <2>2. IsPushed(Pushed(f, u), f, u, Calls(Points))
    BY <2>1, PushedStack
  <2>3. stack' = Pushed(f, u)
    BY <1>6
  <2> HIDE DEF L
  <2>4. QED BY <2>1, <2>2, <2>3 DEF IsPushed
<1>11. \A p \in Points : clusters[p] = n <=> p \in UNION Elements(todo)
  <2>1. Pending(1) = UNION Elements(todo)
    BY <1>1 DEF Pending
  <2>2. QED BY <2>1, <1>1, <1>2 DEF Owners
<1>12. S \subseteq UNION Elements(todo)
  BY <1>3, <1>4 DEF Elements
<1>13. UNION Elements(Tail(todo)) = (UNION Elements(todo)) \ S
  BY <1>1, <1>3, ElementsOfTail
<1> HIDE DEF s, L, n, todo, S
<1>14. Adopted(S, n, clusters', tree')
  <2>1. InCluster(S, n)
    BY <1>5, <1>11, <1>12 DEF InCluster
  <2>2. n \in 0..nextId - 1
    BY <1>3
  <2>3. QED BY <2>1, <2>2, <1>1, <1>3, <1>5, <1>6, Adoption
<1>15. /\ DOMAIN tree' = DOMAIN tree \cup {n}
       /\ \A p \in Points : clusters'[p] = IF p \in S THEN nextId ELSE clusters[p]
  BY <1>14 DEF Adopted
<1>16. \A i \in 1..L : u[i].node = s[i].node /\ s[i].node \in Nat /\ s[i].node < nextId
  <2> TAKE i \in 1..L
  <2>1. s[i] \in Calls(Points) /\ CallOK(s[i])
    BY <1>1, <1>2 DEF L, s
  <2>2. s[i].node \in Nat /\ s[i].node < nextId
    BY <2>1 DEF Calls, CallOK
  <2>3. u[i].node = s[i].node
    BY <1>8 DEF n, s
  <2>4. QED BY <2>2, <2>3
<1>17. nextId \notin DOMAIN tree \cup {n}
  BY <1>1, <1>3 DEF Built, Shape
<1>18. \A i \in 1..L + 1 : i # 1 => i - 1 \in 1..L /\ stack'[i] = u[i - 1]
  BY <1>2, <1>10
<1>19. StackOK'
  <2>1. ASSUME NEW i \in 1..L + 1 PROVE CallOK(stack[i])'
    <3>1. CASE i = 1
      <4>1. f.node < nextId' /\ Cardinality(f.members) >= MinAllowed
        BY <1>3, <1>5, <1>6, <1>9
      <4>2. 1..Len(f.todo) = {}
        BY <1>9
      <4>3. QED BY <3>1, <4>1, <4>2, <1>7, <1>10 DEF CallOK
    <3>2. CASE i # 1
      <4> DEFINE k == i - 1
      <4>1. k \in 1..L /\ stack'[i] = u[k]
        BY <3>2, <1>18
      <4> HIDE DEF k
      <4>2. u[k].node < nextId'
        <5>1. u[k].node \in Nat /\ u[k].node < nextId
          BY <4>1, <1>16
        <5>2. QED BY <5>1, <1>3, <1>6
      <4>3. CallOK(s[k])
        BY <4>1, <1>1
      <4>4. CASE k # 1
        <5>1. u[k] = s[k]
          BY <4>1, <4>4, <1>8
        <5>2. QED BY <4>1, <4>2, <4>3, <5>1, <1>7 DEF CallOK
      <4>5. CASE k = 1
        <5>1. u[1].members = s[1].members /\ u[1].todo = Tail(todo)
          BY <1>8
        <5>2. Cardinality(s[1].members) >= MinAllowed
          BY <4>3, <4>5 DEF CallOK
        <5>3. ASSUME NEW j \in 1..Len(Tail(todo))
              PROVE  j + 1 \in 1..Len(todo) /\ Tail(todo)[j] = todo[j + 1]
          BY <1>4
        <5>4. \A j \in 1..Len(Tail(todo)) :
                /\ Tail(todo)[j] \subseteq s[1].members
                /\ Tail(todo)[j] # {}
                /\ Cardinality(Tail(todo)[j]) >= MinAllowed
          BY <5>3, <1>3
        <5>5. ASSUME NEW j \in 1..Len(Tail(todo)), NEW l \in 1..Len(Tail(todo)), j # l
              PROVE  Tail(todo)[j] \cap Tail(todo)[l] = {}
          <6>1. j + 1 # l + 1
            BY <5>5, <1>4
          <6>2. QED BY <6>1, <5>3, <1>3
        <5>6. QED BY <4>1, <4>2, <4>5, <5>1, <5>2, <5>4, <5>5, <1>7 DEF CallOK
      <4>6. QED BY <4>4, <4>5
    <3>3. QED BY <3>1, <3>2
  <2>2. ASSUME NEW i \in 1..L + 1, NEW j \in 1..L + 1, i < j
        PROVE  stack'[j].node < stack'[i].node
    <3>1. j # 1 /\ j - 1 \in 1..L /\ stack'[j].node = s[j - 1].node
      <4>1. j # 1
        BY <2>2, <1>2
      <4>2. QED BY <4>1, <1>16, <1>18
    <3>2. CASE i = 1
      BY <3>1, <3>2, <1>9, <1>10, <1>16
    <3>3. CASE i # 1
      <4>1. i - 1 \in 1..L /\ stack'[i].node = s[i - 1].node
        BY <3>3, <1>16, <1>18
      <4>2. i - 1 < j - 1
        BY <2>2, <1>2
      <4>3. QED BY <3>1, <4>1, <4>2, <1>1
    <3>4. QED BY <3>2, <3>3
  <2>3. Building' /\ stack' # <<>>
    BY <1>2, <1>6, <1>10 DEF Building
  <2>4. Top'.todo = <<>> /\ Top'.node \notin DOMAIN tree'
    BY <1>9, <1>10, <1>15, <1>17 DEF Top
  <2>5. QED BY <1>7, <1>10, <2>1, <2>2, <2>3, <2>4 DEF StackOK
<1>20. Owners'
  <2>1. SUFFICES ASSUME NEW i \in 1..L + 1, NEW p \in Points
                 PROVE  clusters'[p] = stack'[i].node <=> p \in Pending(i)'
    BY <1>7, <1>10 DEF Owners
  <2>2. CASE i = 1
    <3>1. Pending(i)' = S /\ stack'[i].node = nextId
      BY <2>2, <1>6, <1>9, <1>10 DEF Pending
    <3>2. clusters[p] \in Nat /\ clusters[p] < nextId
      BY <1>1 DEF Kinds, Built
    <3>3. QED BY <3>1, <3>2, <1>3, <1>15
  <2>3. CASE i # 1
    <3> DEFINE k == i - 1
    <3>1. k \in 1..L /\ stack'[i] = u[k] /\ stack'[i].node = s[k].node
      BY <2>3, <1>16, <1>18
    <3> HIDE DEF k
    <3>2. Pending(i)' = UNION Elements(u[k].todo)
      BY <2>3, <3>1 DEF Pending
    <3>3. s[k].node # nextId
      BY <3>1, <1>3, <1>16
    <3>4. CASE k = 1
      <4>1. s[k].node = n /\ u[k].todo = Tail(todo)
        BY <3>4, <1>8 DEF n, s
      <4>2. QED BY <3>1, <3>2, <3>3, <4>1, <1>11, <1>12, <1>13, <1>15
    <3>5. CASE k # 1
      <4>1. u[k] = s[k]
        BY <3>1, <3>5, <1>8
      <4>2. clusters[p] = s[k].node <=> p \in UNION Elements(s[k].todo)
        BY <3>1, <3>5, <1>1 DEF Owners, Pending, s, L
      <4>3. s[k].node # n
        <5>1. 1 \in 1..L /\ 1 < k
          BY <3>1, <3>5, <1>2
        <5>2. s[k].node < s[1].node
          BY <5>1, <3>1, <1>1
        <5>3. s[k].node \in Nat /\ n = s[1].node
          BY <3>1, <1>16 DEF n, s
        <5>4. QED BY <5>2, <5>3, <1>3
      <4>4. p \in S => clusters[p] = n
        BY <1>11, <1>12
      <4>5. QED BY <3>1, <3>2, <3>3, <4>1, <4>2, <4>3, <4>4, <1>15
    <3>6. QED BY <3>4, <3>5
  <2>4. QED BY <2>2, <2>3
<1>21. Built'
  <2>1. ASSUME NEW p \in Points, clusters'[p] \in DOMAIN tree'
        PROVE  \E i \in 1..L + 1 : stack'[i].node = clusters'[p]
    <3>1. clusters'[p] # nextId
      BY <2>1, <1>15, <1>17
    <3>2. clusters'[p] = clusters[p] /\ clusters[p] \in DOMAIN tree \cup {n}
      BY <2>1, <3>1, <1>15
    <3>3. PICK k \in 1..L : s[k].node = clusters[p]
      <4>1. CASE clusters[p] = n
        BY <4>1, <1>2 DEF n, s
      <4>2. CASE clusters[p] \in DOMAIN tree
        BY <4>2, <1>1 DEF Built, L, s
      <4>3. QED BY <3>2, <4>1, <4>2
    <3>4. k + 1 \in 1..L + 1 /\ k + 1 # 1 /\ (k + 1) - 1 = k
      BY <1>2
    <3>5. stack'[k + 1].node = s[k].node
      BY <3>4, <1>16, <1>18
    <3>6. QED BY <3>2, <3>3, <3>4, <3>5
  <2>2. 0..nextId' - 1 = 0..nextId
    <3>1. nextId' = nextId + 1 /\ nextId \in Nat
      BY <1>3, <1>6
    <3>2. QED BY <3>1
  <2>3. Shape(tree', nextId') /\ (\A p \in Points : clusters'[p] < nextId')
    BY <1>6, <1>14 DEF Adopted
  <2>4. \A k \in 0..nextId' - 1 :
          k \notin DOMAIN tree' => \E p \in Points : clusters'[p] = k
    BY <1>14, <1>15, <2>2 DEF Adopted
  <2>5. QED BY <1>7, <1>10, <2>1, <2>3, <2>4 DEF Built
<1>22. QED BY <1>19, <1>20, <1>21

\* The first call is made for all points.
LEMMA ConstructStep ==
  ASSUME CoreInv, Construct
  PROVE  StackOK' /\ Owners' /\ Built'
<1>1. /\ Kinds /\ Phases /\ StackOK /\ Built /\ pc = "start" /\ rebuilt = "unloaded"
      /\ stack = <<>>
  BY DEF CoreInv, StackOK, Phases, Construct, Building
<1>2. /\ Points' = Points /\ MinAllowed' = MinAllowed /\ rebuilt' = rebuilt
      /\ clusters' = clusters /\ tree' = tree /\ nextId' = nextId
  BY ConfigSame DEF Construct
<1>3. nextId \in Nat \ {0} /\ dataset \in Datasets /\ clusters \in [Points -> Nat]
  BY <1>1 DEF Kinds
<1>4. \A i \in 1..Len(stack) : FALSE
  BY <1>1
<1>5. Built'
  BY <1>1, <1>2, <1>4 DEF Built
<1>6. CASE resumeFlag
  <2>1. pc' = "load" /\ stack' = <<>>
    BY <1>1, <1>6 DEF Construct
  <2>2. stack' \in Seq(Calls(Points)) /\ 1..Len(stack') = {}
    BY <2>1
  <2>3. StackOK'
    BY <1>2, <2>1, <2>2 DEF StackOK, Building
  <2>4. Owners'
    BY <2>2 DEF Owners
  <2>5. QED BY <1>5, <2>3, <2>4
<1>7. CASE ~resumeFlag
  <2> DEFINE f == Frame(0, Points)
  <2>1. pc' = "enter" /\ stack' = <<f>>
    BY <1>1, <1>7 DEF Construct
  <2>2. f \in Calls(Points) /\ f.node = 0 /\ f.members = Points /\ f.todo = <<>>
    BY DEF Frame, Calls
  <2> HIDE DEF f
  <2>3. /\ stack' \in Seq(Calls(Points)) /\ Len(stack') = 1 /\ stack'[1] = f
        /\ stack' # <<>>
    BY <2>1, <2>2
  <2>4. Cardinality(Points) >= MinAllowed
    BY <1>3, Sizes DEF N
  \* Nothing is split yet, as there is no call.
  <2>5. \A p \in Points : clusters[p] = 0
    BY <1>1 DEF CoreInv, Started
  <2>6. 0 \notin DOMAIN tree
    BY <1>1 DEF CoreInv, Started
  <2>7. CallOK(stack[1])'
    <3>1. f.node < nextId' /\ Cardinality(f.members) >= MinAllowed'
      BY <1>2, <1>3, <2>2, <2>4
    <3>2. 1..Len(f.todo) = {}
      BY <2>2
    <3>3. QED BY <3>1, <3>2, <2>3 DEF CallOK
  <2>8. \A i \in 1..Len(stack') : i = 1
    BY <2>3
  <2>9. StackOK'
    <3>1. \A i \in 1..Len(stack') : CallOK(stack[i])'
      BY <2>7, <2>8
    <3>2. \A i, j \in 1..Len(stack') : i < j => stack'[j].node < stack'[i].node
      <4>1. \A i, j \in 1..Len(stack') : ~ (i < j)
        BY <2>8
      <4>2. QED BY <4>1
    <3>3. QED BY <1>2, <2>1, <2>2, <2>3, <2>6, <3>1, <3>2 DEF StackOK, Building, Top
  <2>10. Owners'
    <3>1. Pending(1)' = Points
      BY <2>1, <2>2, <2>3 DEF Pending
    <3>2. QED BY <1>2, <2>2, <2>3, <2>5, <2>8, <3>1 DEF Owners
  <2>11. QED BY <1>5, <2>9, <2>10
<1>8. QED BY <1>6, <1>7

\* The steps after the construction leave the tree as it is, or replace it.
LEMMA LaterSteps ==
  ASSUME CoreInv, MapParents \/ UpdateTree \/ InitUtilities \/ Load \/ NothingToLoad
  PROVE  StackOK' /\ Owners' /\ Built'
<1>1. /\ Kinds /\ Phases /\ StackOK /\ Built
      /\ pc \in {"map", "moments", "utilities", "load"}
      /\ stack = <<>> /\ stack' = <<>> /\ nextId' = nextId
      /\ pc' \in {"moments", "ready", "utilities", "load", "failed"}
  <2>1. Kinds /\ Phases /\ StackOK /\ Built
    BY DEF CoreInv
  <2>2. pc \in {"map", "moments", "utilities", "load"} /\ stack' = stack /\ nextId' = nextId
    BY DEF MapParents, UpdateTree, InitUtilities, Load, NothingToLoad, build
  <2>3. stack = <<>>
    BY <2>1, <2>2 DEF StackOK, Building
  <2>4. pc' \in {"moments", "ready", "utilities", "load", "failed"}
    BY DEF MapParents, UpdateTree, InitUtilities, Load, NothingToLoad, AfterMap
  <2>5. QED BY <2>1, <2>2, <2>3, <2>4
<1>2. Points' = Points
  BY ConfigSame DEF MapParents, UpdateTree, InitUtilities, Load, NothingToLoad
<1>3. stack' \in Seq(Calls(Points)) /\ 1..Len(stack') = {} /\ 1..Len(stack) = {}
  BY <1>1
<1>4. StackOK'
  BY <1>1, <1>2, <1>3 DEF StackOK, Building
<1>5. Owners'
  BY <1>3 DEF Owners
<1>6. Built'
  <2>1. rebuilt' \in {"unloaded", "same"} =>
           /\ clusters' = clusters /\ tree' = tree
           /\ rebuilt \in {"unloaded", "same"}
    <3>1. CASE MapParents \/ UpdateTree \/ InitUtilities \/ NothingToLoad
      BY <3>1 DEF MapParents, UpdateTree, InitUtilities, NothingToLoad, build
    <3>2. CASE Load
      <4>1. rebuilt = "unloaded"
        BY <3>2, <1>1 DEF Load, Phases
      <4>2. SUFFICES ASSUME rebuilt' \in {"unloaded", "same"}
                     PROVE  clusters' = clusters /\ tree' = tree
        BY <4>1
      <4>3. saved = [tree |-> tree, clusters |-> clusters]
        BY <3>2, <4>2 DEF Load
      <4>4. saved.tree = tree /\ saved.clusters = clusters
        BY <4>3
      <4>5. QED BY <3>2, <4>4 DEF Load
    <3>3. QED BY <3>1, <3>2
  <2>2. QED BY <2>1, <1>1, <1>2, <1>3 DEF Built
<1>7. QED BY <1>4, <1>5, <1>6

\* The call of too few points: there is none.
LEMMA CallIsLarge ==
  ASSUME CoreInv, Building
  PROVE  Cardinality(Top.members) \in Nat /\ ~ (Cardinality(Top.members) < MinAllowed)
<1>1. stack \in Seq(Calls(Points)) /\ stack # <<>> /\ Kinds
  BY DEF CoreInv, StackOK
<1>2. Len(stack) \in Nat \ {0} /\ stack[1] \in Calls(Points)
  BY <1>1, TailOfStack
<1>3. 1 \in 1..Len(stack)
  BY <1>2
<1>4. CallOK(stack[1])
  BY <1>3 DEF CoreInv, StackOK
<1>5. Top.members \in SUBSET Points /\ dataset \in Datasets
  BY <1>1, <1>2 DEF Top, Calls, Kinds
<1>6. Cardinality(Top.members) \in Nat /\ MinAllowed \in Nat
  BY <1>5, FiniteParts, Sizes
<1>7. Cardinality(Top.members) >= MinAllowed
  BY <1>4 DEF CallOK, Top
<1>8. QED BY <1>6, <1>7

\* The values stay of their kind, and no call is too small.
LEMMA KindsStep ==
  ASSUME CoreInv, Next, StackOK', Built'
  PROVE  Kinds' /\ tooSmall' = 0
<1>1. Kinds /\ Phases /\ Built /\ StackOK /\ tooSmall = 0
  BY DEF CoreInv
<1>2. /\ dataset' = dataset /\ resumeFlag' = resumeFlag /\ saved' = saved
      /\ Points' = Points
  BY ConfigSame DEF Next, Construct, EndWhole, Split, CallForChild, Return,
     MapParents, UpdateTree, InitUtilities, Load, NothingToLoad
<1>3. CASE Construct
  <2>1. pc' \in {"load", "enter"}
    BY <1>3 DEF Construct
  <2>2. UNCHANGED <<clusters, tree, nextId, tooSmall, derived, rebuilt>>
    BY <1>3 DEF Construct
  <2>3. QED BY <1>1, <1>2, <2>1, <2>2 DEF Kinds, derived
<1>4. CASE EndWhole
  <2>1. ~ (Cardinality(Top.members) < MinAllowed)
    BY <1>4, CallIsLarge DEF EndWhole, Building
  <2>2. tooSmall' = tooSmall
    BY <1>4, <2>1 DEF EndWhole
  <2>3. pc' \in {"map", "children"}
    BY <1>4 DEF EndWhole, Pop
  <2>4. UNCHANGED <<clusters, tree, nextId, derived, rebuilt>>
    BY <1>4 DEF EndWhole
  <2>5. QED BY <1>1, <1>2, <2>2, <2>3, <2>4 DEF Kinds, derived
<1>5. CASE Return
  <2>1. pc' \in {"map", "children"}
    BY <1>5 DEF Return, Pop
  <2>2. UNCHANGED <<clusters, tree, nextId, tooSmall, derived, rebuilt>>
    BY <1>5 DEF Return
  <2>3. QED BY <1>1, <1>2, <2>1, <2>2 DEF Kinds, derived
<1>6. CASE Split \/ CallForChild
  <2>1. pc' \in {"enter", "children"} /\ UNCHANGED <<tooSmall, derived, rebuilt>>
    BY <1>6 DEF Split, CallForChild
  <2>2. rebuilt = "unloaded"
    BY <1>1, <1>6 DEF Split, CallForChild, Phases
  <2>3. nextId \in Nat \ {0} /\ clusters \in [Points -> Nat]
    BY <1>1 DEF Kinds
  <2>4. nextId' \in Nat \ {0}
    <3>1. nextId' = nextId \/ nextId' = nextId + 1
      BY <1>6 DEF Split, CallForChild
    <3>2. QED BY <3>1, <2>3
  <2>5. clusters' \in [Points -> Nat]
    <3>1. \A S : Assigned(S, nextId) \in [Points -> Nat]
      BY <2>3 DEF Assigned
    <3>2. clusters' = clusters \/ \E S : clusters' = Assigned(S, nextId)
      BY <1>6 DEF Split, CallForChild
    <3>3. QED BY <2>3, <3>1, <3>2
  <2>6. Shape(tree', nextId')
    BY <2>1, <2>2 DEF Built
  <2>7. \A n \in DOMAIN tree' : n \in Nat /\ tree'[n] \in Seq(Nat)
    BY <2>6, <2>4 DEF Shape
  <2>8. QED BY <1>1, <1>2, <2>1, <2>4, <2>5, <2>7 DEF Kinds, derived
<1>7. CASE MapParents
  <2>1. pc' = "moments" /\ hasMap' = TRUE /\ treeMoments' = [n \in DOMAIN tree |-> "none"]
    BY <1>7 DEF MapParents, AfterMap
  <2>2. UNCHANGED <<build, penultimates, invalid, rebuilt>>
    BY <1>7 DEF MapParents
  <2>3. \A n \in DOMAIN treeMoments' : treeMoments'[n] \in {"none", "number", "nan"}
    BY <2>1
  <2>4. DOMAIN treeMoments' = DOMAIN tree'
    BY <2>1, <2>2 DEF build
  <2>5. QED BY <1>1, <1>2, <2>1, <2>2, <2>3, <2>4 DEF Kinds, build
<1>8. CASE UpdateTree
  <2>1. /\ pc = "moments" /\ UNCHANGED <<build, hasMap, invalid, rebuilt>>
        /\ pc' \in {"failed", "ready", "utilities", "load"}
    BY <1>8 DEF UpdateTree
  <2> DEFINE moment(n) == IF n \in Poisoned THEN "nan" ELSE "number"
             leaves == Visited \ DOMAIN tree
  <2>2. \/ UNCHANGED <<treeMoments, penultimates>>
        \/ /\ treeMoments' = [n \in DOMAIN tree |->
                                IF n \in Visited THEN moment(n) ELSE treeMoments[n]]
           /\ penultimates' = [n \in DOMAIN penultimates \cup leaves |->
                                IF n \in leaves THEN moment(n) ELSE penultimates[n]]
    BY <1>8 DEF UpdateTree
  <2>3. \A n : moment(n) \in {"nan", "number"}
    OBVIOUS
  <2>4. /\ DOMAIN treeMoments = DOMAIN tree
        /\ \A n \in DOMAIN treeMoments : treeMoments[n] \in {"none", "number", "nan"}
        /\ \A n \in DOMAIN penultimates : penultimates[n] \in {"number", "nan"}
    BY <1>1, <2>1 DEF Kinds
  <2> HIDE DEF moment, leaves
  <2>5. \A n \in DOMAIN treeMoments' : treeMoments'[n] \in {"none", "number", "nan"}
    BY <2>2, <2>3, <2>4
  <2>6. \A n \in DOMAIN penultimates' : penultimates'[n] \in {"number", "nan"}
    BY <2>2, <2>3, <2>4
  <2>7. DOMAIN treeMoments' = DOMAIN tree'
    BY <2>1, <2>2, <2>4 DEF build
  <2>8. QED BY <1>1, <1>2, <2>1, <2>5, <2>6, <2>7 DEF Kinds, build
<1>9. CASE InitUtilities
  <2>1. /\ pc = "utilities" /\ UNCHANGED <<build, hasMap, treeMoments, penultimates, rebuilt>>
        /\ pc' \in {"failed", "moments"}
        /\ invalid' = Invalid(trainCount') /\ trainCount' = TrainCounts
    BY <1>9 DEF InitUtilities
  <2>2. NodesOf(tree) \subseteq Nat
    BY <1>1 DEF Kinds, NodesOf, Elements
  <2>3. invalid' \subseteq Nat
    BY <2>1, <2>2 DEF Invalid, TrainCounts
  <2>4. pc' = "moments" => DOMAIN treeMoments' = DOMAIN tree'
    BY <1>1, <2>1 DEF Kinds, build
  <2>5. QED BY <1>1, <1>2, <2>1, <2>3, <2>4 DEF Kinds, build
<1>10. CASE Load
  <2>1. /\ saved \in Saved /\ DOMAIN saved.clusters = Points
    BY <1>1, <1>10 DEF Load, Kinds
  <2>2. /\ saved.clusters \in [Points -> Nat]
        /\ \A n \in DOMAIN saved.tree : n \in Nat /\ saved.tree[n] \in Seq(Nat)
    BY <2>1, SavedAssumption
  <2>3. /\ tree' = saved.tree /\ clusters' = saved.clusters /\ pc' = "moments"
        /\ treeMoments' = [n \in DOMAIN saved.tree |-> "number"]
        /\ UNCHANGED <<nextId, tooSmall, hasMap, penultimates, invalid>>
        /\ rebuilt' \in {"unbuilt", "same", "different"}
    BY <1>10 DEF Load
  <2>4. /\ DOMAIN treeMoments' = DOMAIN tree'
        /\ \A n \in DOMAIN treeMoments' : treeMoments'[n] \in {"none", "number", "nan"}
    BY <2>3
  <2>5. QED BY <1>1, <1>2, <2>2, <2>3, <2>4 DEF Kinds
<1>11. CASE NothingToLoad
  <2>1. pc' \in {"failed", "ready"} /\ UNCHANGED <<build, derived, rebuilt>>
    BY <1>11 DEF NothingToLoad
  <2>2. QED BY <1>1, <1>2, <2>1 DEF Kinds, build, derived
<1>12. QED
  BY <1>3, <1>4, <1>5, <1>6, <1>7, <1>8, <1>9, <1>10, <1>11 DEF Next

\* Which ways of starting come to which place, after a step.
LEMMA PhasesStep ==
  ASSUME CoreInv, Next
  PROVE  Phases' /\ Started'
<1>1. Phases /\ Kinds
  BY DEF CoreInv
<1>2. resumeFlag' = resumeFlag /\ resumeFlag \in BOOLEAN
  BY <1>1, ConfigSame DEF Kinds, Next, Construct, EndWhole, Split, CallForChild, Return,
     MapParents, UpdateTree, InitUtilities, Load, NothingToLoad
<1>3. pc' # "start"
  BY DEF Next, Construct, EndWhole, Split, CallForChild, Return, Pop, MapParents, AfterMap,
     UpdateTree, InitUtilities, Load, NothingToLoad
<1>4. Phases'
  <2>1. CASE Construct
    BY <1>1, <1>2, <2>1 DEF Construct, Phases
  <2>2. CASE EndWhole \/ Return
    BY <1>1, <1>2, <2>2 DEF EndWhole, Return, Pop, Phases
  <2>3. CASE Split \/ CallForChild
    <3>1. pc \in {"enter", "children"} /\ pc' \in {"enter", "children"} /\ rebuilt' = rebuilt
      BY <2>3 DEF Split, CallForChild
    <3>2. QED BY <1>1, <1>2, <3>1 DEF Phases
  <2>4. CASE MapParents
    BY <1>1, <1>2, <2>4 DEF MapParents, AfterMap, Phases
  <2>5. CASE UpdateTree
    <3>1. /\ pc = "moments" /\ rebuilt' = rebuilt
          /\ pc' \in {"failed", "ready", "utilities", "load"}
          /\ pc' \in {"utilities", "load"} => rebuilt = "unloaded"
      BY <2>5 DEF UpdateTree
    <3>2. QED BY <1>1, <1>2, <3>1 DEF Phases
  <2>6. CASE InitUtilities
    <3>1. pc = "utilities" /\ rebuilt' = rebuilt /\ pc' \in {"failed", "moments"}
      BY <2>6 DEF InitUtilities
    <3>2. QED BY <1>1, <1>2, <3>1 DEF Phases
  <2>7. CASE Load
    <3>1. /\ pc = "load" /\ pc' = "moments"
          /\ resumeFlag => rebuilt' = "unbuilt"
          /\ ~resumeFlag => rebuilt' \in {"same", "different"}
      BY <2>7 DEF Load
    <3>2. QED BY <1>1, <1>2, <3>1 DEF Phases
  <2>8. CASE NothingToLoad
    BY <1>1, <1>2, <2>8 DEF NothingToLoad, Phases
  <2>9. QED
    BY <2>1, <2>2, <2>3, <2>4, <2>5, <2>6, <2>7, <2>8 DEF Next
<1>5. QED BY <1>3, <1>4 DEF Started

\* Every step keeps the invariant.
LEMMA CoreStep ==
  ASSUME CoreInv, [Next]_vars
  PROVE  CoreInv'
<1>1. CASE Next
  <2>1. StackOK' /\ Owners' /\ Built'
    <3>1. CASE Construct
      BY <3>1, ConstructStep
    <3>2. CASE EndWhole
      <4>1. Top.node \notin DOMAIN tree
        BY <3>2 DEF CoreInv, StackOK, EndWhole
      <4>2. QED BY <3>2, <4>1, PopStep DEF EndWhole, Building
    <3>3. CASE Return
      <4>1. stack # <<>> /\ stack \in Seq(Calls(Points))
        BY <3>3 DEF CoreInv, StackOK, Return, Building
      <4>2. 1 \in 1..Len(stack)
        BY <4>1, TailOfStack
      <4>3. Pending(1) = {}
        BY <3>3 DEF Return, Pending, Top, Elements
      <4>4. \A p \in Points : clusters[p] # Top.node
        BY <4>2, <4>3 DEF CoreInv, Owners, Top
      <4>5. QED BY <3>3, <4>4, PopStep DEF Return, Building
    <3>4. CASE Split
      BY <3>4, SplitStep
    <3>5. CASE CallForChild
      BY <3>5, CallStep
    <3>6. CASE MapParents \/ UpdateTree \/ InitUtilities \/ Load \/ NothingToLoad
      BY <3>6, LaterSteps
    <3>7. QED BY <1>1, <3>1, <3>2, <3>3, <3>4, <3>5, <3>6 DEF Next
  <2>2. Kinds' /\ tooSmall' = 0
    BY <1>1, <2>1, KindsStep
  <2>3. Phases' /\ Started'
    BY <1>1, PhasesStep
  <2>4. QED BY <2>1, <2>2, <2>3 DEF CoreInv
<1>2. CASE UNCHANGED vars
  <2>1. /\ dataset' = dataset /\ resumeFlag' = resumeFlag /\ saved' = saved /\ pc' = pc
        /\ stack' = stack /\ clusters' = clusters /\ tree' = tree /\ nextId' = nextId
        /\ tooSmall' = tooSmall /\ hasMap' = hasMap /\ treeMoments' = treeMoments
        /\ penultimates' = penultimates /\ invalid' = invalid /\ rebuilt' = rebuilt
    BY <1>2 DEF vars, config, build, derived
  <2>2. Points' = Points /\ MinAllowed' = MinAllowed
    BY <1>2, ConfigSame DEF vars
  <2>3. /\ Kinds' /\ Phases' /\ Started' /\ tooSmall' = 0
    BY <2>1, <2>2 DEF CoreInv, Kinds, Phases, Started
  <2>4. Built'
    BY <2>1, <2>2 DEF CoreInv, Built
  <2>5. Owners'
    BY <2>1, <2>2 DEF CoreInv, Owners, Pending
  <2>6. StackOK'
    <3>1. \A f : CallOK(f)' <=> CallOK(f)
      BY <2>1, <2>2 DEF CallOK
    <3>2. QED BY <2>1, <2>2, <3>1 DEF CoreInv, StackOK, Building, Top, CallOK
  <2>7. QED BY <2>3, <2>4, <2>5, <2>6 DEF CoreInv
<1>3. QED BY <1>1, <1>2

\* A process that starts has no tree, and its root holds every point.
LEMMA CoreInit ==
  ASSUME Init
  PROVE  CoreInv
<1>1. /\ dataset \in Datasets /\ pc = "start" /\ stack = <<>> /\ tree = <<>> /\ nextId = 1
      /\ clusters = [p \in Points |-> 0] /\ rebuilt = "unloaded" /\ tooSmall = 0
  BY DEF Init
<1>2. DOMAIN tree = {} /\ \A i \in 1..Len(stack) : FALSE
  BY <1>1
<1>3. saved = NoCheckpoint \/ (saved \in Saved /\ DOMAIN saved.clusters = Points)
  BY DEF Init
<1>4. Kinds
  <2>1. DOMAIN treeMoments = {} /\ DOMAIN penultimates = {} /\ invalid = {}
    BY DEF Init
  <2>2. hasMap \in BOOLEAN /\ resumeFlag \in BOOLEAN
    BY DEF Init
  <2>3. QED BY <1>1, <1>2, <1>3, <2>1, <2>2 DEF Kinds
<1>5. Phases /\ Started
  BY <1>1, <1>2 DEF Phases, Started
<1>6. StackOK /\ Owners
  <2>1. stack \in Seq(Calls(Points))
    BY <1>1
  <2>2. QED BY <1>1, <1>2, <2>1 DEF StackOK, Owners, Building
<1>7. Built
  <2>1. Shape(tree, nextId)
    BY <1>1, <1>2 DEF Shape
  <2>2. PICK p \in Points : TRUE
    BY <1>1, BuildAssumption DEF Points, PointsOf
  <2>3. QED BY <1>1, <1>2, <2>1, <2>2 DEF Built
<1>8. QED BY <1>1, <1>4, <1>5, <1>6, <1>7 DEF CoreInv

\* The invariant of the construction holds.
THEOREM CoreHolds == Spec => []CoreInv
BY CoreInit, CoreStep, PTL DEF Spec

\* What holds of the tree while a call is made for it, and afterwards.
LEMMA ProperFromCore == CoreInv => TreeIsProper
<1>1. SUFFICES ASSUME CoreInv, rebuilt = "unloaded"
               PROVE  /\ NodesOf(tree) = 0..nextId - 1
                      /\ \A m, n \in DOMAIN tree : \A i \in DOMAIN tree[m], j \in DOMAIN tree[n] :
                            /\ m < tree[m][i]
                            /\ tree[m][i] = tree[n][j] => m = n /\ i = j
                      /\ ~Building => {clusters[p] : p \in Points} = NodesOf(tree) \ DOMAIN tree
  BY DEF TreeIsProper
<1>2. /\ nextId \in Nat \ {0} /\ Shape(tree, nextId) /\ clusters \in [Points -> Nat]
      /\ \A p \in Points : clusters[p] < nextId
      /\ \A n \in 0..nextId - 1 :
            n \notin DOMAIN tree => \E p \in Points : clusters[p] = n
  BY <1>1 DEF CoreInv, Kinds, Built
<1>3. NodesOf(tree) = 0..nextId - 1
  BY <1>2, ShapeNodes
<1>4. ASSUME ~Building PROVE {clusters[p] : p \in Points} = NodesOf(tree) \ DOMAIN tree
  <2>1. stack = <<>>
    BY <1>1, <1>4 DEF CoreInv, StackOK
  <2>2. \A p \in Points : clusters[p] \notin DOMAIN tree
    BY <1>1, <2>1 DEF CoreInv, Built
  <2>3. \A p \in Points : clusters[p] \in 0..nextId - 1
    BY <1>2
  <2>4. QED BY <1>2, <1>3, <2>2, <2>3
<1>5. \A m, n \in DOMAIN tree : \A i \in DOMAIN tree[m], j \in DOMAIN tree[n] :
         /\ m < tree[m][i]
         /\ tree[m][i] = tree[n][j] => m = n /\ i = j
  BY <1>2 DEF Shape
<1>6. QED BY <1>3, <1>4, <1>5

\* The kinds of all values.
LEMMA TypesFromCore == CoreInv => TypeOK
<1>1. SUFFICES ASSUME CoreInv PROVE TypeOK
  OBVIOUS
<1>2. Kinds /\ StackOK /\ tooSmall = 0
  BY <1>1 DEF CoreInv
<1>3. nextId \in Nat \ {0}
  BY <1>2 DEF Kinds
<1>4. ASSUME NEW i \in DOMAIN stack
      PROVE  /\ stack[i].node \in 0..nextId - 1
             /\ stack[i].members \subseteq Points
             /\ \A j \in DOMAIN stack[i].todo : stack[i].todo[j] \subseteq stack[i].members
  <2>1. stack \in Seq(Calls(Points)) /\ i \in 1..Len(stack)
    BY <1>2, <1>4 DEF StackOK
  <2>2. stack[i] \in Calls(Points) /\ CallOK(stack[i])
    BY <1>2, <2>1 DEF StackOK
  <2>3. stack[i].node \in Nat /\ stack[i].members \subseteq Points
        /\ stack[i].todo \in Seq(SUBSET Points)
    BY <2>2 DEF Calls
  <2>4. stack[i].node < nextId
    BY <2>2 DEF CallOK
  <2>5. QED BY <1>3, <2>2, <2>3, <2>4 DEF CallOK
<1>5. Building => stack # <<>>
  BY <1>2 DEF StackOK
<1>6. QED BY <1>2, <1>4, <1>5 DEF Kinds, TypeOK

\* Every variable always holds a value of its kind: for every data set, every
\* minimum size of a cluster, and every checkpoint a process may find.
THEOREM BuildTypes == Spec => []TypeOK
BY CoreHolds, TypesFromCore, PTL

\* The size check of recursive_split (RECURSION END 2) never ends a call: the
\* root is large enough, and HDBSCAN's minimum, rounded to the nearest, is never
\* below that of the check.
THEOREM NoCallIsTooSmall == Spec => []SizeCheckNeverFires
<1>1. CoreInv => SizeCheckNeverFires
  BY DEF CoreInv, SizeCheckNeverFires
<1>2. QED BY <1>1, CoreHolds, PTL

\* At every moment of the recursion the ids given out are the nodes of one tree,
\* each below a smaller one; when it is over the leaves are the clusters in use.
THEOREM BuiltTreeIsProper == Spec => []TreeIsProper
BY CoreHolds, ProperFromCore, PTL

-----------------------------------------------------------------------------
(***************************************************************************)
(* The ways from the nodes up to the root.                                 *)
(***************************************************************************)

\* The parent of a node.
LEMMA ParentFacts ==
  ASSUME NEW t, NEW k \in Nat \ {0}, Shape(t, k), NEW c \in 1..k - 1
  PROVE  /\ ParentIn(t, c) \in DOMAIN t
         /\ c \in Elements(t[ParentIn(t, c)])
         /\ ParentIn(t, c) \in 0..c - 1
         /\ \A n \in DOMAIN t : c \in Elements(t[n]) => n = ParentIn(t, c)
<1>1. \E n \in DOMAIN t : c \in Elements(t[n])
  <2>1. PICK n \in DOMAIN t : \E i \in DOMAIN t[n] : t[n][i] = c
    BY DEF Shape
  <2>2. QED BY <2>1 DEF Elements
<1> DEFINE p == ParentIn(t, c)
<1>2. p \in DOMAIN t /\ c \in Elements(t[p])
  BY <1>1 DEF ParentIn
<1> HIDE DEF p
<1>3. PICK i \in DOMAIN t[p] : t[p][i] = c
  BY <1>2 DEF Elements
<1>4. p < c /\ p \in 0..k - 1
  BY <1>2, <1>3 DEF Shape
<1>5. ASSUME NEW n \in DOMAIN t, c \in Elements(t[n]) PROVE n = p
  <2>1. PICK j \in DOMAIN t[n] : t[n][j] = c
    BY <1>5 DEF Elements
  <2>2. t[n][j] = t[p][i]
    BY <1>3, <2>1
  <2>3. QED BY <1>2, <1>3, <2>1, <2>2 DEF Shape
<1>6. p \in 0..c - 1
  BY <1>4
<1>7. QED BY <1>2, <1>5, <1>6 DEF p

\* f[k] is the way up from k, when par maps each node to its parent.
IsWay(f, par, m) ==
    f = [k \in 0..m |-> IF k = 0 THEN {0} ELSE {k} \cup f[par[k]]]

\* There is such a function: by the smallest m that has none.
LEMMA WayExists ==
  ASSUME NEW m \in Nat, NEW par, \A k \in 1..m : par[k] \in 0..k - 1
  PROVE  \E f : IsWay(f, par, m)
<1> DEFINE Missing == {j \in 0..m : ~ \E f : IsWay(f, par, j)}
<1>0. m \in 0..m
  OBVIOUS
<1>1. SUFFICES ASSUME Missing # {} PROVE FALSE
  BY <1>0
<1>2. Missing \in SUBSET Nat
  OBVIOUS
<1>3. PICK j \in Missing : \A i \in Missing : j <= i
  BY <1>1, <1>2, SmallestNumber
<1>4. j \in 0..m /\ j \in Nat /\ ~ \E f : IsWay(f, par, j)
  OBVIOUS
<1>5. CASE j = 0
  <2> DEFINE f == [k \in 0..0 |-> {0}]
  <2>1. f = [k \in 0..0 |-> IF k = 0 THEN {0} ELSE {k} \cup f[par[k]]]
    OBVIOUS
  <2> HIDE DEF f
  <2>2. IsWay(f, par, j)
    BY <2>1, <1>5 DEF IsWay
  <2>3. QED BY <2>2, <1>4
<1>6. CASE j > 0
  <2>1. j - 1 \in 0..m /\ j - 1 \notin Missing
    BY <1>3, <1>4, <1>6
  <2>2. PICK g : IsWay(g, par, j - 1)
    BY <2>1
  <2> DEFINE f == [k \in 0..j |-> IF k = 0 THEN {0} ELSE {k} \cup g[par[k]]]
  <2>3. ASSUME NEW k \in 0..j - 1 PROVE f[k] = g[k]
    <3>1. g[k] = IF k = 0 THEN {0} ELSE {k} \cup g[par[k]]
      BY <2>2, <2>3 DEF IsWay
    <3>2. k \in 0..j
      BY <2>3, <1>4
    <3>3. QED BY <3>1, <3>2
  <2> DEFINE h == [k \in 0..j |-> IF k = 0 THEN {0} ELSE {k} \cup f[par[k]]]
  <2>4. ASSUME NEW k \in 0..j PROVE f[k] = h[k]
    <3>1. CASE k = 0
      BY <3>1
    <3>2. CASE k # 0
      <4>1. k \in 1..m
        BY <3>2, <1>4
      <4>2. par[k] \in 0..k - 1
        BY <4>1
      <4>3. par[k] \in 0..j - 1
        BY <4>1, <4>2, <1>4
      <4>4. f[par[k]] = g[par[k]]
        BY <4>3, <2>3
      <4>5. f[k] = {k} \cup g[par[k]]
        BY <3>2
      <4>6. h[k] = {k} \cup f[par[k]]
        BY <3>2
      <4> HIDE DEF f, h
      <4>7. QED BY <4>4, <4>5, <4>6
    <3>3. QED BY <3>1, <3>2
  <2>5. DOMAIN f = 0..j /\ DOMAIN h = 0..j
    OBVIOUS
  <2>6. f = h
    BY <2>4, <2>5
  <2>7. f = [k \in 0..j |-> IF k = 0 THEN {0} ELSE {k} \cup f[par[k]]]
    BY <2>6
  <2> HIDE DEF f
  <2>8. IsWay(f, par, j)
    BY <2>7 DEF IsWay
  <2>9. QED BY <2>8, <1>4
<1>7. QED BY <1>4, <1>5, <1>6

\* PathUp, of any tree.
Way(t, n) ==
    LET path[k \in NodesOf(t)] ==
            IF k = 0 THEN {0} ELSE {k} \cup path[ParentIn(t, k)]
    IN  path[n]

\* PathUp is the way in the tree that there is.
LEMMA PathUpIsWay == \A n : PathUp(n) = Way(tree, n)
BY DEF PathUp, Way

\* One step of the way.
LEMMA WaySteps ==
  ASSUME NEW t, NEW k \in Nat \ {0}, Shape(t, k)
  PROVE  /\ Way(t, 0) = {0}
         /\ \A n \in 1..k - 1 : Way(t, n) = {n} \cup Way(t, ParentIn(t, n))
<1> DEFINE P(n) == ParentIn(t, n)
           par == [n \in 1..k - 1 |-> P(n)]
           Is(f) == f = [n \in NodesOf(t) |-> IF n = 0 THEN {0} ELSE {n} \cup f[P(n)]]
           path == CHOOSE f : Is(f)
<1>1. NodesOf(t) = 0..k - 1
  BY ShapeNodes
<1>2. \A n \in 1..k - 1 : P(n) \in 0..n - 1
  BY ParentFacts
<1>3. \E f : Is(f)
  <2> HIDE DEF P
  <2>1. \A n \in 1..k - 1 : par[n] = P(n)
    OBVIOUS
  <2> HIDE DEF par
  <2>2. k - 1 \in Nat /\ \A n \in 1..k - 1 : par[n] \in 0..n - 1
    BY <1>2, <2>1
  <2>3. PICK f : IsWay(f, par, k - 1)
    BY <2>2, WayExists
  <2>4. f = [n \in 0..k - 1 |-> IF n = 0 THEN {0} ELSE {n} \cup f[par[n]]]
    BY <2>3 DEF IsWay
  <2>5. \A n \in 0..k - 1 : n # 0 => par[n] = P(n)
    BY <2>1
  <2>6. f = [n \in 0..k - 1 |-> IF n = 0 THEN {0} ELSE {n} \cup f[P(n)]]
    BY <2>4, <2>5
  <2>7. QED BY <2>6, <1>1
<1>4. Is(path)
  BY <1>3
<1>5. \A n : Way(t, n) = path[n]
  BY DEF Way
<1>6. path = [n \in 0..k - 1 |-> IF n = 0 THEN {0} ELSE {n} \cup path[P(n)]]
  BY <1>1, <1>4
<1> HIDE DEF path, P
<1>7. path[0] = {0}
  <2>1. 0 \in 0..k - 1
    OBVIOUS
  <2>2. QED BY <2>1, <1>6
<1>8. ASSUME NEW n \in 1..k - 1 PROVE path[n] = {n} \cup path[P(n)]
  <2>1. n \in 0..k - 1 /\ n # 0
    OBVIOUS
  <2>2. QED BY <2>1, <1>6
<1>9. QED BY <1>5, <1>7, <1>8 DEF P

\* A way goes up: from a node, over parents, to the root.
LEMMA WayGoesUp ==
  ASSUME NEW t, NEW k \in Nat \ {0}, Shape(t, k), NEW n \in 0..k - 1
  PROVE  /\ n \in Way(t, n) /\ 0 \in Way(t, n)
         /\ Way(t, n) \subseteq 0..n
         /\ \A x \in Way(t, n) :
              /\ Way(t, x) \subseteq Way(t, n)
              /\ x # n => \E c \in Way(t, n) : c # 0 /\ c \in 1..k - 1 /\ x = ParentIn(t, c)
<1> DEFINE Good(l) ==
             /\ l \in Way(t, l) /\ 0 \in Way(t, l)
             /\ Way(t, l) \subseteq 0..l
             /\ \A x \in Way(t, l) :
                  /\ Way(t, x) \subseteq Way(t, l)
                  /\ x # l => \E c \in Way(t, l) : c # 0 /\ c \in 1..k - 1 /\ x = ParentIn(t, c)
           Bad == {l \in 0..k - 1 : ~ Good(l)}
<1>1. /\ Way(t, 0) = {0}
      /\ \A l \in 1..k - 1 : Way(t, l) = {l} \cup Way(t, ParentIn(t, l))
  BY WaySteps
<1>2. \A l \in 1..k - 1 : ParentIn(t, l) \in 0..l - 1
  BY ParentFacts
<1>3. ASSUME Bad # {} PROVE FALSE
  <2>1. Bad \in SUBSET Nat
    OBVIOUS
  <2>2. PICK l \in Bad : \A i \in Bad : l <= i
    BY <2>1, <1>3, SmallestNumber
  <2>3. l \in 0..k - 1 /\ ~ Good(l)
    OBVIOUS
  <2>4. l # 0
    <3>1. Good(0)
      BY <1>1
    <3>2. QED BY <2>3, <3>1
  <2>5. l \in 1..k - 1
    BY <2>3, <2>4
  <2> DEFINE p == ParentIn(t, l)
  <2>6. p \in 0..l - 1 /\ Way(t, l) = {l} \cup Way(t, p)
    BY <1>1, <1>2, <2>5
  <2>7. Good(p)
    <3>1. p \in 0..k - 1 /\ p < l
      BY <2>5, <2>6
    <3> HIDE DEF p, Good
    <3>2. p \notin Bad
      BY <2>2, <2>5, <3>1
    <3>3. QED BY <3>1, <3>2
  <2>8. l \in Way(t, l) /\ 0 \in Way(t, l)
    BY <2>6, <2>7
  <2>9. Way(t, l) \subseteq 0..l
    BY <2>5, <2>6, <2>7
  <2>10. ASSUME NEW x \in Way(t, l)
         PROVE  /\ Way(t, x) \subseteq Way(t, l)
                /\ x # l => \E c \in Way(t, l) : c # 0 /\ c \in 1..k - 1 /\ x = ParentIn(t, c)
    <3>1. CASE x = l
      BY <3>1
    <3>2. CASE x # l
      <4>1. x \in Way(t, p)
        BY <2>6, <2>10, <3>2
      <4>2. Way(t, x) \subseteq Way(t, l)
        BY <4>1, <2>6, <2>7
      <4>3. CASE x = p
        BY <4>2, <4>3, <2>5, <2>8
      <4>4. CASE x # p
        BY <4>1, <4>2, <4>4, <2>6, <2>7
      <4>5. QED BY <4>3, <4>4
    <3>3. QED BY <3>1, <3>2
  <2>11. Good(l)
    BY <2>8, <2>9, <2>10
  <2>12. QED BY <2>3, <2>11
<1>4. Good(n)
  BY <1>3
<1>5. QED BY <1>4

-----------------------------------------------------------------------------
(***************************************************************************)
(* Constructing the sampler, and resuming with the tree it has built.      *)
(***************************************************************************)

\* The nodes with no training prompt below them.
Unused == {n \in NodesOf(tree) : \A a \in Arms : n \notin Way(tree, clusters[a])}

\* compute_subtree_counts lists these nodes as invalid.
LEMMA InvalidIsUnused ==
  ASSUME CoreInv
  PROVE  Invalid(TrainCounts) = Unused
<1>1. dataset \in Datasets
  BY DEF CoreInv, Kinds
<1>2. IsFiniteSet(Arms)
  BY <1>1, BuildAssumption DEF Arms
<1> DEFINE At(n) == {a \in Arms : n \in PathUp(clusters[a])}
<1>3. ASSUME NEW n PROVE Cardinality(At(n)) = 0 <=> At(n) = {}
  <2>1. IsFiniteSet(At(n))
    BY <1>2, FS_Subset
  <2> HIDE DEF At
  <2>2. QED BY <2>1, FS_EmptySet
<1>4. DOMAIN TrainCounts = NodesOf(tree)
  BY DEF TrainCounts
<1>5. \A n \in NodesOf(tree) : TrainCounts[n] = Cardinality(At(n))
  BY DEF TrainCounts
<1>6. \A n : At(n) = {} <=> \A a \in Arms : n \notin Way(tree, clusters[a])
  BY PathUpIsWay
<1> HIDE DEF At
<1>7. Invalid(TrainCounts) = {n \in NodesOf(tree) : At(n) = {}}
  BY <1>3, <1>4, <1>5 DEF Invalid
<1>8. QED BY <1>6, <1>7 DEF Unused

\* The tree, once it is built.
LEMMA TreeFacts ==
  ASSUME CoreInv, stack = <<>>, rebuilt \in {"unloaded", "same"}
  PROVE  /\ nextId \in Nat \ {0} /\ Shape(tree, nextId)
         /\ NodesOf(tree) = 0..nextId - 1
         /\ DOMAIN tree \subseteq NodesOf(tree)
         /\ Arms # {} /\ Arms \subseteq Points
         /\ \A p \in Points : clusters[p] \in NodesOf(tree) \ DOMAIN tree
         /\ \A n \in NodesOf(tree) \ DOMAIN tree : \E p \in Points : clusters[p] = n
<1>1. /\ nextId \in Nat \ {0} /\ Shape(tree, nextId) /\ clusters \in [Points -> Nat]
      /\ dataset \in Datasets
      /\ \A p \in Points : clusters[p] < nextId
      /\ \A n \in 0..nextId - 1 :
            n \notin DOMAIN tree => \E p \in Points : clusters[p] = n
  BY DEF CoreInv, Kinds, Built
<1>2. \A i \in 1..Len(stack) : FALSE
  OBVIOUS
<1>3. \A p \in Points : clusters[p] \notin DOMAIN tree
  BY <1>2 DEF CoreInv, Built
<1>4. \A p \in Points : clusters[p] \in 0..nextId - 1
  BY <1>1
<1>5. NodesOf(tree) = 0..nextId - 1
  BY <1>1, ShapeNodes
<1>6. Arms # {} /\ Arms \subseteq Points
  BY <1>1, Sizes, BuildAssumption DEF Arms
<1>7. DOMAIN tree \subseteq NodesOf(tree)
  BY DEF NodesOf
<1>8. QED BY <1>1, <1>3, <1>4, <1>5, <1>6, <1>7

\* The way from a leaf: it is the only leaf on it.
LEMMA LeafWays ==
  ASSUME CoreInv, stack = <<>>, rebuilt \in {"unloaded", "same"},
         NEW l \in NodesOf(tree) \ DOMAIN tree
  PROVE  /\ l \in Way(tree, l) /\ 0 \in Way(tree, l)
         /\ Way(tree, l) \subseteq NodesOf(tree)
         /\ \A n \in Way(tree, l) :
              /\ Way(tree, n) \subseteq Way(tree, l)
              /\ n # l => /\ n \in DOMAIN tree
                          /\ \E c \in Way(tree, l) : c # 0 /\ c \in Elements(tree[n])
<1>1. /\ nextId \in Nat \ {0} /\ Shape(tree, nextId)
      /\ NodesOf(tree) = 0..nextId - 1
  BY TreeFacts
<1>2. l \in 0..nextId - 1 /\ l \in Nat
  BY <1>1
<1>3. /\ l \in Way(tree, l) /\ 0 \in Way(tree, l)
      /\ Way(tree, l) \subseteq 0..l
      /\ \A x \in Way(tree, l) :
           /\ Way(tree, x) \subseteq Way(tree, l)
           /\ x # l => \E c \in Way(tree, l) :
                          c # 0 /\ c \in 1..nextId - 1 /\ x = ParentIn(tree, c)
  BY <1>1, <1>2, WayGoesUp
<1>4. Way(tree, l) \subseteq NodesOf(tree)
  BY <1>1, <1>2, <1>3
<1>5. \A c \in 1..nextId - 1 :
        ParentIn(tree, c) \in DOMAIN tree /\ c \in Elements(tree[ParentIn(tree, c)])
  BY <1>1, ParentFacts
<1>6. QED BY <1>3, <1>4, <1>5

\* torch.stack gets at least one tensor: no visited node has only invalid
\* children.
LEMMA NoDeadEnd ==
  ASSUME CoreInv, stack = <<>>, rebuilt \in {"unloaded", "same"},
         invalid = {} \/ invalid = Unused,
         NEW n \in Visited, n \in DOMAIN tree
  PROVE  ValidChildren(n) # {}
<1>1. Shape(tree, nextId)
  BY TreeFacts
<1>2. CASE invalid = {}
  <2>1. tree[n] # <<>> /\ tree[n] \in Seq(Nat)
    BY <1>1 DEF Shape
  <2>2. 1 \in DOMAIN tree[n]
    BY <2>1
  <2>3. QED BY <2>2, <1>2 DEF ValidChildren, Elements
<1>3. CASE invalid = Unused
  <2>1. n \in NodesOf(tree)
    BY DEF Visited
  <2>2. \E a \in Arms : n \in Way(tree, clusters[a])
    <3>1. CASE n = 0
      <4>1. PICK a \in Arms : TRUE
        BY TreeFacts
      <4>2. clusters[a] \in NodesOf(tree) \ DOMAIN tree
        BY TreeFacts
      <4>3. QED BY <3>1, <4>2, LeafWays
    <3>2. CASE n # 0
      <4>1. n \in Way(tree, n)
        <5>1. nextId \in Nat \ {0} /\ NodesOf(tree) = 0..nextId - 1
          BY TreeFacts
        <5>2. QED BY <5>1, <1>1, <2>1, WayGoesUp
      <4>2. (Way(tree, n) \ {0}) \cap invalid = {}
        BY PathUpIsWay DEF Visited
      <4>3. QED BY <1>3, <2>1, <3>2, <4>1, <4>2 DEF Unused
    <3>3. QED BY <3>1, <3>2
  <2>3. PICK a \in Arms : n \in Way(tree, clusters[a])
    BY <2>2
  <2>4. clusters[a] \in NodesOf(tree) \ DOMAIN tree
    BY TreeFacts
  <2>5. PICK c \in Way(tree, clusters[a]) : c \in Elements(tree[n])
    BY <2>3, <2>4, LeafWays
  <2>6. c \notin invalid
    BY <1>3, <2>5 DEF Unused
  <2>7. QED BY <2>5, <2>6 DEF ValidChildren
<1>4. QED BY <1>2, <1>3

\* The nodes above a training prompt are visited, and no NaN reaches them.
LEMMA WayIsClean ==
  ASSUME CoreInv, stack = <<>>, rebuilt \in {"unloaded", "same"},
         (~Targeting /\ invalid = {}) \/ invalid = Unused,
         NEW a \in Arms, NEW n \in Way(tree, clusters[a])
  PROVE  n \in Visited /\ n \notin Poisoned
<1>1. clusters[a] \in NodesOf(tree) \ DOMAIN tree
  BY TreeFacts
<1>2. n \in NodesOf(tree) /\ Way(tree, n) \subseteq Way(tree, clusters[a])
  BY <1>1, LeafWays
<1>3. \A x \in Way(tree, clusters[a]) : x \notin invalid
  BY DEF Unused
<1>4. n \in Visited
  BY <1>2, <1>3, PathUpIsWay DEF Visited
<1>5. ASSUME n \in Poisoned PROVE FALSE
  <2>1. PICK l \in NodesOf(tree) \ DOMAIN tree :
          /\ n \in Way(tree, l)
          /\ PromptsOf(l) = {}
          /\ (Way(tree, l) \ Way(tree, n)) \cap invalid = {}
    BY <1>5, PathUpIsWay DEF Poisoned
  <2>2. \A b \in Arms : clusters[b] # l
    BY <2>1 DEF PromptsOf
  <2>3. CASE ~Targeting
    <3>1. Points = Arms
      BY <2>3 DEF Targeting, Points, PointsOf, Arms
    <3>2. QED BY <2>2, <3>1, TreeFacts
  <2>4. CASE invalid = Unused
    <3>1. ASSUME NEW b \in Arms PROVE l \notin Way(tree, clusters[b])
      <4>1. clusters[b] \in NodesOf(tree) \ DOMAIN tree
        BY TreeFacts
      <4>2. QED BY <2>1, <2>2, <4>1, LeafWays
    <3>2. l \in invalid
      BY <2>4, <3>1 DEF Unused
    <3>3. l \in Way(tree, l)
      BY LeafWays
    <3>4. l \in Way(tree, n)
      BY <2>1, <3>2, <3>3
    <3>5. QED BY <1>2, <3>1, <3>4
  <2>5. QED BY <2>3, <2>4
<1>6. QED BY <1>4, <1>5

\* The leaves have moments, which update_tree gives them on its first call.
LeavesKnown == NodesOf(tree) \ DOMAIN tree \subseteq DOMAIN penultimates

\* The invariant of a start without the flag that finds no checkpoint or one
\* that holds the tree just built; with the flag there is no parent map.
StartInv ==
    /\ resumeFlag => ~hasMap
    /\ ~resumeFlag /\ rebuilt \in {"unloaded", "same"} =>
        /\ pc # "failed"
        /\ trainCount = <<>> => invalid = {}
        /\ trainCount # <<>> => Targeting /\ invalid = Unused /\ LeavesKnown
        /\ pc \in {"start", "enter", "children", "map"} => trainCount = <<>>
        /\ pc = "utilities" => LeavesKnown /\ Targeting
        /\ pc \in {"load", "ready"} \/ rebuilt = "same" =>
               LeavesKnown /\ (Targeting => trainCount # <<>>)
        /\ pc \in {"load", "ready"} => MomentsUsable
        /\ pc \in {"moments", "utilities", "load", "ready"} =>
               hasMap /\ childToParent = ParentMap(tree)

\* MomentsUsable, of a tree, clusters and moments.
Usable(arms, t, c, inner, leaf) ==
    \A a \in arms : \A n \in Way(t, c[a]) :
        IF n \in DOMAIN t THEN inner[n] = "number"
        ELSE n \in DOMAIN leaf /\ leaf[n] = "number"

\* MomentsUsable says that of the variables.
LEMMA UsableNow == MomentsUsable <=> Usable(Arms, tree, clusters, treeMoments, penultimates)
BY PathUpIsWay DEF MomentsUsable, Usable

\* The same after a step.
LEMMA UsableNext ==
  MomentsUsable' <=> Usable(Arms', tree', clusters', treeMoments', penultimates')
<1>1. \A n : PathUp(n)' = Way(tree', n)
  BY DEF PathUp, Way
<1>2. QED BY <1>1 DEF MomentsUsable, Usable

\* update_tree succeeds, and knows the moments of every leaf it has come to.
LEMMA UpdateSucceeds ==
  ASSUME CoreInv, StartInv, UpdateTree, ~resumeFlag, rebuilt \in {"unloaded", "same"}
  PROVE  /\ pc' # "failed"
         /\ LeavesKnown'
         /\ Targeting => trainCount # <<>> \/ pc' = "utilities"
         /\ pc' = "utilities" => Targeting
         /\ pc' \in {"load", "ready"} => MomentsUsable'
<1>1. /\ pc = "moments" /\ stack = <<>>
      /\ tree' = tree /\ clusters' = clusters /\ rebuilt' = rebuilt
      /\ Arms' = Arms
  <2>1. pc = "moments" /\ tree' = tree /\ clusters' = clusters /\ rebuilt' = rebuilt
    BY DEF UpdateTree, build
  <2>2. stack = <<>>
    BY <2>1 DEF CoreInv, StackOK, Building
  <2>3. Arms' = Arms
    BY ConfigSame DEF UpdateTree
  <2>4. QED BY <2>1, <2>2, <2>3
<1>2. /\ trainCount = <<>> => invalid = {}
      /\ trainCount # <<>> => Targeting /\ invalid = Unused /\ LeavesKnown
      /\ rebuilt = "same" => LeavesKnown /\ (Targeting => trainCount # <<>>)
  BY DEF StartInv
<1> DEFINE moment(n) == IF n \in Poisoned THEN "nan" ELSE "number"
           leaves == Visited \ DOMAIN tree
<1>3. \A n \in Visited \cap DOMAIN tree : ValidChildren(n) # {}
  BY <1>1, <1>2, NoDeadEnd
<1>4. /\ treeMoments' = [n \in DOMAIN tree |->
                           IF n \in Visited THEN moment(n) ELSE treeMoments[n]]
      /\ penultimates' = [n \in DOMAIN penultimates \cup leaves |->
                           IF n \in leaves THEN moment(n) ELSE penultimates[n]]
      /\ pc' = IF rebuilt # "unloaded" THEN "ready"
               ELSE IF Targeting /\ trainCount = <<>> THEN "utilities"
               ELSE "load"
  BY <1>3 DEF UpdateTree
<1>5. LeavesKnown'
  <2>1. CASE trainCount = <<>>
    <3>1. Visited = NodesOf(tree)
      BY <1>2, <2>1 DEF Visited
    <3>2. QED BY <1>1, <1>4, <3>1 DEF LeavesKnown
  <2>2. CASE trainCount # <<>>
    BY <1>1, <1>2, <1>4, <2>2 DEF LeavesKnown
  <2>3. QED BY <2>1, <2>2
<1>6. /\ pc' # "failed"
      /\ Targeting => trainCount # <<>> \/ pc' = "utilities"
      /\ pc' = "utilities" => Targeting
  BY <1>2, <1>4
<1>7. ASSUME pc' \in {"load", "ready"} PROVE MomentsUsable'
  <2>1. (~Targeting /\ invalid = {}) \/ invalid = Unused
    BY <1>2, <1>6, <1>7
  <2>2. ASSUME NEW a \in Arms, NEW n \in Way(tree, clusters[a])
        PROVE  IF n \in DOMAIN tree THEN treeMoments'[n] = "number"
               ELSE n \in DOMAIN penultimates' /\ penultimates'[n] = "number"
    <3>1. n \in Visited /\ n \notin Poisoned
      BY <1>1, <2>1, WayIsClean
    <3>2. moment(n) = "number"
      BY <3>1
    <3> HIDE DEF moment
    <3>3. QED BY <1>4, <3>1, <3>2
  <2>3. Usable(Arms', tree', clusters', treeMoments', penultimates')
    BY <1>1, <2>2 DEF Usable
  <2>4. QED BY <2>3, UsableNext
<1>8. QED BY <1>5, <1>6, <1>7

\* Every step keeps the invariant.
LEMMA StartStep ==
  ASSUME CoreInv, StartInv, [Next]_vars
  PROVE  StartInv'
<1>1. Phases /\ Kinds /\ resumeFlag \in BOOLEAN
  BY DEF CoreInv, Kinds
<1>2. CASE Next
  <2>1. /\ resumeFlag' = resumeFlag /\ Arms' = Arms /\ Targeting' = Targeting
        /\ saved' = saved
    BY <1>2, ConfigSame DEF Next, Construct, EndWhole, Split, CallForChild, Return,
       MapParents, UpdateTree, InitUtilities, Load, NothingToLoad
  <2>2. (resumeFlag => ~hasMap) /\ (rebuilt = "unbuilt" => resumeFlag)
    BY <1>1 DEF StartInv, Phases
  <2>3. CASE Construct \/ EndWhole \/ Split \/ CallForChild \/ Return
    <3>1. /\ pc \in {"start", "enter", "children"}
          /\ UNCHANGED <<derived, rebuilt>>
          /\ pc' \in {"enter", "children", "map", "load"}
          /\ ~resumeFlag => pc' # "load"
      BY <2>3 DEF Construct, EndWhole, Split, CallForChild, Return, Pop
    <3>2. rebuilt = "unloaded" /\ rebuilt' = "unloaded"
      BY <3>1, <1>1 DEF Phases
    <3>3. ~resumeFlag => trainCount = <<>> /\ invalid = {}
      BY <3>1, <3>2 DEF StartInv
    <3>4. hasMap' = hasMap /\ trainCount' = trainCount /\ invalid' = invalid
      BY <3>1 DEF derived
    <3>5. QED BY <2>1, <2>2, <3>1, <3>2, <3>3, <3>4 DEF StartInv
  <2>4. CASE MapParents
    <3>1. /\ pc = "map" /\ pc' = "moments" /\ hasMap' = TRUE
          /\ childToParent' = ParentMap(tree) /\ UNCHANGED <<build, trainCount, invalid, rebuilt>>
      BY <2>4 DEF MapParents, AfterMap
    <3>2. ~resumeFlag /\ rebuilt = "unloaded" /\ rebuilt' = "unloaded"
      BY <3>1, <1>1 DEF Phases
    <3>3. trainCount = <<>> /\ invalid = {}
      BY <3>1, <3>2 DEF StartInv
    <3>4. ParentMap(tree)' = ParentMap(tree)
      BY <3>1 DEF build
    <3>5. QED BY <2>1, <3>1, <3>2, <3>3, <3>4 DEF StartInv
  <2>5. CASE UpdateTree
    <3>1. /\ pc = "moments" /\ tree' = tree /\ clusters' = clusters
          /\ UNCHANGED <<childToParent, hasMap, trainCount, invalid, rebuilt>>
          /\ pc' \in {"failed", "ready", "utilities", "load"}
      BY <2>5 DEF UpdateTree, build
    <3>2. CASE resumeFlag
      <4>1. hasMap' = FALSE
        BY <1>1, <2>2, <3>1, <3>2 DEF Kinds
      <4>2. QED BY <2>1, <3>2, <4>1 DEF StartInv
    <3>3. CASE ~resumeFlag /\ rebuilt \in {"unloaded", "same"}
      <4>1. /\ pc' # "failed"
            /\ LeavesKnown'
            /\ Targeting => trainCount # <<>> \/ pc' = "utilities"
            /\ pc' = "utilities" => Targeting
            /\ pc' \in {"load", "ready"} => MomentsUsable'
        BY <2>5, <3>3, UpdateSucceeds
      <4>2. Unused' = Unused
        BY <2>1, <3>1 DEF Unused
      <4>3. ParentMap(tree)' = ParentMap(tree)
        BY <3>1
      <4>4. /\ trainCount = <<>> => invalid = {}
            /\ trainCount # <<>> => Targeting /\ invalid = Unused
            /\ rebuilt = "same" => (Targeting => trainCount # <<>>)
            /\ hasMap /\ childToParent = ParentMap(tree)
        BY <3>1, <3>3 DEF StartInv
      <4>5. QED BY <2>1, <3>1, <3>3, <4>1, <4>2, <4>3, <4>4 DEF StartInv
    <3>4. CASE ~resumeFlag /\ rebuilt \notin {"unloaded", "same"}
      BY <2>1, <3>1, <3>4 DEF StartInv
    <3>5. QED BY <1>1, <3>2, <3>3, <3>4
  <2>6. CASE InitUtilities
    <3>1. /\ pc = "utilities" /\ tree' = tree /\ clusters' = clusters
          /\ UNCHANGED <<childToParent, hasMap, penultimates, rebuilt>>
          /\ trainCount' = TrainCounts /\ invalid' = Invalid(TrainCounts)
          /\ pc' = IF NodesOf(tree) \ (DOMAIN tree \cup {0}) \subseteq DOMAIN penultimates
                   THEN "moments" ELSE "failed"
      BY <2>6 DEF InitUtilities, build
    <3>2. ~resumeFlag /\ rebuilt = "unloaded" /\ rebuilt' = "unloaded"
      BY <3>1, <1>1 DEF Phases
    <3>3. LeavesKnown /\ Targeting /\ hasMap /\ childToParent = ParentMap(tree)
      BY <3>1, <3>2 DEF StartInv
    <3>4. pc' = "moments"
      BY <3>1, <3>3 DEF LeavesKnown
    <3>5. invalid' = Unused'
      <4>1. Unused' = Unused
        BY <2>1, <3>1 DEF Unused
      <4>2. QED BY <3>1, <4>1, InvalidIsUnused
    <3>6. trainCount' # <<>>
      <4>1. 0 \in DOMAIN TrainCounts
        BY DEF TrainCounts, NodesOf
      <4>2. DOMAIN <<>> = {}
        OBVIOUS
      <4> HIDE DEF TrainCounts
      <4>3. QED BY <3>1, <4>1, <4>2
    <3>7. LeavesKnown'
      BY <3>1, <3>3 DEF LeavesKnown
    <3>8. ParentMap(tree)' = ParentMap(tree)
      BY <3>1
    <3>9. QED BY <2>1, <3>1, <3>2, <3>3, <3>4, <3>5, <3>6, <3>7, <3>8 DEF StartInv
  <2>7. CASE Load
    <3>1. /\ pc = "load" /\ pc' = "moments"
          /\ tree' = saved.tree /\ clusters' = saved.clusters
          /\ UNCHANGED <<childToParent, hasMap, penultimates, trainCount, invalid>>
          /\ rebuilt' = IF resumeFlag THEN "unbuilt"
                        ELSE IF saved = [tree |-> tree, clusters |-> clusters] THEN "same"
                        ELSE "different"
      BY <2>7 DEF Load
    <3>2. rebuilt = "unloaded"
      BY <3>1, <1>1 DEF Phases
    <3>3. CASE resumeFlag
      BY <2>1, <2>2, <3>1, <3>3 DEF StartInv
    <3>4. CASE ~resumeFlag /\ rebuilt' = "same"
      <4>1. saved = [tree |-> tree, clusters |-> clusters]
        BY <3>1, <3>4
      <4>2. tree' = tree /\ clusters' = clusters
        <5>1. saved.tree = tree /\ saved.clusters = clusters
          BY <4>1
        <5>2. QED BY <3>1, <5>1
      <4>3. /\ trainCount = <<>> => invalid = {}
            /\ trainCount # <<>> => Targeting /\ invalid = Unused
            /\ LeavesKnown /\ (Targeting => trainCount # <<>>)
            /\ hasMap /\ childToParent = ParentMap(tree)
        BY <3>1, <3>2, <3>4 DEF StartInv
      <4>4. Unused' = Unused
        BY <2>1, <4>2 DEF Unused
      <4>5. LeavesKnown'
        BY <3>1, <4>2, <4>3 DEF LeavesKnown
      <4>6. ParentMap(tree)' = ParentMap(tree)
        BY <4>2
      <4>7. QED BY <2>1, <3>1, <3>4, <4>3, <4>4, <4>5, <4>6 DEF StartInv
    <3>5. CASE ~resumeFlag /\ rebuilt' = "different"
      BY <2>1, <3>5 DEF StartInv
    <3>6. QED BY <1>1, <3>1, <3>3, <3>4, <3>5
  <2>8. CASE NothingToLoad
    <3>1. /\ pc = "load" /\ UNCHANGED <<build, derived, rebuilt>>
          /\ pc' = IF resumeFlag THEN "failed" ELSE "ready"
      BY <2>8 DEF NothingToLoad
    <3>2. rebuilt = "unloaded"
      BY <3>1, <1>1 DEF Phases
    <3>3. /\ tree' = tree /\ clusters' = clusters /\ rebuilt' = rebuilt
          /\ UNCHANGED <<childToParent, hasMap, treeMoments, penultimates, trainCount, invalid>>
      BY <3>1 DEF build, derived
    <3>4. CASE resumeFlag
      BY <2>1, <2>2, <3>3, <3>4 DEF StartInv
    <3>5. CASE ~resumeFlag
      <4>1. /\ trainCount = <<>> => invalid = {}
            /\ trainCount # <<>> => Targeting /\ invalid = Unused
            /\ LeavesKnown /\ (Targeting => trainCount # <<>>)
            /\ MomentsUsable
            /\ hasMap /\ childToParent = ParentMap(tree)
        BY <3>1, <3>2, <3>5 DEF StartInv
      <4>2. Unused' = Unused
        BY <2>1, <3>3 DEF Unused
      <4>3. LeavesKnown'
        BY <3>3, <4>1 DEF LeavesKnown
      <4>4. MomentsUsable'
        BY <2>1, <3>3, <4>1, UsableNow, UsableNext
      <4>5. ParentMap(tree)' = ParentMap(tree)
        BY <3>3
      <4>6. QED BY <2>1, <3>1, <3>2, <3>3, <3>5, <4>1, <4>2, <4>3, <4>4, <4>5 DEF StartInv
    <3>6. QED BY <3>4, <3>5
  <2>9. QED
    BY <1>2, <2>3, <2>4, <2>5, <2>6, <2>7, <2>8 DEF Next
<1>3. CASE UNCHANGED vars
  <2>1. /\ resumeFlag' = resumeFlag /\ pc' = pc /\ clusters' = clusters /\ tree' = tree
        /\ hasMap' = hasMap /\ childToParent' = childToParent /\ treeMoments' = treeMoments
        /\ penultimates' = penultimates /\ trainCount' = trainCount
        /\ invalid' = invalid /\ rebuilt' = rebuilt
    BY <1>3 DEF vars, config, build, derived
  <2>2. Arms' = Arms /\ Targeting' = Targeting
    BY <1>3, ConfigSame DEF vars
  <2>3. Unused' = Unused /\ (LeavesKnown' <=> LeavesKnown)
    BY <2>1, <2>2 DEF Unused, LeavesKnown
  <2>4. MomentsUsable' <=> MomentsUsable
    BY <2>1, <2>2, UsableNow, UsableNext
  <2>5. ParentMap(tree)' = ParentMap(tree)
    BY <2>1
  <2>6. QED BY <2>1, <2>2, <2>3, <2>4, <2>5 DEF StartInv
<1>4. QED BY <1>2, <1>3

\* The invariant of a start holds.
THEOREM StartHolds == Spec => [](CoreInv /\ StartInv)
<1>1. Init => StartInv
  <2>1. SUFFICES ASSUME Init PROVE StartInv
    OBVIOUS
  <2>2. pc = "start" /\ hasMap = FALSE /\ trainCount = <<>> /\ invalid = {} /\ rebuilt = "unloaded"
    BY <2>1 DEF Init
  <2>3. QED BY <2>2 DEF StartInv
<1>2. StartInv /\ CoreInv /\ [Next]_vars => StartInv'
  BY StartStep
<1>3. QED BY <1>1, <1>2, CoreHolds, PTL DEF Spec

\* Constructing the sampler never fails, nor does resuming with the tree that
\* was saved: torch.stack always gets a child, and every leaf has moments when
\* the utilities are computed.
THEOREM StartNeverFails == Spec => []StartSucceeds
<1>1. CoreInv /\ StartInv => StartSucceeds
  BY DEF CoreInv, Phases, Kinds, StartInv, StartSucceeds
<1>2. QED BY <1>1, StartHolds, PTL

\* The sampler that fit() starts with has the parent map of its tree and numbers
\* on every way to a training prompt; with resume_from_checkpoint it has no map.
THEOREM SamplerAlwaysFits == Spec => []SamplerFits
<1>1. CoreInv /\ StartInv => SamplerFits
  <2>1. SUFFICES ASSUME CoreInv, StartInv, pc = "ready" PROVE SamplerFits
    BY DEF SamplerFits
  <2>2. Phases /\ Kinds
    BY <2>1 DEF CoreInv
  <2>3. rebuilt = "unbuilt" => ~hasMap
    BY <2>1, <2>2 DEF Phases, StartInv
  <2>4. rebuilt \in {"unloaded", "same"} => ~resumeFlag
    BY <2>1, <2>2 DEF Phases
  <2>5. QED BY <2>1, <2>3, <2>4 DEF SamplerFits, StartInv
<1>2. QED BY <1>1, StartHolds, PTL

-----------------------------------------------------------------------------
(***************************************************************************)
(* The tree of a sampler is one that the module TaskTree assumes.          *)
(***************************************************************************)

\* A way goes through at most one child of a node.
LEMMA OneChildOnWay ==
  ASSUME NEW t, NEW k \in Nat \ {0}, Shape(t, k), NEW n \in 0..k - 1
  PROVE  \A c, d \in Way(t, n) \ {0} : ParentIn(t, c) = ParentIn(t, d) => c = d
<1> DEFINE Good(l) ==
             \A c, d \in Way(t, l) \ {0} : ParentIn(t, c) = ParentIn(t, d) => c = d
           Bad == {l \in 0..k - 1 : ~ Good(l)}
<1>1. /\ Way(t, 0) = {0}
      /\ \A l \in 1..k - 1 : Way(t, l) = {l} \cup Way(t, ParentIn(t, l))
  BY WaySteps
<1>2. \A l \in 1..k - 1 : ParentIn(t, l) \in 0..l - 1
  BY ParentFacts
<1>3. \A l \in 0..k - 1 : Way(t, l) \subseteq 0..l
  BY WayGoesUp
<1>4. ASSUME Bad # {} PROVE FALSE
  <2>1. Bad \in SUBSET Nat
    OBVIOUS
  <2>2. PICK l \in Bad : \A i \in Bad : l <= i
    BY <2>1, <1>4, SmallestNumber
  <2>3. l \in 0..k - 1 /\ ~ Good(l)
    OBVIOUS
  <2>4. l # 0
    <3>1. Good(0)
      BY <1>1
    <3>2. QED BY <2>3, <3>1
  <2>5. l \in 1..k - 1
    BY <2>3, <2>4
  <2> DEFINE p == ParentIn(t, l)
  <2>6. p \in 0..l - 1 /\ Way(t, l) = {l} \cup Way(t, p)
    BY <1>1, <1>2, <2>5
  <2>7. p \in 0..k - 1 /\ p < l
    BY <2>5, <2>6
  <2>8. Good(p)
    <3> HIDE DEF p, Good
    <3>1. p \notin Bad
      BY <2>2, <2>5, <2>7
    <3>2. QED BY <2>7, <3>1
  \* A child of p is not above p.
  <2>9. ASSUME NEW d \in Way(t, p) \ {0} PROVE ParentIn(t, d) # p
    <3>1. d \in 0..p
      BY <1>3, <2>7
    <3>2. d \in 1..k - 1
      BY <2>7, <3>1
    <3>3. ParentIn(t, d) \in 0..d - 1
      BY <1>2, <3>2
    <3>4. QED BY <2>7, <3>1, <3>3
  <2>10. ASSUME NEW c \in Way(t, l) \ {0}, NEW d \in Way(t, l) \ {0},
                ParentIn(t, c) = ParentIn(t, d)
         PROVE  c = d
    <3>1. CASE c = l /\ d # l
      BY <3>1, <2>6, <2>9, <2>10
    <3>2. CASE c # l /\ d = l
      BY <3>2, <2>6, <2>9, <2>10
    <3>3. CASE c # l /\ d # l
      BY <3>3, <2>6, <2>8, <2>10
    <3>4. QED BY <3>1, <3>2, <3>3
  <2>11. QED BY <2>3, <2>10
<1>5. Good(n)
  BY <1>4
<1>6. QED BY <1>5

\* TreeAssumption and UnderAssumption of TaskTree, of this tree.
FitsTaskTree ==
    LET nodes == NodesOf(tree)
        inner == DOMAIN tree
        children == [n \in inner |-> Elements(tree[n])]
        under == [n \in nodes |-> {a \in Arms : n \in PathUp(clusters[a])}]
    IN  /\ IsFiniteSet(Arms)
        /\ IsFiniteSet(nodes)
        /\ 0 \in nodes
        /\ inner \subseteq nodes
        /\ children \in [inner -> SUBSET (nodes \ {0})]
        /\ \A c \in nodes \ {0} : \E p \in inner : c \in children[p]
        /\ \A m, n \in inner : children[m] \cap children[n] # {} => m = n
        /\ \A a \in Arms : clusters[a] \in nodes \ inner
        /\ under \in [nodes -> SUBSET Arms]
        /\ under[0] = Arms
        /\ \A l \in nodes \ inner : under[l] = PromptsOf(l)
        /\ \A n \in inner : under[n] = UNION {under[c] : c \in children[n]}
        /\ \A n \in inner : \A c, d \in children[n] :
               under[c] \cap under[d] # {} => c = d

\* It holds of every tree that was built.
LEMMA BuiltFits ==
  ASSUME CoreInv, stack = <<>>, rebuilt \in {"unloaded", "same"}
  PROVE  FitsTaskTree
<1> DEFINE nodes == NodesOf(tree)
           inner == DOMAIN tree
           children == [n \in inner |-> Elements(tree[n])]
           under == [n \in nodes |-> {a \in Arms : n \in PathUp(clusters[a])}]
<1>1. /\ nextId \in Nat \ {0} /\ Shape(tree, nextId)
      /\ nodes = 0..nextId - 1
      /\ inner \subseteq nodes
      /\ \A a \in Arms : clusters[a] \in nodes \ inner
  BY TreeFacts
<1>2. IsFiniteSet(Arms)
  BY BuildAssumption DEF CoreInv, Kinds, Arms
<1>3. IsFiniteSet(nodes) /\ 0 \in nodes
  BY <1>1, FS_Interval
<1>4. /\ \A n \in inner : children[n] = Elements(tree[n])
      /\ \A n \in nodes : under[n] = {a \in Arms : n \in Way(tree, clusters[a])}
      /\ DOMAIN children = inner
      /\ under \in [nodes -> SUBSET Arms]
  BY PathUpIsWay
<1>5. \A l \in nodes \ inner :
        /\ l \in Way(tree, l) /\ 0 \in Way(tree, l)
        /\ Way(tree, l) \subseteq nodes
        /\ \A n \in Way(tree, l) :
             /\ Way(tree, n) \subseteq Way(tree, l)
             /\ n # l => /\ n \in inner
                         /\ \E c \in Way(tree, l) : c # 0 /\ c \in Elements(tree[n])
  BY LeafWays
<1>6. \A c \in nodes \ {0} :
        /\ ParentIn(tree, c) \in inner
        /\ c \in Elements(tree[ParentIn(tree, c)])
        /\ \A n \in inner : c \in Elements(tree[n]) => n = ParentIn(tree, c)
  <2> TAKE c \in nodes \ {0}
  <2>1. c \in 1..nextId - 1
    BY <1>1
  <2>2. QED BY <2>1, <1>1, ParentFacts
<1>7. \A n \in inner : Elements(tree[n]) \subseteq nodes \ {0}
  <2> TAKE n \in inner
  <2>1. \A i \in DOMAIN tree[n] : tree[n][i] \in 0..nextId - 1 /\ n < tree[n][i]
    BY <1>1 DEF Shape
  <2>2. n \in Nat
    BY <1>1
  <2>3. QED BY <2>1, <2>2, <1>1 DEF Elements
<1>8. children \in [inner -> SUBSET (nodes \ {0})]
  BY <1>7
<1> HIDE DEF children, under, nodes, inner
<1>9. \A c \in nodes \ {0} : \E p \in inner : c \in children[p]
  BY <1>4, <1>6
<1>10. \A m, n \in inner : children[m] \cap children[n] # {} => m = n
  BY <1>4, <1>6, <1>7
<1>11. under[0] = Arms
  <2>1. \A a \in Arms : 0 \in Way(tree, clusters[a])
    BY <1>1, <1>5
  <2>2. under[0] = {a \in Arms : 0 \in Way(tree, clusters[a])}
    BY <1>3, <1>4
  <2>3. QED BY <2>1, <2>2
<1>12. \A l \in nodes \ inner : under[l] = PromptsOf(l)
  <2> TAKE l \in nodes \ inner
  <2>1. ASSUME NEW a \in Arms PROVE l \in Way(tree, clusters[a]) <=> clusters[a] = l
    BY <1>1, <1>5
  <2>2. QED BY <2>1, <1>4 DEF PromptsOf
<1>13. ASSUME NEW n \in inner PROVE under[n] = UNION {under[c] : c \in children[n]}
  <2>1. n \in nodes /\ children[n] = Elements(tree[n])
    BY <1>1, <1>4
  <2>2. ASSUME NEW a \in under[n] PROVE \E c \in children[n] : a \in under[c]
    <3>1. a \in Arms /\ n \in Way(tree, clusters[a]) /\ n # clusters[a]
      BY <1>1, <1>4, <2>1, <2>2
    <3>2. PICK c \in Way(tree, clusters[a]) : c # 0 /\ c \in Elements(tree[n])
      BY <3>1, <1>1, <1>5
    <3>3. c \in nodes
      BY <3>1, <3>2, <1>1, <1>5
    <3>4. QED BY <3>1, <3>2, <3>3, <2>1, <1>4
  <2>3. ASSUME NEW c \in children[n], NEW a \in under[c] PROVE a \in under[n]
    <3>1. c \in nodes \ {0}
      BY <1>7, <2>1
    <3>2. a \in Arms /\ c \in Way(tree, clusters[a]) /\ n = ParentIn(tree, c)
      BY <3>1, <1>4, <1>6, <2>1, <2>3
    <3>3. n \in Way(tree, c)
      <4>1. c \in 1..nextId - 1
        BY <3>1, <1>1
      <4>2. Way(tree, c) = {c} \cup Way(tree, n)
        BY <4>1, <3>2, <1>1, WaySteps
      <4>3. n \in Way(tree, n)
        BY <2>1, <1>1, WayGoesUp
      <4>4. QED BY <4>2, <4>3
    <3>4. Way(tree, c) \subseteq Way(tree, clusters[a])
      BY <3>2, <1>1, <1>5
    <3>5. QED BY <3>2, <3>3, <3>4, <2>1, <1>4
  <2>4. QED BY <2>2, <2>3
<1>14. ASSUME NEW n \in inner, NEW c \in children[n], NEW d \in children[n],
              under[c] \cap under[d] # {}
       PROVE  c = d
  <2>1. c \in nodes \ {0} /\ d \in nodes \ {0}
    BY <1>4, <1>7
  <2>2. ParentIn(tree, c) = n /\ ParentIn(tree, d) = n
    BY <2>1, <1>4, <1>6
  <2>3. PICK a \in Arms : c \in Way(tree, clusters[a]) /\ d \in Way(tree, clusters[a])
    BY <2>1, <1>4, <1>14
  <2>4. clusters[a] \in 0..nextId - 1
    BY <1>1
  <2>5. \A x, y \in Way(tree, clusters[a]) \ {0} :
          ParentIn(tree, x) = ParentIn(tree, y) => x = y
    BY <2>4, <1>1, OneChildOnWay
  <2>6. QED BY <2>1, <2>2, <2>3, <2>5
<1>15. QED
  BY <1>1, <1>2, <1>3, <1>4, <1>8, <1>9, <1>10, <1>11, <1>12, <1>13, <1>14
  DEF FitsTaskTree, nodes, inner, children, under

\* What BanditSampler's proofs assume of a task tree is what create_tree
\* guarantees: the tree of a process that has built it satisfies the assumptions
\* of TaskTree.
THEOREM BuiltTreeFitsTaskTree ==
  Spec => []((~Building /\ rebuilt \in {"unloaded", "same"}) => FitsTaskTree)
<1>1. CoreInv => ((~Building /\ rebuilt \in {"unloaded", "same"}) => FitsTaskTree)
  BY BuiltFits DEF CoreInv, StackOK
<1>2. QED BY <1>1, CoreHolds, PTL

=============================================================================
