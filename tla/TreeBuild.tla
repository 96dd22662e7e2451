------------------------------ MODULE TreeBuild -----------------------------
(***************************************************************************)
(* How a process comes by its task tree (main_bmc.py): BanditSampler's     *)
(* constructor splits the points recursively (create_tree), maps leaves to *)
(* parents, computes the moments of the nodes (update_tree) and, with      *)
(* targeting, counts what is below them (init_utilities); then fit() loads *)
(* the latest checkpoint, whose tree and clusters replace the new ones     *)
(* (bmc_checkpoint_handler.py).  With resume_from_checkpoint the           *)
(* constructor leaves all of it out.                                       *)
(*                                                                         *)
(* recursive_split is modelled with its call stack; an action is a stretch *)
(* of it between two calls or returns.                                     *)
(*                                                                         *)
(* Abstracted: what PCA, TwoNN, UMAP and HDBSCAN compute.  A call may end  *)
(* or split its points in any way HDBSCAN may return; so two processes may *)
(* build different trees.  Moments are numbers or NaN, utilities (which no *)
(* branch reads) are left out.                                             *)
(***************************************************************************)
EXTENDS Integers, Sequences, FiniteSets

CONSTANTS
    Datasets,  \* [arms, targets]: the training prompts, and the target points
               \* that are added to them; none without targeting
    PctNum,    \* algorithm.bmc.ltt.hdbscan_min_cluster_pct, as a fraction
    PctDen,
    Saved      \* [tree, clusters] of the checkpoints a process may find

VARIABLES
    dataset,        \* what the tree is built from
    resumeFlag,     \* algorithm.bmc.resume_from_checkpoint
    saved,          \* the checkpoint that fit() will find
    pc,             \* "start", "enter", "children", "map", "moments",
                    \* "utilities", "load", "ready", "failed"
    stack,          \* the calls of recursive_split, the current one first
    clusters,       \* true_clusters, later self.clusters
    tree,           \* task_tree[n][0], later self.tree[n][0]
    nextId,         \* next_cluster_id
    tooSmall,       \* recursion_ends[2]
    childToParent,  \* self.child_to_parent_map
    hasMap,         \* whether that attribute exists
    treeMoments,    \* self.tree[n][1..3]: "none", "number" or "nan"
    penultimates,   \* self.penultimates, likewise
    trainCount,     \* self.node_train_count
    invalid,        \* self.invalid_train_ids
    rebuilt         \* history: the tree built and the one loaded were "same" or
                    \* "different", or none is loaded ("unloaded") or was built
                    \* ("unbuilt")

config == <<dataset, resumeFlag, saved>>
build == <<stack, clusters, tree, nextId, tooSmall>>
derived == <<childToParent, hasMap, treeMoments, penultimates, trainCount, invalid>>
vars == <<config, pc, build, derived, rebuilt>>

PointsOf(d) == d.arms \cup d.targets
Arms == dataset.arms
Points == PointsOf(dataset)
N == Cardinality(Points)

\* algorithm.bmc.targeting, which BanditSampler refuses without target points.
Targeting == dataset.targets # {}

NoCheckpoint == [tree |-> <<>>, clusters |-> <<>>]

\* round() of a fraction, a half to the even side.
Round(a, b) ==
    LET q == a \div b
        r == a % b
    IN  IF 2 * r < b \/ (2 * r = b /\ q % 2 = 0) THEN q ELSE q + 1

\* min_allowed
MinAllowed == (PctNum * N) \div PctDen

\* Faulty: in proportion to the local points only.
MinClusterSizeLocal(n) == Round(PctNum * n, PctDen)

\* min_cluster_size
MinClusterSize(n) ==
    LET here  == Round(PctNum * n, PctDen)
        whole == Round(PctNum * N, PctDen)
    IN  IF here < whole THEN whole ELSE here

\* HDBSCAN takes only cluster sizes above one.
ASSUME BuildAssumption ==
    /\ PctNum \in Nat /\ PctDen \in Nat \ {0}
    /\ PctNum <= PctDen
    /\ \A d \in Datasets :
        /\ IsFiniteSet(d.arms) /\ IsFiniteSet(d.targets)
        /\ d.arms # {}
        /\ d.arms \cap d.targets = {}
        /\ Round(PctNum * Cardinality(PointsOf(d)), PctDen) >= 2

\* A checkpoint holds lists of ids, and an id for every point it was saved with.
ASSUME SavedAssumption ==
    \A s \in Saved :
        /\ s.clusters \in [DOMAIN s.clusters -> Nat]
        /\ \A n \in DOMAIN s.tree : n \in Nat /\ s.tree[n] \in Seq(Nat)

Frame(n, members) == [node |-> n, members |-> members, todo |-> <<>>]
Top == stack[1]

Init == /\ dataset \in Datasets
        /\ resumeFlag \in BOOLEAN
        /\ saved \in {NoCheckpoint} \cup {s \in Saved : DOMAIN s.clusters = Points}
        /\ pc = "start"
        /\ stack = <<>>
        /\ clusters = [p \in Points |-> 0]
        /\ tree = <<>>
        /\ nextId = 1
        /\ tooSmall = 0
        /\ childToParent = <<>>
        /\ hasMap = FALSE
        /\ treeMoments = <<>>
        /\ penultimates = <<>>
        /\ trainCount = <<>>
        /\ invalid = {}
        /\ rebuilt = "unloaded"

\* The constructor calls create_tree, or leaves the tree to the checkpoint.
Construct ==
    /\ pc = "start"
    /\ IF resumeFlag
       THEN pc' = "load" /\ UNCHANGED stack
       ELSE pc' = "enter" /\ stack' = <<Frame(0, Points)>>
    /\ UNCHANGED <<config, clusters, tree, nextId, tooSmall, derived, rebuilt>>

\* Faulty: the loop of the caller goes on, although it was the first call.
PopPastRoot == stack' = Tail(stack) /\ pc' = "children"

\* A call of recursive_split returns.
Pop == /\ stack' = Tail(stack)
       /\ pc' = IF Len(stack) = 1 THEN "map" ELSE "children"

\* The call ends without a split: there are too few points (RECURSION END 2),
\* the chart test is passed (0), or there is no second cluster (1).
EndWhole ==
    /\ pc = "enter"
    /\ tooSmall' = IF Cardinality(Top.members) < MinAllowed THEN tooSmall + 1
                                                            ELSE tooSmall
    /\ Pop
    /\ UNCHANGED <<config, clusters, tree, nextId, derived, rebuilt>>

\* HDBSCAN: two or more disjoint clusters of at least the minimum size, which
\* need not cover the points.
Splits(members) ==
    LET n == Cardinality(members)
        m == MinClusterSize(n)
        Class(labels, l) == {p \in members : labels[p] = l}
    IN  UNION {{[l \in 1..k |-> Class(labels, l)] :
                   labels \in {f \in [members -> 0..k] :
                                  \A l \in 1..k : Cardinality(Class(f, l)) >= m}} :
               k \in 2..(n \div m)}

\* task_tree with a child added to the list of a parent, which gets one if it
\* has none.
ChildrenOf(t, n) == IF n \in DOMAIN t THEN t[n] ELSE <<>>
WithChild(t, n, c) ==
    [k \in DOMAIN t \cup {n} |-> IF k = n THEN Append(ChildrenOf(t, n), c) ELSE t[k]]

\* true_clusters[points] = id
Assigned(points, id) == [p \in Points |-> IF p \in points THEN id ELSE clusters[p]]

\* The call splits its points: what is left over becomes the first child.
Split ==
    /\ pc = "enter"
    /\ Cardinality(Top.members) >= MinAllowed
    /\ \E classes \in Splits(Top.members) :
        LET leftover == Top.members \ UNION {classes[l] : l \in DOMAIN classes} IN
        /\ stack' = [stack EXCEPT ![1].todo = classes]
        /\ IF leftover # {}
           THEN /\ clusters' = Assigned(leftover, nextId)
                /\ tree' = WithChild(tree, Top.node, nextId)
                /\ nextId' = nextId + 1
           ELSE UNCHANGED <<clusters, tree, nextId>>
    /\ pc' = "children"
    /\ UNCHANGED <<config, tooSmall, derived, rebuilt>>

\* Faulty: the id is not used up.
CallKeepsId ==
    /\ pc = "children"
    /\ Top.todo # <<>>
    /\ clusters' = Assigned(Head(Top.todo), nextId)
    /\ tree' = WithChild(tree, Top.node, nextId)
    /\ nextId' = IF Len(Top.todo) = 1 THEN nextId + 1 ELSE nextId
    /\ stack' = <<Frame(nextId, Head(Top.todo))>>
                  \o [stack EXCEPT ![1].todo = Tail(Top.todo)]
    /\ pc' = "enter"
    /\ UNCHANGED <<config, tooSmall, derived, rebuilt>>

\* The next cluster becomes a child, and recursive_split is called for it.
CallForChild ==
    /\ pc = "children"
    /\ Top.todo # <<>>
    /\ clusters' = Assigned(Head(Top.todo), nextId)
    /\ tree' = WithChild(tree, Top.node, nextId)
    /\ nextId' = nextId + 1
    /\ stack' = <<Frame(nextId, Head(Top.todo))>>
                  \o [stack EXCEPT ![1].todo = Tail(Top.todo)]
    /\ pc' = "enter"
    /\ UNCHANGED <<config, tooSmall, derived, rebuilt>>

\* All clusters are done.
Return ==
    /\ pc = "children"
    /\ Top.todo = <<>>
    /\ Pop
    /\ UNCHANGED <<config, clusters, tree, nextId, tooSmall, derived, rebuilt>>

Elements(s) == {s[i] : i \in DOMAIN s}
NodesOf(t) == {0} \cup DOMAIN t \cup UNION {Elements(t[n]) : n \in DOMAIN t}
ParentIn(t, c) == CHOOSE n \in DOMAIN t : c \in Elements(t[n])

\* The map that initialize_child_to_parent_map makes of a tree.
ParentMap(t) ==
    [c \in {c \in NodesOf(t) \ DOMAIN t : \E n \in DOMAIN t : c \in Elements(t[n])}
        |-> ParentIn(t, c)]

\* Faulty: init_utilities comes before update_tree.
UtilitiesFirst == IF Targeting THEN "utilities" ELSE "moments"

\* update_tree is called next.
AfterMap == "moments"

MapParents ==
    /\ pc = "map"
    /\ childToParent' = ParentMap(tree)
    /\ hasMap' = TRUE
    /\ treeMoments' = [n \in DOMAIN tree |-> "none"]
    /\ pc' = AfterMap
    /\ UNCHANGED <<config, build, penultimates, trainCount, invalid, rebuilt>>

\* The training prompts in the cluster of a node.
PromptsOf(n) == {a \in Arms : clusters[a] = n}

ValidChildren(n) == Elements(tree[n]) \ invalid

\* The nodes from n up to the root.
PathUp(n) ==
    LET path[k \in NodesOf(tree)] ==
            IF k = 0 THEN {0} ELSE {k} \cup path[ParentIn(tree, k)]
    IN  path[n]

\* The nodes that the recursion of subtree_update comes to: the root, and those
\* with valid nodes only on the way.
Visited == {n \in NodesOf(tree) : (PathUp(n) \ {0}) \cap invalid = {}}

\* The nodes whose moments are NaN: those of a cluster without training prompts
\* are, and with them those of all nodes above, up to an invalid one.
Poisoned ==
    {n \in NodesOf(tree) :
        \E l \in NodesOf(tree) \ DOMAIN tree :
            /\ n \in PathUp(l)
            /\ PromptsOf(l) = {}
            /\ (PathUp(l) \ PathUp(n)) \cap invalid = {}}

(***************************************************************************)
(* update_tree: bottom-up from the root, past the invalid nodes;           *)
(* torch.stack raises for a node without valid children.                   *)
(***************************************************************************)
UpdateTree ==
    /\ pc = "moments"
    /\ LET moment(n) == IF n \in Poisoned THEN "nan" ELSE "number"
           leaves == Visited \ DOMAIN tree
       IN  IF \E n \in Visited \cap DOMAIN tree : ValidChildren(n) = {}
           THEN pc' = "failed" /\ UNCHANGED <<treeMoments, penultimates>>
           ELSE /\ treeMoments' = [n \in DOMAIN tree |->
                       IF n \in Visited THEN moment(n) ELSE treeMoments[n]]
                /\ penultimates' = [n \in DOMAIN penultimates \cup leaves |->
                       IF n \in leaves THEN moment(n) ELSE penultimates[n]]
                /\ pc' = IF rebuilt # "unloaded" THEN "ready"
                         ELSE IF Targeting /\ trainCount = <<>> THEN "utilities"
                         ELSE "load"
    /\ UNCHANGED <<config, build, childToParent, hasMap, trainCount, invalid, rebuilt>>

\* Faulty: compute_subtree_counts lists no node.
ListNone(count) == {}

\* The nodes that compute_subtree_counts lists as invalid.
Invalid(count) == {n \in DOMAIN count : count[n] = 0}

\* compute_subtree_counts: the training prompts below each node.
TrainCounts ==
    [n \in NodesOf(tree) |-> Cardinality({a \in Arms : n \in PathUp(clusters[a])})]

\* init_utilities: set_node_utility needs an entry for every leaf but the root.
InitUtilities ==
    /\ pc = "utilities"
    /\ trainCount' = TrainCounts
    /\ invalid' = Invalid(trainCount')
    /\ pc' = IF NodesOf(tree) \ (DOMAIN tree \cup {0}) \subseteq DOMAIN penultimates
             THEN "moments" ELSE "failed"
    /\ UNCHANGED <<config, build, childToParent, hasMap, treeMoments, penultimates,
                   rebuilt>>

(***************************************************************************)
(* fit() loads the checkpoint: tree and clusters are replaced, and         *)
(* update_tree is called; the map, the penultimate nodes and the invalid   *)
(* nodes stay as they are.  Without a checkpoint fit() goes on to save     *)
(* self.tree, which must then exist.                                       *)
(***************************************************************************)
Load ==
    /\ pc = "load"
    /\ saved # NoCheckpoint
    /\ tree' = saved.tree
    /\ clusters' = saved.clusters
    /\ treeMoments' = [n \in DOMAIN saved.tree |-> "number"]
    /\ rebuilt' = IF resumeFlag THEN "unbuilt"
                  ELSE IF saved = [tree |-> tree, clusters |-> clusters] THEN "same"
                  ELSE "different"
    /\ pc' = "moments"
    /\ UNCHANGED <<config, stack, nextId, tooSmall, childToParent, hasMap,
                   penultimates, trainCount, invalid>>

NothingToLoad ==
    /\ pc = "load"
    /\ saved = NoCheckpoint
    /\ pc' = IF resumeFlag THEN "failed" ELSE "ready"
    /\ UNCHANGED <<config, build, derived, rebuilt>>

Next == \/ Construct
        \/ EndWhole \/ Split \/ CallForChild \/ Return
        \/ MapParents \/ UpdateTree \/ InitUtilities
        \/ Load \/ NothingToLoad

Spec == Init /\ [][Next]_vars
-----------------------------------------------------------------------------
(***************************************************************************)
(* Properties.                                                             *)
(***************************************************************************)
Building == pc \in {"enter", "children"}

\* Every variable holds a value of its kind.
TypeOK ==
    /\ dataset \in Datasets
    /\ resumeFlag \in BOOLEAN
    /\ pc \in {"start", "enter", "children", "map", "moments", "utilities",
               "load", "ready", "failed"}
    /\ Building => stack # <<>>
    /\ \A i \in DOMAIN stack :
           /\ stack[i].node \in 0..nextId - 1
           /\ stack[i].members \subseteq Points
           /\ \A j \in DOMAIN stack[i].todo : stack[i].todo[j] \subseteq stack[i].members
    /\ clusters \in [Points -> Nat]
    /\ \A n \in DOMAIN tree : n \in Nat /\ tree[n] \in Seq(Nat)
    /\ nextId \in Nat
    /\ tooSmall \in Nat
    /\ hasMap \in BOOLEAN
    /\ \A n \in DOMAIN treeMoments : treeMoments[n] \in {"none", "number", "nan"}
    /\ \A n \in DOMAIN penultimates : penultimates[n] \in {"number", "nan"}
    /\ invalid \subseteq Nat
    /\ rebuilt \in {"unloaded", "unbuilt", "same", "different"}

(***************************************************************************)
(* What the module TaskTree assumes of a tree.  At every moment of the     *)
(* recursion the ids given out so far are the nodes, and each but the root *)
(* is once in one list, below a smaller id; when it is over, every point   *)
(* is in the cluster of a leaf, and no leaf is without points.             *)
(***************************************************************************)
TreeIsProper ==
    pc # "start" /\ ~resumeFlag /\ rebuilt = "unloaded" =>
        /\ NodesOf(tree) = 0..nextId - 1
        /\ \A m, n \in DOMAIN tree : \A i \in DOMAIN tree[m], j \in DOMAIN tree[n] :
               /\ m < tree[m][i]
               /\ tree[m][i] = tree[n][j] => m = n /\ i = j
        /\ ~Building => {clusters[p] : p \in Points} = NodesOf(tree) \ DOMAIN tree

\* A cluster is never too small to be split further: HDBSCAN's minimum, rounded
\* to the nearest, is never below that of the size check, which is rounded down.
SizeCheckNeverFires == tooSmall = 0

\* Constructing the sampler never fails, nor does resuming with the tree that
\* was saved; and without the flag there is always a tree to resume or start with.
StartSucceeds == ~resumeFlag /\ rebuilt # "different" => pc # "failed"

\* A node with training prompts below it, which the descent may come to, has
\* moments that are numbers.
MomentsUsable ==
    LET moment(n) == IF n \in DOMAIN tree THEN treeMoments[n] ELSE penultimates[n]
    IN  \A a \in Arms : \A n \in PathUp(clusters[a]) :
            /\ n \in DOMAIN tree \cup DOMAIN penultimates
            /\ moment(n) = "number"

(***************************************************************************)
(* The sampler that fit() starts with is usable: its parent map is that of *)
(* its tree and no NaN is in the way of a descent.  This holds when the    *)
(* tree was built by this process or loaded over an equal one.  It holds   *)
(* for no process with resume_from_checkpoint, which has no parent map.    *)
(***************************************************************************)
SamplerFits ==
    pc = "ready" =>
        IF rebuilt \in {"unloaded", "same"}
        THEN hasMap /\ childToParent = ParentMap(tree) /\ MomentsUsable
        ELSE rebuilt = "unbuilt" => ~hasMap
=============================================================================
