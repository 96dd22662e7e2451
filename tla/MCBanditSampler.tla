--------------------------- MODULE MCBanditSampler --------------------------
(***************************************************************************)
(* Task trees for TLC.  In the deep tree an internal node (4) hangs in     *)
(* another one (2) below the root; leaf 1 is what a split left over, leaf  *)
(* 7 holds target points only, no training prompt.  The bare tree is a     *)
(* root that was never split.                                              *)
(***************************************************************************)
EXTENDS BanditSampler, TLC, FiniteSetsExt

DeepNodes    == 0..7
DeepChildren == (0 :> {1, 2, 7}) @@ (2 :> {3, 4}) @@ (4 :> {5, 6})
DeepArms     == 0..5
DeepCluster  == (0 :> 1) @@ (1 :> 1) @@ (2 :> 1) @@ (3 :> 3) @@ (4 :> 5) @@ (5 :> 6)

BareNodes    == {0}
BareChildren == << >>
BareArms     == 0..3
BareCluster  == [a \in BareArms |-> 0]

\* The descendant prompts of a node, by the recursion over the tree.
UnderOf(nodes, children, cluster) ==
    LET under[n \in nodes] ==
            IF n \in DOMAIN children
            THEN UNION {under[c] : c \in children[n]}
            ELSE {a \in DOMAIN cluster : cluster[a] = n}
    IN  under

DeepUnder == UnderOf(DeepNodes, DeepChildren, DeepCluster)
BareUnder == UnderOf(BareNodes, BareChildren, BareCluster)

\* initialize_subtree_availability as the code writes it: a node's total is
\* the sum of its children's totals.
SubtreeTotal[n \in Nodes] ==
    IF n \in Internal
    THEN MapThenSumSet(LAMBDA c : SubtreeTotal[c], Children[n])
    ELSE Cardinality(Prompts(n))

ASSUME TotalsAssumption == SubtreeTotal = InitialCounts
=============================================================================
