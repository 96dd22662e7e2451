------------------------------ MODULE TaskTree ------------------------------
(***************************************************************************)
(* The task tree a BanditSampler descends (main_bmc.py, self.tree and      *)
(* self.clusters), as constant data: create_tree fixes its shape once, and *)
(* sampling reads it.  An internal node is a key of self.tree; a leaf (the *)
(* code says "penultimate" node) is a cluster id that is not a key, and    *)
(* the prompts of the cluster hang below it.                               *)
(*                                                                         *)
(* Abstracted: the lists of children are sets, because every choice among  *)
(* them is an argmax over freshly drawn Gaussian scores, and the posterior *)
(* moments stored in a node are left to the modules that update them.      *)
(***************************************************************************)
EXTENDS Integers, FiniteSets

CONSTANTS
    Arms,        \* the training prompts, 0 .. num_arms - 1 in the code
    Nodes,       \* every cluster id of the tree
    Root,        \* the id the recursion starts from (0 in the code)
    Children,    \* Children[n]: the ids in self.tree[n][0]
    Cluster,     \* Cluster[a]: self.clusters[a], the leaf that holds arm a
    Under        \* Under[n]: the training prompts that descend from node n

\* The keys of self.tree.
Internal == DOMAIN Children

\* The "penultimate" nodes: cluster ids that are not keys of self.tree.
Leaves == Nodes \ Internal

\* np.where(self.clusters[:self.num_arms] == l)[0]; empty for a cluster made
\* of target prompts only.
Prompts(l) == {a \in Arms : Cluster[a] = l}

(***************************************************************************)
(* What create_tree guarantees: each id but the root is put in one list of *)
(* children, each prompt ends in one cluster, and the clusters a split     *)
(* makes are disjoint.                                                     *)
(***************************************************************************)
ASSUME TreeAssumption ==
    /\ IsFiniteSet(Arms)
    /\ IsFiniteSet(Nodes)
    /\ Root \in Nodes
    /\ Internal \subseteq Nodes
    /\ Children \in [Internal -> SUBSET (Nodes \ {Root})]
    /\ \A c \in Nodes \ {Root} : \E p \in Internal : c \in Children[p]
    /\ \A m, n \in Internal : Children[m] \cap Children[n] # {} => m = n
    /\ Cluster \in [Arms -> Leaves]

\* The descendant prompts follow from the tree: the prompts of a leaf, and the
\* disjoint union over the children of an internal node.
ASSUME UnderAssumption ==
    /\ Under \in [Nodes -> SUBSET Arms]
    /\ Under[Root] = Arms
    /\ \A l \in Leaves : Under[l] = Prompts(l)
    /\ \A n \in Internal : Under[n] = UNION {Under[c] : c \in Children[n]}
    /\ \A n \in Internal : \A c, d \in Children[n] :
           Under[c] \cap Under[d] # {} => c = d

(***************************************************************************)
(* self.child_to_parent_map, as initialize_child_to_parent_map builds it:  *)
(* it skips every child that is itself a key of self.tree.                 *)
(***************************************************************************)
ChildToParent ==
    [c \in {c \in Leaves : \E p \in Internal : c \in Children[p]} |->
        CHOOSE p \in Internal : c \in Children[p]]

=============================================================================
