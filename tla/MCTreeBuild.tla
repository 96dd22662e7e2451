----------------------------- MODULE MCTreeBuild ----------------------------
(***************************************************************************)
(* Clusters have at least two points, so a part of four can be split again.*)
(* With one target point it may be left over on its own; with four, there  *)
(* may be an internal node without training prompts.  The checkpoints hold *)
(* trees that create_tree may have built before.                           *)
(***************************************************************************)
EXTENDS TreeBuild, TLC

NoTargets  == [arms |-> 0..4, targets |-> {}]
OneTarget  == [arms |-> 0..4, targets |-> {5}]
FewPrompts == [arms |-> 0..1, targets |-> 2..5]
AllDatasets == {NoTargets, OneTarget, FewPrompts}

\* The root with two leaves; with a third, left over.
Flat(points) ==
    [tree |-> (0 :> <<1, 2>>),
     clusters |-> [p \in points |-> IF p < 2 THEN 1 ELSE 2]]
WithLeftover(points) ==
    [tree |-> (0 :> <<1, 2, 3>>),
     clusters |-> [p \in points |-> IF p = 5 THEN 1 ELSE IF p < 2 THEN 2 ELSE 3]]

SavedTrees == {Flat(0..4), Flat(0..5), WithLeftover(0..5)}
=============================================================================
