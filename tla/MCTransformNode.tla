-------------------------- MODULE MCTransformNode --------------------------
(* Instances of TransformNode for TLC. *)
EXTENDS TransformNode

CONSTANTS root, child, grandchild

ThreeNodes == {root, child, grandchild}
Chain == [n \in ThreeNodes |-> CASE n = root -> NoParent
                                 [] n = child -> root
                                 [] n = grandchild -> child]
=============================================================================
