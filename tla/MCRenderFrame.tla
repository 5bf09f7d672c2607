--------------------------- MODULE MCRenderFrame ---------------------------
(* The instance of RenderFrame for TLC. *)
EXTENDS RenderFrame

CONSTANTS root, child, grandchild

ThreeNodes == {root, child, grandchild}
Chain == [n \in ThreeNodes |-> CASE n = root -> NoParent
                                 [] n = child -> root
                                 [] n = grandchild -> child]

\* Materials 1 and 2 are of one pipeline, 3 of an earlier one.
\* The fourth object finds no room.
Objects == <<child, root, grandchild, child>>
Strays == {[world |-> <<z>>, scene_node |-> root] : z \in {8}}
Pipelines == <<1, 1, 0>>
Spheres == <<[center |-> 0, radius |-> 1], [center |-> 2, radius |-> 0]>>
Primitives == <<[object |-> 1, material |-> 1, bounds |-> 1],
                [object |-> 2, material |-> 1, bounds |-> 2],
                [object |-> 3, material |-> 1, bounds |-> 2],
                [object |-> 4, material |-> 1, bounds |-> 1],
                [object |-> 2, material |-> 3, bounds |-> 1],
                [object |-> 1, material |-> 2, bounds |-> 1]>>
=============================================================================
