---------------------------- MODULE RenderFrame ----------------------------
(***************************************************************************)
(* A frame of a scene: scene/bake copies the world transforms of the nodes *)
(* (TransformNode) into render objects, and the FrameBuilder culls,        *)
(* classifies, sorts and bins the primitives on them.  Space has one       *)
(* dimension, along the view: a transform is a translation, and a frustum  *)
(* has a near and a far plane.  Lengths are whole numbers, so that nothing *)
(* is rounded but what the key of a draw rounds.                           *)
(***************************************************************************)
EXTENDS TransformNode, Integers, FiniteSets

CONSTANTS Object,     \* the scene's objects, a sequence: the node of each
          Primitive,  \* ir.primitives, a sequence of [object, material, bounds]
          Pipeline,   \* pipeline_state_id of each material
          Bounds,     \* ir.bounds: [center, radius]
          Eye, Near, Far, \* ir.views[0], where the camera and the planes are
          Grain,      \* lengths to a step of the key's depth, which is 1/1000
          Stray,      \* what an ObjectData read behind ir.objects may be
          ObjectRoom, VisibleRoom, DrawRoom, PassRoom, \* capacities of the buffers
          PipeRange, MaterialRange, DepthRange, \* 2^16, 2^16, 2^24
          WordRange   \* 2^32

ASSUME SceneAssumption ==
    /\ Local \subseteq Int
    /\ IsFiniteSet(Node)
    /\ Object \in Seq(Node)
    /\ Primitive \in Seq([object : DOMAIN Object, material : DOMAIN Pipeline,
                          bounds : DOMAIN Bounds])
    /\ \A m \in DOMAIN Pipeline : m \in Nat /\ Pipeline[m] \in Nat
    /\ \A b \in DOMAIN Bounds : Bounds[b].center \in Int /\ Bounds[b].radius \in Nat
    /\ {Eye, Near, Far} \subseteq Int
    /\ {ObjectRoom, VisibleRoom, DrawRoom, PassRoom} \subseteq Nat
    /\ {Grain, PipeRange, MaterialRange, DepthRange, WordRange} \subseteq Nat \ {0}
    /\ DepthRange <= WordRange
    /\ \A o \in Stray : o.world \in Seq(Int)

VARIABLES stage,   \* how far the frame is
          objects, \* ir.objects, and behind ObjectRoom what lies there
          visible, \* visible_primitives
          depths,  \* the words that the depths of the visible become
          draws, passes

frame == <<objects, visible, depths, draws, passes>>
frameVars == <<vars, stage, frame>>

FrameInit ==
    /\ Init
    /\ stage = "edit"
    /\ objects = <<>> /\ visible = <<>> /\ depths = <<>> /\ draws = <<>>
    /\ passes = <<>>

\* push: what does not fit is lost.
Pushed(list, xs, room) ==
    LET all == list \o xs IN SubSeq(all, 1, IF Len(all) < room THEN Len(all) ELSE room)

\* The numbers of a finite set, in ascending order.
InOrder(S) ==
    [k \in 1 .. Cardinality(S) |-> CHOOSE i \in S : Cardinality({j \in S : j < i}) = k - 1]

\* A transform moves the origin by the sum of its translations.
Position(transform) == FoldLeft(LAMBDA a, b : a + b, 0, transform)

-----------------------------------------------------------------------------
(* A slip: what a definition below would be with one plausible mistake.      *)

\* What is behind the eye has a negative depth, which the key cuts off.
Depth_NotClamped(center) == (center - Eye) \div Grain

-----------------------------------------------------------------------------
(* scene/bake *)

Baked(n) == [world |-> world[n], scene_node |-> n]

\* bake_transforms_v2, whether the nodes are up to date or not.  It stops at the
\* first object that finds no room; a primitive on a later one will read whatever
\* lies behind the buffer.
Bake ==
    /\ stage = "edit"
    /\ stage' = "baked"
    /\ \E behind \in [{i \in DOMAIN Object : i > ObjectRoom} -> Stray] :
          objects' = [i \in DOMAIN Object |->
                         IF i > ObjectRoom THEN behind[i] ELSE Baked(Object[i])]
    /\ UNCHANGED <<vars, visible, depths, draws, passes>>

\* bake_transforms: the roots only, in the order of their indices.  No primitive
\* can be drawn from these.
BakeRoots ==
    /\ stage = "edit"
    /\ stage' = "rootsBaked"
    /\ LET roots == SetToSeq({n \in Node : IsRoot(n)})
       IN  objects' = [i \in {j \in DOMAIN roots : j <= ObjectRoom} |-> Baked(roots[i])]
    /\ UNCHANGED <<vars, visible, depths, draws, passes>>

-----------------------------------------------------------------------------
(* FrameBuilder *)

Center(p) == Position(objects[p.object].world) + Bounds[p.bounds].center

\* A sphere wholly behind one of the planes is not seen.
Rejected(center, radius) == center - Near < - radius \/ Far - center < - radius

Cull ==
    /\ stage = "baked"
    /\ stage' = "culled"
    /\ visible' = Pushed(<<>>, InOrder({i \in DOMAIN Primitive :
                      ~ Rejected(Center(Primitive[i]), Bounds[Primitive[i].bounds].radius)}),
                      VisibleRoom)
    /\ UNCHANGED <<vars, objects, depths, draws, passes>>

\* In whole steps of the key, what is behind the eye as if at it.
Depth(center) == IF center < Eye THEN 0 ELSE (center - Eye) \div Grain

\* A float that uint32_t has no room for becomes an unspecified word.
TooFar == {i \in Range(visible) : Depth(Center(Primitive[i])) >= WordRange}

make_sort_key(pipe, material, depth) ==
    ((pipe % PipeRange) * MaterialRange + (material % MaterialRange)) * DepthRange
        + (depth % DepthRange)

\* Every draw is of the first pass.
DrawRef(i, depth) ==
    LET p == Primitive[i]
    IN  [sort_key |-> make_sort_key(Pipeline[p.material], p.material, depth[i]),
         primitive_id |-> i, pass_mask |-> 1]

Classify ==
    /\ stage = "culled"
    /\ stage' = "classified"
    /\ \E word \in [TooFar -> 0 .. WordRange - 1] :
          depths' = [i \in Range(visible) |->
                        IF i \in TooFar THEN word[i] ELSE Depth(Center(Primitive[i]))]
    /\ draws' = Pushed(<<>>, [k \in DOMAIN visible |-> DrawRef(visible[k], depths')], DrawRoom)
    /\ UNCHANGED <<vars, objects, visible, passes>>

\* The place of draw k: after all with a smaller key, and after those with the
\* same key that were before it.
Place(k) ==
    1 + Cardinality({j \in DOMAIN draws : \/ draws[j].sort_key < draws[k].sort_key
                                          \/ draws[j].sort_key = draws[k].sort_key /\ j < k})

Sort ==
    /\ stage = "classified"
    /\ stage' = "sorted"
    /\ draws' = [i \in DOMAIN draws |-> draws[CHOOSE k \in DOMAIN draws : Place(k) = i]]
    /\ UNCHANGED <<vars, objects, visible, depths, passes>>

\* A pass node for each run of draws with the same mask.
Bin ==
    /\ stage = "sorted"
    /\ stage' = "built"
    /\ LET begins == {i \in DOMAIN draws : i = 1 \/ draws[i].pass_mask # draws[i - 1].pass_mask}
           ends(i) == {j \in begins : j > i} \cup {Len(draws) + 1}
           from == InOrder(begins)
           node(i) == [draw_start |-> i, pass_bit |-> draws[i].pass_mask,
                       draw_count |-> (CHOOSE e \in ends(i) : \A f \in ends(i) : e <= f) - i]
       IN  passes' = Pushed(<<>>, [k \in DOMAIN from |-> node(from[k])], PassRoom)
    /\ UNCHANGED <<vars, objects, visible, depths, draws>>

\* The frame is over; what the buffers hold is reset before it is used again.
EndFrame ==
    /\ stage \in {"built", "rootsBaked"}
    /\ stage' = "edit"
    /\ objects' = <<>> /\ visible' = <<>> /\ depths' = <<>> /\ draws' = <<>>
    /\ passes' = <<>>
    /\ UNCHANGED vars

FrameNext ==
    \/ stage = "edit" /\ Next /\ UNCHANGED <<stage, frame>>
    \/ Bake \/ BakeRoots \/ Cull \/ Classify \/ Sort \/ Bin \/ EndFrame

FrameSpec == FrameInit /\ [][FrameNext]_frameVars

-----------------------------------------------------------------------------
(* Properties *)

\* Where object o is: with its node, by the locals where an update ensures it and
\* else as the node's cache has it; if it found no room, wherever what is read says.
Where(o) ==
    LET n == Object[o]
    IN  IF o > ObjectRoom THEN objects[o].world
        ELSE IF pending[n] = 0 /\ Len(path[n]) <= 2 THEN Composed(n) ELSE world[n]

TrueCenter(i) ==
    Position(Where(Primitive[i].object)) + Bounds[Primitive[i].bounds].center

\* The whole steps from the eye to the primitive, if it is before the eye.
TrueDepth(i) ==
    LET ahead == TrueCenter(i) - Eye
    IN  IF ahead < 0 THEN 0 ELSE ahead \div Grain

\* a goes before b: by pipeline, material and depth, then by index.
Before(a, b) ==
    LET rank(i) == <<Pipeline[Primitive[i].material], Primitive[i].material, TrueDepth(i), i>>
        differs == {k \in 1 .. 4 : rank(a)[k] # rank(b)[k]}
    IN  \E k \in differs : rank(a)[k] < rank(b)[k] /\ \A l \in differs : k <= l

InRange(i) ==
    /\ Primitive[i].material < MaterialRange /\ Pipeline[Primitive[i].material] < PipeRange
    /\ TrueDepth(i) < DepthRange

\* What is baked of a node of the first two levels is where the node is, unless an
\* edit of it or of its parent waits for an update.
BakedIsTrue ==
    \A i \in DOMAIN objects :
        LET n == objects[i].scene_node
        IN  i <= ObjectRoom /\ pending[n] = 0 /\ Len(path[n]) <= 2 =>
                objects[i].world = Composed(n)

\* A frame draws exactly the primitives that are in view where their objects are
\* (Where), as many as the buffers hold; grouped by pipeline and material, front to
\* back as far as the steps of the key tell depths apart, ties in their own order;
\* what the key has no room for excepted.  The passes cover every draw once.
DrawsAreRight ==
    stage = "built" =>
        LET seen == InOrder({i \in DOMAIN Primitive :
                        LET b == Bounds[Primitive[i].bounds]
                        IN  TrueCenter(i) + b.radius >= Near /\ TrueCenter(i) - b.radius <= Far})
            room == IF VisibleRoom < DrawRoom THEN VisibleRoom ELSE DrawRoom
            id(k) == draws[k].primitive_id
            covers(p) == p.draw_start .. p.draw_start + p.draw_count - 1
        IN  /\ Len(draws) = (IF Len(seen) < room THEN Len(seen) ELSE room)
            /\ {id(k) : k \in DOMAIN draws} = {seen[k] : k \in {j \in DOMAIN seen : j <= room}}
            /\ \A j, k \in DOMAIN draws :
                  j < k /\ InRange(id(j)) /\ InRange(id(k)) => Before(id(j), id(k))
            /\ \A k \in DOMAIN draws :
                  Cardinality({p \in DOMAIN passes : k \in covers(passes[p])}) = 1

FrameDrawsScene == BakedIsTrue /\ DrawsAreRight
=============================================================================
