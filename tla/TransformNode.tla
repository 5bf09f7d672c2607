--------------------------- MODULE TransformNode ---------------------------
(***************************************************************************)
(* The world-transform cache of scene/transform_node.  A matrix is the     *)
(* sequence of local transforms it is the product of, root first, so two   *)
(* are equal exactly if they compose the same locals in the same order.    *)
(***************************************************************************)
EXTENDS Naturals, Sequences, SequencesExt

CONSTANTS Node,     \* the indices of the node array
          NoParent, \* INVALID_TRANSFORM_NODE
          Parent,   \* node.parent of each node, which nobody modifies
          Local,    \* the local transforms in use
          Modulus   \* 2^32: where a version counter wraps

ASSUME ModulusAssumption == Modulus \in Nat /\ Modulus > 1
ASSUME ParentAssumption == NoParent \notin Node /\ Parent \in [Node -> Node \cup {NoParent}]
\* The hierarchy is acyclic: any nodes include one whose parent is not among them.
ASSUME AcyclicAssumption ==
    \A S \in SUBSET Node : S # {} => \E n \in S : Parent[n] \notin S

VARIABLES local, local_version, world, world_version, parent_version, \* the fields
          last,     \* history: the node the last step updated, or NoParent
          pending,  \* history: changes of n or its parent since n's last update
          unseen    \* history: the edited nodes that world[n] does not reflect

cache == <<world, world_version, parent_version>>
vars == <<local, local_version, cache, last, pending, unseen>>

IsRoot(n) == Parent[n] = NoParent

\* The nodes from the root to n.
path[n \in Node] == IF IsRoot(n) THEN <<n>> ELSE Append(path[Parent[n]], n)

OnPath(n) == {path[n][i] : i \in DOMAIN path[n]}

\* What the world transform of n should be now.
Composed(n) == [i \in DOMAIN path[n] |-> local[path[n][i]]]

\* A default-constructed node counts as changed: its version is ahead by one.
Init ==
    /\ local \in [Node -> Local]
    /\ local_version = [n \in Node |-> 1]
    /\ world = [n \in Node |-> <<>>]
    /\ world_version = [n \in Node |-> 0]
    /\ parent_version = [n \in Node |-> 0]
    /\ last = NoParent
    /\ pending = [n \in Node |-> 1]
    /\ unseen = [n \in Node |-> OnPath(n)]

-----------------------------------------------------------------------------
(* Slips: what an operation below would be with one plausible mistake in it. *)

\* Only the node's own version is looked at.
Stale_OwnOnly(c, n) == local_version[n] # c.world_version[n]

\* The snapshot of the parent's version is taken before the parent is updated.
Refreshed_OldSnapshot(c, n) ==
    [c EXCEPT !.world[n] = IF IsRoot(n) THEN <<local[n]>>
                                        ELSE Append(c.world[Parent[n]], local[n]),
              !.world_version[n] = local_version[n],
              !.parent_version[n] = IF IsRoot(n) THEN 0 ELSE world_version[Parent[n]],
              !.unseen[n] = IF IsRoot(n) THEN {} ELSE c.unseen[Parent[n]]]

-----------------------------------------------------------------------------
(* One level of update_world_transform on the cache c: the fields it may     *)
(* change, and unseen.                                                       *)

Stale(c, n) ==
    \/ local_version[n] # c.world_version[n]
    \/ ~ IsRoot(n) /\ c.parent_version[n] # c.world_version[Parent[n]]

\* The assignment of local_version - 1 to world_version on the way is always
\* overwritten.
Refreshed(c, n) ==
    [c EXCEPT !.world[n] = IF IsRoot(n) THEN <<local[n]>>
                                        ELSE Append(c.world[Parent[n]], local[n]),
              !.world_version[n] = local_version[n],
              !.parent_version[n] = IF IsRoot(n) THEN 0 ELSE c.world_version[Parent[n]],
              !.unseen[n] = IF IsRoot(n) THEN {} ELSE c.unseen[Parent[n]]]

UpdateOne(c, n) == IF Stale(c, n) THEN Refreshed(c, n) ELSE c

Current == [world |-> world, world_version |-> world_version,
            parent_version |-> parent_version, unseen |-> unseen]

\* The recursion reaches the root first and updates every level on its way back.
Update(id) ==
    LET c == FoldLeft(UpdateOne, Current, path[id])
    IN  /\ world' = c.world
        /\ world_version' = c.world_version
        /\ parent_version' = c.parent_version
        /\ unseen' = c.unseen
        /\ last' = id
        /\ pending' = [n \in Node |-> IF n \in OnPath(id) THEN 0 ELSE pending[n]]
        /\ UNCHANGED <<local, local_version>>

\* The owner of the nodes edits a local transform and counts the edit.  No node
\* is left without an update for as many changes as the counters can tell apart.
SetLocal(n, v) ==
    LET affected == {m \in Node : m = n \/ Parent[m] = n}
    IN  /\ \A m \in affected : pending[m] < Modulus - 1
        /\ local' = [local EXCEPT ![n] = v]
        /\ local_version' = [local_version EXCEPT ![n] = (@ + 1) % Modulus]
        /\ pending' = [m \in Node |-> IF m \in affected THEN pending[m] + 1 ELSE pending[m]]
        /\ unseen' = [m \in Node |-> IF n \in OnPath(m) THEN unseen[m] \cup {n} ELSE unseen[m]]
        /\ last' = NoParent
        /\ UNCHANGED cache

Next ==
    \/ \E id \in Node : Update(id)
    \/ \E n \in Node, v \in Local : SetLocal(n, v)

Spec == Init /\ [][Next]_vars

-----------------------------------------------------------------------------
(* Properties *)

Versions == 0 .. Modulus - 1

TypeOK ==
    /\ local \in [Node -> Local] /\ world \in [Node -> Seq(Local)]
    /\ local_version \in [Node -> Versions]
    /\ world_version \in [Node -> Versions]
    /\ parent_version \in [Node -> Versions]
    /\ last \in Node \cup {NoParent}
    /\ pending \in [Node -> Versions] /\ unseen \in [Node -> SUBSET Node]

\* "Ensures that a node's world transform is up-to-date."  False from the third
\* level on: a node recomputed only because its parent changed keeps its
\* world_version, so its own children never learn of it.
UpdateEnsures == last # NoParent => world[last] = Composed(last)

\* It is true of roots and of their children, whatever was edited and updated
\* in between and in which order, across the wrap of the counters.
UpdateEnsuresTwoLevels ==
    last # NoParent /\ Len(path[last]) <= 2 => world[last] = Composed(last)

\* From the third level on, an edit that an update misses is one of a node above
\* the parent; edits of the node itself and of its parent are never missed.
MissesOnlyFromAbove ==
    last # NoParent =>
        /\ unseen[last] = {} => world[last] = Composed(last)
        /\ \A m \in unseen[last] : m # last /\ m # Parent[last]

\* An update leaves nothing to do for a second one, on any level.
UpdateSettles ==
    last # NoParent => \A n \in OnPath(last) : ~ Stale(Current, n)
=============================================================================
