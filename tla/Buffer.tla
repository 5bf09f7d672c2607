------------------------------- MODULE Buffer -------------------------------
(***************************************************************************)
(* containers/buffer.h: views over storage that somebody else owns.  The   *)
(* roots are wrapped over disjoint parts of the storage; slices are cut    *)
(* from any view and share its elements.                                   *)
(***************************************************************************)
EXTENDS Naturals, Sequences

CONSTANTS Value, Garbage, \* elements, and what the storage holds at first
          F,           \* a function on elements
          Root,        \* names of the views wrapped over the storage
          Base, Room,  \* where the part of each root begins, and how long it is
          Size,        \* of the storage
          SliceName,   \* names for slices
          Word,        \* 2^32
          MaxOverflow  \* bound: failed pushes counted in a view

ASSUME ValueAssumption == F \in [Value -> Value] /\ Garbage \in Value
ASSUME StorageAssumption ==
    /\ Root \cap SliceName = {} /\ Size \in Nat /\ Word \in Nat /\ Word > 2 * Size
    /\ Base \in [Root -> 0 .. Size] /\ Room \in [Root -> 0 .. Size]
    /\ \A r, s \in Root : /\ Base[r] + Room[r] <= Size
                          /\ r = s \/ Base[r] + Room[r] <= Base[s] \/ Base[s] + Room[s] <= Base[r]

VARIABLES mem,     \* the storage
          views,   \* the views that exist, by name
          held,    \* history: the elements each root was given since its last reset
          spoiled  \* history: the roots whose elements others may have overwritten

vars == <<mem, views, held, spoiled>>

\* data_ is at the element after base.
View(base, count, capacity) ==
    [base |-> base, count |-> count, capacity |-> capacity, overflow |-> 0]

Contents(v) == SubSeq(mem, views[v].base + 1, views[v].base + views[v].count)

\* wrap: empty, whatever the storage holds.
Init ==
    /\ mem = [a \in 1 .. Size |-> Garbage]
    /\ views = [r \in Root |-> View(Base[r], 0, Room[r])]
    /\ held = [r \in Root |-> <<>>]
    /\ spoiled = {}

Part(v) == views[v].base + 1 .. views[v].base + views[v].capacity
Rooted(v) == {r \in Root : Part(v) \cap Part(r) # {}}

\* A slice begins full: it can only write after a reset.
CanWrite(v) == views[v].count < views[v].capacity

-----------------------------------------------------------------------------
(* A slip: what an operation below would be with one plausible mistake in it. *)

\* A slice keeps the room behind it.
Cut_KeepsRoom(v, start, len) == View(v.base + start, len, v.capacity - start)

-----------------------------------------------------------------------------
(* The operations *)

Now == [mem |-> mem, views |-> views]

Become(s) == mem' = s.mem /\ views' = s.views

\* push of x through the view v, in the state s of the storage and the views.
Pushed(s, v, x) ==
    IF s.views[v].count >= s.views[v].capacity
    THEN [s EXCEPT !.views[v].overflow = @ + 1]
    ELSE [mem |-> [s.mem EXCEPT ![s.views[v].base + s.views[v].count + 1] = x],
          views |-> [s.views EXCEPT ![v].count = @ + 1]]

\* What a bounded list holds once xs have been added to it.
Fitting(list, xs, capacity) ==
    LET all == list \o xs IN SubSeq(all, 1, IF Len(all) < capacity THEN Len(all) ELSE capacity)

Given(v, xs) ==
    held' = [r \in Root |-> IF r = v /\ r \notin spoiled'
                            THEN Fitting(held[r], xs, Room[r])
                            ELSE IF r \in spoiled' THEN <<>> ELSE held[r]]

Push(v, x) ==
    /\ views[v].overflow < MaxOverflow
    /\ Become(Pushed(Now, v, x))
    /\ UNCHANGED spoiled
    /\ Given(v, <<x>>)

\* overflow_count is kept.  From here on a slice may overwrite what its root
\* holds; a root begins anew, unless slices of it can still write.
Reset(v) ==
    /\ views' = [views EXCEPT ![v].count = 0]
    /\ spoiled' = IF v \in Root
                  THEN {r \in spoiled : r # v \/ \E s \in DOMAIN views \ Root :
                                                    CanWrite(s) /\ r \in Rooted(s)}
                  ELSE IF views[v].capacity = 0 THEN spoiled ELSE spoiled \cup Rooted(v)
    /\ held' = [r \in Root |-> IF r = v \/ r \in spoiled' THEN <<>> ELSE held[r]]
    /\ UNCHANGED mem

Cut(v, start, len) == View(v.base + start, len, len)

\* slice: the assertion adds in 32 bits; the callers ask for no more than the
\* storage has, so that the sum does not wrap.
Slice(v, name, start, len) ==
    /\ start <= views[v].count
    /\ (start + len) % Word <= views[v].count
    /\ views' = [n \in DOMAIN views \cup {name} |->
                    IF n = name THEN Cut(views[v], start, len) ELSE views[n]]
    /\ UNCHANGED <<mem, held, spoiled>>

\* for_each may change the elements in place, the ones its root holds too.
ForEach(v) ==
    LET own == views[v].base + 1 .. views[v].base + views[v].count
    IN  /\ mem' = [a \in 1 .. Size |-> IF a \in own THEN F[mem[a]] ELSE mem[a]]
        /\ held' = [r \in Root |-> [i \in DOMAIN held[r] |->
                        IF Base[r] + i \in own THEN F[held[r][i]] ELSE held[r][i]]]
        /\ UNCHANGED <<views, spoiled>>

Next ==
    \/ \E v \in DOMAIN views :
          \/ \E x \in Value : Push(v, x)
          \/ Reset(v)
          \/ ForEach(v)
          \/ \E name \in SliceName \ {v}, start, len \in 0 .. Size : Slice(v, name, start, len)

-----------------------------------------------------------------------------
(* Properties *)

TypeOK ==
    /\ mem \in [1 .. Size -> Value]
    /\ \A v \in DOMAIN views : LET w == views[v] IN
          /\ w \in [base : 0 .. Size, count : Nat, capacity : Nat, overflow : Nat]
          /\ w.count <= w.capacity /\ w.base + w.capacity <= Size
    /\ held \in [Root -> Seq(Value)] /\ spoiled \subseteq Root

\* A root holds what was pushed to it since its last reset, as much as fits, in
\* order and undisturbed by pushes through other views, slices of it included,
\* as long as no slice of it was reset and no algorithm overran its own input.
RootsHold == \A r \in Root \ spoiled : Contents(r) = held[r]

BufferInv == TypeOK /\ RootsHold
=============================================================================
