------------------------- MODULE EngineFrameProofs -------------------------
(***************************************************************************)
(* Machine-checked proofs about EngineFrame, for every set of threads and  *)
(* of buttons, every capacity of the event queue and every bound: the      *)
(* types, that what the input state says of a control is true of it once   *)
(* the queued events are used up, that no frame hides a change, and that   *)
(* shutdown lets at most one more frame be built.                          *)
(*                                                                         *)
(* build_input is a fold over the frame's events.  What it computes is     *)
(* proved from the fold's own definition, by induction over the set of the *)
(* lengths for which the claim holds.                                      *)
(***************************************************************************)
EXTENDS EngineFrame, WellFoundedInduction, SequenceTheorems, TLAPS

-----------------------------------------------------------------------------
(* Induction, for a set of numbers *)

LEMMA NatSetInduction ==
    ASSUME NEW T, 0 \in T, \A n \in Nat : n \in T => n + 1 \in T
    PROVE  Nat \subseteq T
<1> DEFINE R == OpToRel(<, Nat)
           U == Nat \ T
<1>1. SUFFICES ASSUME U # {}
               PROVE  FALSE
    OBVIOUS
<1>2. IsWellFoundedOn(R, Nat)
    BY NatLessThanWellFounded
<1>3. \A x, y \in Nat : y < x => <<y, x>> \in R
    BY DEF OpToRel
<1>4. U \subseteq Nat
    OBVIOUS
<1> HIDE DEF R
<1>5. PICK x \in U : \A y \in U : ~ (<<y, x>> \in R)
  <2> HIDE DEF U
  <2> QED
      BY <1>1, <1>2, <1>4, WFMin
<1>6. x # 0 /\ x - 1 \in Nat /\ x - 1 < x
    BY <1>5
<1>7. x - 1 \in U
    BY <1>5, <1>6
<1>8. QED
    BY <1>3, <1>5, <1>6, <1>7

-----------------------------------------------------------------------------
(* build_input applies the events one after the other. *)

\* What the fold's recursion says of the sets of the first n indices.
Fold(g, base, s, n) ==
    g = [S \in SUBSET (1 .. n) |->
            IF S = {} THEN base ELSE Apply(g[S \ {Max(S)}], s[Max(S)])]

LEMMA MaxIs ==
    ASSUME NEW n \in Nat, NEW S \in SUBSET (1 .. n + 1), n + 1 \in S
    PROVE  Max(S) = n + 1
<1>1. n + 1 \in S /\ \A y \in S : n + 1 >= y
    OBVIOUS
<1>2. \A x \in S : (\A y \in S : x >= y) => x = n + 1
    BY <1>1
<1>3. QED
    BY <1>1, <1>2 DEF Max

LEMMA FoldExists ==
    ASSUME NEW base, NEW s, NEW n \in Nat
    PROVE  \E g : Fold(g, base, s, n)
<1> DEFINE T == {m \in Nat : \E g : Fold(g, base, s, m)}
<1>1. 0 \in T
  <2> DEFINE g == [S \in SUBSET (1 .. 0) |-> base]
  <2>1. 1 .. 0 = {} /\ \A S \in SUBSET (1 .. 0) : S = {}
      OBVIOUS
  <2>2. Fold(g, base, s, 0)
      BY <2>1 DEF Fold
  <2>3. QED
      BY <2>2
<1>2. ASSUME NEW m \in Nat, m \in T
      PROVE  m + 1 \in T
  <2>1. PICK f : Fold(f, base, s, m)
      BY <1>2
  <2> DEFINE g == [S \in SUBSET (1 .. m + 1) |->
                      IF m + 1 \in S THEN Apply(f[S \ {m + 1}], s[m + 1]) ELSE f[S]]
  <2>2. \A S \in SUBSET (1 .. m + 1) : S \ {m + 1} \in SUBSET (1 .. m)
      OBVIOUS
  <2>3. \A S \in SUBSET (1 .. m + 1) : m + 1 \notin S => S \in SUBSET (1 .. m)
      OBVIOUS
  <2>4. ASSUME NEW S \in SUBSET (1 .. m)
        PROVE  g[S] = f[S]
    <3>1. S \in SUBSET (1 .. m + 1) /\ m + 1 \notin S
        OBVIOUS
    <3>2. QED
        BY <3>1
  <2>5. ASSUME NEW S \in SUBSET (1 .. m + 1)
        PROVE  g[S] = IF S = {} THEN base ELSE Apply(g[S \ {Max(S)}], s[Max(S)])
    <3>1. CASE m + 1 \in S
      <4>1. Max(S) = m + 1
          BY <3>1, MaxIs
      <4>2. g[S] = Apply(f[S \ {m + 1}], s[m + 1])
          BY <3>1
      <4>3. g[S \ {m + 1}] = f[S \ {m + 1}]
          BY <2>2, <2>4
      <4> HIDE DEF g
      <4>4. QED
          BY <3>1, <4>1, <4>2, <4>3
    <3>2. CASE m + 1 \notin S
      <4>1. S \in SUBSET (1 .. m)
          BY <2>3, <3>2
      <4>2. f[S] = IF S = {} THEN base ELSE Apply(f[S \ {Max(S)}], s[Max(S)])
          BY <2>1, <4>1 DEF Fold
      <4>3. g[S] = f[S]
          BY <2>4, <4>1
      <4>4. g[S \ {Max(S)}] = f[S \ {Max(S)}]
        <5>1. S \ {Max(S)} \in SUBSET (1 .. m)
            BY <4>1
        <5>2. QED
            BY <2>4, <5>1
      <4> HIDE DEF g
      <4>5. QED
          BY <4>2, <4>3, <4>4
    <3>3. QED
        BY <3>1, <3>2
  <2>6. g = [S \in SUBSET (1 .. m + 1) |-> g[S]]
      OBVIOUS
  <2> HIDE DEF g
  <2>7. Fold(g, base, s, m + 1)
      BY <2>5, <2>6 DEF Fold
  <2>8. QED
      BY <2>7
<1> HIDE DEF T
<1>3. Nat \subseteq T
    BY <1>1, <1>2, NatSetInduction
<1>4. QED
    BY <1>3 DEF T

LEMMA BuildIs ==
    ASSUME NEW prev, NEW s, NEW n \in Nat, DOMAIN s = 1 .. n
    PROVE  \E h : /\ h[0] = Cleared(prev)
                  /\ \A k \in 1 .. n : h[k] = Apply(h[k - 1], s[k])
                  /\ h[n] = build_input(prev, s)
<1> DEFINE base == Cleared(prev)
           G == CHOOSE g : Fold(g, base, s, n)
<1>1. build_input(prev, s) = G[1 .. n]
    BY DEF build_input, FoldLeft, MapThenFoldSet, Fold
<1>2. Fold(G, base, s, n)
    BY FoldExists
<1> HIDE DEF G
<1> DEFINE h == [k \in 0 .. n |-> G[1 .. k]]
<1>3. h[0] = base
    BY <1>2 DEF Fold
<1>4. ASSUME NEW k \in 1 .. n
      PROVE  h[k] = Apply(h[k - 1], s[k])
  <2> DEFINE j == k - 1
  <2>a. k \in Nat /\ j \in Nat /\ j + 1 = k /\ j \in 0 .. n /\ k \in 0 .. n
      OBVIOUS
  <2>b. \A i \in 1 .. k : i \in 1 .. n
      OBVIOUS
  <2>c. k \in 1 .. k
      OBVIOUS
  <2>1. 1 .. k \in SUBSET (1 .. n) /\ 1 .. k # {}
      BY <2>b, <2>c
  <2>2. Max(1 .. k) = k
    <3> HIDE DEF j
    <3>1. 1 .. k \in SUBSET (1 .. j + 1) /\ j + 1 \in 1 .. k
        BY <2>a
    <3>2. Max(1 .. k) = j + 1
        BY ONLY <3>1, <2>a, MaxIs
    <3>3. QED
        BY <3>2, <2>a
  <2>3. (1 .. k) \ {k} = 1 .. k - 1
      OBVIOUS
  <2>4. G[1 .. k] = Apply(G[1 .. k - 1], s[k])
      BY <1>2, <2>1, <2>2, <2>3 DEF Fold
  <2>5. QED
      BY <2>a, <2>4
<1>5. h[n] = build_input(prev, s)
    BY <1>1
<1> HIDE DEF h
<1>6. QED
    BY <1>3, <1>4, <1>5

-----------------------------------------------------------------------------
(* One event *)

InputState == [down : SUBSET Control, pressed : SUBSET Control, released : SUBSET Control,
               dx : Nat]

LevelEvent(e) == \E c \in Control, on \in BOOLEAN :
                    e = KeyEvent(c, on) \/ e = ButtonEvent(c, on)

\* An event is about a control and says what it is, or it is about none.
LEMMA EventKinds ==
    ASSUME NEW e \in Events
    PROVE  \/ /\ e.category = "Input" /\ e.of \in Control /\ e.on \in BOOLEAN
              /\ e.type \in {"KeyPressDown", "KeyPressUp", "MouseButton"}
              /\ IsLevel(e)
           \/ /\ e \in {MouseMove, MouseWheel, WindowEvent}
              /\ ~ IsLevel(e)
<1>1. CASE \E p \in Thread : e \in Posted(p)
  <2>1. PICK p \in Thread : e \in Posted(p)
      BY <1>1
  <2>2. CASE e = KeyEvent(p, FALSE)
      BY <2>2 DEF KeyEvent, Event, IsLevel, Control
  <2>3. CASE e = KeyEvent(p, TRUE)
      BY <2>3 DEF KeyEvent, Event, IsLevel, Control
  <2>4. CASE e = WindowEvent
      BY <2>4 DEF WindowEvent, IsLevel
  <2>5. QED
      BY <2>1, <2>2, <2>3, <2>4 DEF Posted
<1>2. CASE e = MouseMove \/ e = MouseWheel
    BY <1>2, ThreadAssumption DEF MouseMove, MouseWheel, Event, IsLevel, Control
<1>3. CASE \E b \in Button, on \in BOOLEAN : e = ButtonEvent(b, on)
  <2>1. PICK b \in Button, on \in BOOLEAN : e = ButtonEvent(b, on)
      BY <1>3
  <2>2. /\ e.category = "Input" /\ e.of = b /\ e.on = on /\ e.type = "MouseButton"
      BY <2>1 DEF ButtonEvent, Event
  <2>3. QED
      BY <2>2 DEF IsLevel, Control
<1>4. \/ \E p \in Thread : e \in Posted(p)
      \/ e = MouseMove \/ e = MouseWheel
      \/ \E b \in Button, on \in BOOLEAN : e = ButtonEvent(b, on)
  <2> DEFINE A == UNION {Posted(p) : p \in Thread}
             C == {ButtonEvent(b, on) : b \in Button, on \in BOOLEAN}
  <2>1. e \in A => \E p \in Thread : e \in Posted(p)
      OBVIOUS
  <2>2. e \in C => \E b \in Button, on \in BOOLEAN : e = ButtonEvent(b, on)
      OBVIOUS
  <2>3. e \in A \cup {MouseMove, MouseWheel} \cup C
      BY DEF Events
  <2> HIDE DEF A, C
  <2>4. QED
      BY <2>1, <2>2, <2>3
<1>5. QED
    BY <1>1, <1>2, <1>3, <1>4

\* What one event does to the input state.
LEMMA ApplyIs ==
    ASSUME NEW in \in InputState, NEW e \in Events
    PROVE  /\ Apply(in, e) \in InputState
           /\ \A c \in Control :
                 /\ IsLevel(e) /\ e.of = c =>
                      /\ c \in Apply(in, e).down <=> e.on
                      /\ c \in Apply(in, e).pressed <=> (e.on \/ c \in in.pressed)
                      /\ c \in Apply(in, e).released <=> (~ e.on \/ c \in in.released)
                 /\ ~ (IsLevel(e) /\ e.of = c) =>
                      /\ c \in Apply(in, e).down <=> (c \in in.down)
                      /\ c \in Apply(in, e).pressed <=> (c \in in.pressed)
                      /\ c \in Apply(in, e).released <=> (c \in in.released)
<1> DEFINE K == {"KeyPressDown", "KeyPressUp", "MouseButton"}
<1>1. CASE IsLevel(e)
  <2>1. e.category = "Input" /\ e.type \in K /\ e.on \in BOOLEAN /\ e.of \in Control
      BY <1>1, EventKinds
  <2>2. CASE e.on
    <3>1. Apply(in, e) = [in EXCEPT !.down = @ \cup {e.of}, !.pressed = @ \cup {e.of}]
        BY <2>1, <2>2 DEF Apply
    <3>2. Apply(in, e) = [down |-> in.down \cup {e.of}, pressed |-> in.pressed \cup {e.of},
                          released |-> in.released, dx |-> in.dx]
        BY <3>1 DEF InputState
    <3>3. QED
        BY <1>1, <2>1, <2>2, <3>2 DEF InputState
  <2>3. CASE ~ e.on
    <3>1. Apply(in, e) = [in EXCEPT !.down = @ \ {e.of}, !.released = @ \cup {e.of}]
        BY <2>1, <2>3 DEF Apply
    <3>2. Apply(in, e) = [down |-> in.down \ {e.of}, pressed |-> in.pressed,
                          released |-> in.released \cup {e.of}, dx |-> in.dx]
        BY <3>1 DEF InputState
    <3>3. QED
        BY <1>1, <2>1, <2>3, <3>2 DEF InputState
  <2>4. QED
      BY <2>2, <2>3
<1>2. CASE ~ IsLevel(e)
  <2>1. e \in {MouseMove, MouseWheel, WindowEvent}
      BY <1>2, EventKinds
  <2>2. /\ Apply(in, e) \in InputState
        /\ Apply(in, e).down = in.down
        /\ Apply(in, e).pressed = in.pressed
        /\ Apply(in, e).released = in.released
    <3>1. CASE e = MouseMove
      <4>1. Apply(in, e) = [in EXCEPT !.dx = 1]
          BY <3>1 DEF Apply, MouseMove, Event
      <4>2. QED
          BY <4>1 DEF InputState
    <3>2. CASE e = MouseWheel
      <4>1. Apply(in, e) = [in EXCEPT !.dx = @ + 1]
          BY <3>2 DEF Apply, MouseWheel, Event
      <4>2. QED
          BY <4>1 DEF InputState
    <3>3. CASE e = WindowEvent
      <4>1. Apply(in, e) = in
          BY <3>3 DEF Apply, WindowEvent
      <4>2. QED
          BY <4>1 DEF InputState
    <3>4. QED
        BY <2>1, <3>1, <3>2, <3>3
  <2>3. QED
      BY <1>2, <2>2
<1>3. QED
    BY <1>1, <1>2

LEMMA ClearedIs ==
    ASSUME NEW in \in InputState
    PROVE  /\ Cleared(in) \in InputState
           /\ Cleared(in).down = in.down
           /\ Cleared(in).pressed = {} /\ Cleared(in).released = {}
BY DEF Cleared, InputState

-----------------------------------------------------------------------------
(* The last event about a control *)

IsLast(c, s, i) == i \in About(c, s) /\ \A j \in About(c, s) : j <= i

LEMMA ToldIs ==
    ASSUME NEW c, NEW S, NEW s \in Seq(S), NEW d, NEW i, IsLast(c, s, i)
    PROVE  Told(c, s, d) = s[i].on
<1>1. About(c, s) \subseteq Nat
    BY DEF About
<1>2. \A k \in About(c, s) : (\A j \in About(c, s) : j <= k) => k = i
    BY <1>1 DEF IsLast
<1>3. i \in About(c, s) /\ \A j \in About(c, s) : j <= i
    BY DEF IsLast
<1>4. (CHOOSE k \in About(c, s) : \A j \in About(c, s) : j <= k) = i
    BY <1>2, <1>3
<1>5. QED
    BY <1>3, <1>4 DEF Told

LEMMA LastExists ==
    ASSUME NEW c, NEW S, NEW s \in Seq(S), About(c, s) # {}
    PROVE  \E i : IsLast(c, s, i)
<1> DEFINE A(n) == About(c, s) \cap (1 .. n)
           T == {n \in Nat : A(n) # {} => \E i \in A(n) : \A j \in A(n) : j <= i}
<1>1. 0 \in T
    OBVIOUS
<1>2. ASSUME NEW n \in Nat, n \in T
      PROVE  n + 1 \in T
  <2>1. \A j \in 1 .. n + 1 : j = n + 1 \/ j \in 1 .. n
      OBVIOUS
  <2>2. \A j \in 1 .. n : j \in 1 .. n + 1 /\ j <= n + 1
      OBVIOUS
  <2>3. CASE n + 1 \in About(c, s)
    <3>1. n + 1 \in A(n + 1)
        BY <2>3
    <3>2. \A j \in A(n + 1) : j <= n + 1
        OBVIOUS
    <3>3. QED
        BY <3>1, <3>2
  <2>4. CASE n + 1 \notin About(c, s)
    <3>1. A(n + 1) = A(n)
        BY <2>1, <2>2, <2>4
    <3>2. QED
        BY <1>2, <3>1
  <2>5. QED
      BY <2>3, <2>4
<1>3. Len(s) \in T
  <2> HIDE DEF T
  <2>1. Nat \subseteq T
      BY <1>1, <1>2, NatSetInduction
  <2>2. QED
      BY <2>1
<1>4. A(Len(s)) = About(c, s)
    BY DEF About
<1>5. QED
    BY <1>3, <1>4 DEF IsLast

LEMMA ToldBoolean ==
    ASSUME NEW c, NEW s \in Seq(Events), NEW d \in BOOLEAN
    PROVE  Told(c, s, d) \in BOOLEAN
<1>1. CASE About(c, s) = {}
    BY <1>1 DEF Told
<1>2. CASE About(c, s) # {}
  <2>1. PICK i : IsLast(c, s, i)
      BY <1>2, LastExists
  <2>2. i \in DOMAIN s /\ IsLevel(s[i]) /\ s[i] \in Events
      BY <2>1 DEF IsLast, About
  <2>3. s[i].on \in BOOLEAN
      BY <2>2, EventKinds
  <2>4. QED
      BY <2>1, <2>3, ToldIs
<1>3. QED
    BY <1>1, <1>2

\* Events used up before others do not matter to what the others say.
LEMMA ToldConcat ==
    ASSUME NEW c, NEW s \in Seq(Events), NEW t \in Seq(Events), NEW d
    PROVE  Told(c, s \o t, d) = Told(c, t, Told(c, s, d))
<1> DEFINE u == s \o t
<1>1. /\ u \in Seq(Events)
      /\ Len(u) = Len(s) + Len(t)
      /\ \A i \in 1 .. Len(s) : u[i] = s[i]
      /\ \A i \in 1 .. Len(t) : u[Len(s) + i] = t[i]
    OBVIOUS
<1> HIDE DEF u
<1>2. \A i \in DOMAIN s : i \in DOMAIN u /\ u[i] = s[i]
    BY <1>1
<1>3. \A i \in DOMAIN t : Len(s) + i \in DOMAIN u /\ u[Len(s) + i] = t[i]
    BY <1>1
<1>4. \A i \in DOMAIN u : i \in DOMAIN s \/ \E j \in DOMAIN t : i = Len(s) + j
  <2>1. SUFFICES ASSUME NEW i \in DOMAIN u, i \notin DOMAIN s
                 PROVE  \E j \in DOMAIN t : i = Len(s) + j
      OBVIOUS
  <2>2. i - Len(s) \in DOMAIN t /\ i = Len(s) + (i - Len(s))
      BY <1>1, <2>1
  <2>3. QED
      BY <2>2
<1>5. CASE About(c, t) = {}
  <2>1. About(c, u) = About(c, s)
      BY <1>2, <1>3, <1>4, <1>5 DEF About
  <2>2. Told(c, t, Told(c, s, d)) = Told(c, s, d)
      BY <1>5 DEF Told
  <2>3. CASE About(c, s) = {}
      BY <2>1, <2>2, <2>3 DEF Told, u
  <2>4. CASE About(c, s) # {}
    <3>1. PICK i : IsLast(c, s, i)
        BY <2>4, LastExists
    <3>2. IsLast(c, u, i) /\ u[i] = s[i]
        BY <1>2, <2>1, <3>1 DEF IsLast, About
    <3>3. Told(c, u, d) = u[i].on
        BY <1>1, <3>2, ToldIs
    <3>4. Told(c, s, d) = s[i].on
        BY <3>1, ToldIs
    <3>5. QED
        BY <2>2, <3>2, <3>3, <3>4 DEF u
  <2>5. QED
      BY <2>3, <2>4
<1>6. CASE About(c, t) # {}
  <2>1. PICK i : IsLast(c, t, i)
      BY <1>6, LastExists
  <2>2. i \in DOMAIN t /\ \A j \in About(c, t) : j <= i
      BY <2>1 DEF IsLast, About
  <2>3. PICK k \in Nat : k = Len(s) + i
      BY <2>2
  <2>4. k \in About(c, u) /\ u[k] = t[i]
      BY <1>3, <2>1, <2>3 DEF IsLast, About
  <2>5. ASSUME NEW j \in About(c, u)
        PROVE  j <= k
    <3>1. CASE j \in DOMAIN s
        BY <2>2, <2>3, <3>1
    <3>2. CASE \E m \in DOMAIN t : j = Len(s) + m
      <4>1. PICK m \in DOMAIN t : j = Len(s) + m
          BY <3>2
      <4>2. m \in About(c, t)
          BY <1>3, <2>5, <4>1 DEF About
      <4>3. m <= i
          BY <2>2, <4>2
      <4>4. QED
          BY <2>2, <2>3, <4>1, <4>3
    <3>3. j \in DOMAIN u
        BY <2>5 DEF About
    <3>4. QED
        BY <1>4, <3>1, <3>2, <3>3
  <2>6. IsLast(c, u, k)
      BY <2>4, <2>5 DEF IsLast
  <2>7. Told(c, u, d) = u[k].on
      BY <1>1, <2>6, ToldIs
  <2>8. Told(c, t, Told(c, s, d)) = t[i].on
      BY <2>1, ToldIs
  <2>9. QED
      BY <2>4, <2>7, <2>8 DEF u
<1>7. QED
    BY <1>5, <1>6

LEMMA ToldOne ==
    ASSUME NEW c, NEW e \in Events, NEW d
    PROVE  Told(c, <<e>>, d) = IF IsLevel(e) /\ e.of = c THEN e.on ELSE d
<1>1. DOMAIN <<e>> = {1} /\ <<e>>[1] = e /\ <<e>> \in Seq(Events)
    OBVIOUS
<1>2. CASE IsLevel(e) /\ e.of = c
  <2>1. About(c, <<e>>) = {1}
      BY <1>1, <1>2 DEF About
  <2>2. IsLast(c, <<e>>, 1)
      BY <2>1 DEF IsLast
  <2>3. \A s \in Seq(Events) : IsLast(c, s, 1) => Told(c, s, d) = s[1].on
      BY ToldIs
  <2>4. Told(c, <<e>>, d) = <<e>>[1].on
      BY <1>1, <2>2, <2>3
  <2>5. QED
      BY <1>1, <1>2, <2>4
<1>3. CASE ~ (IsLevel(e) /\ e.of = c)
  <2>1. About(c, <<e>>) = {}
      BY <1>1, <1>3 DEF About
  <2>2. QED
      BY <1>3, <2>1 DEF Told
<1>4. QED
    BY <1>2, <1>3

LEMMA ToldAppend ==
    ASSUME NEW c, NEW s \in Seq(Events), NEW e \in Events, NEW d
    PROVE  Told(c, Append(s, e), d) =
               IF IsLevel(e) /\ e.of = c THEN e.on ELSE Told(c, s, d)
<1>1. Append(s, e) = s \o <<e>> /\ <<e>> \in Seq(Events)
    OBVIOUS
<1>2. PICK t \in Seq(Events) : t = <<e>>
    BY <1>1
<1>3. Told(c, s \o t, d) = Told(c, t, Told(c, s, d))
    BY ToldConcat
<1>4. QED
    BY <1>1, <1>2, <1>3, ToldOne

LEMMA ToldNothing ==
    ASSUME NEW c, NEW s, NEW d, About(c, s) = {}
    PROVE  Told(c, s, d) = d
BY DEF Told

\* Where something is said, what was held before does not matter.
LEMMA ToldSomething ==
    ASSUME NEW c, NEW s, NEW d, NEW dd, About(c, s) # {}
    PROVE  Told(c, s, d) = Told(c, s, dd)
BY DEF Told

-----------------------------------------------------------------------------
(* One frame *)

\* What the input state x says of control c after the events s, from in.
Facts(in, x, c, s) ==
    /\ c \in x.down <=> Told(c, s, c \in in.down)
    /\ c \in x.down /\ c \notin in.down => c \in x.pressed
    /\ c \in in.down /\ c \notin x.down => c \in x.released
    /\ c \in x.pressed /\ c \notin x.released => c \in x.down
    /\ c \in x.released /\ c \notin x.pressed => c \notin x.down
    /\ About(c, s) = {} => c \notin x.pressed /\ c \notin x.released

LEMMA AboutAppend ==
    ASSUME NEW c, NEW s \in Seq(Events), NEW e \in Events
    PROVE  About(c, Append(s, e)) = {} <=> About(c, s) = {} /\ ~ (IsLevel(e) /\ e.of = c)
<1>0. Append(s, e) \in Seq(Events)
    OBVIOUS
<1>1. PICK t \in Seq(Events) : t = Append(s, e)
    BY <1>0
<1>2. /\ DOMAIN t = DOMAIN s \cup {Len(s) + 1}
      /\ t[Len(s) + 1] = e
      /\ \A i \in DOMAIN s : t[i] = s[i]
    BY <1>1
<1>3. About(c, t) = {} <=> About(c, s) = {} /\ ~ (IsLevel(e) /\ e.of = c)
    BY <1>2 DEF About
<1>4. QED
    BY <1>1, <1>3

LEMMA FactsStep ==
    ASSUME NEW in \in InputState, NEW x \in InputState, NEW c \in Control,
           NEW s \in Seq(Events), NEW e \in Events, Facts(in, x, c, s)
    PROVE  Facts(in, Apply(x, e), c, Append(s, e))
<1>1. PICK d : d = (c \in in.down)
    OBVIOUS
<1>2. PICK y \in InputState : y = Apply(x, e)
    BY ApplyIs
<1>3. /\ IsLevel(e) /\ e.of = c =>
            /\ c \in y.down <=> e.on
            /\ c \in y.pressed <=> (e.on \/ c \in x.pressed)
            /\ c \in y.released <=> (~ e.on \/ c \in x.released)
      /\ ~ (IsLevel(e) /\ e.of = c) =>
            /\ c \in y.down <=> c \in x.down
            /\ c \in y.pressed <=> c \in x.pressed
            /\ c \in y.released <=> c \in x.released
    BY <1>2, ApplyIs
<1>4. Told(c, Append(s, e), d) = IF IsLevel(e) /\ e.of = c THEN e.on ELSE Told(c, s, d)
    BY ToldAppend
<1>5. About(c, Append(s, e)) = {} <=> About(c, s) = {} /\ ~ (IsLevel(e) /\ e.of = c)
    BY AboutAppend
<1>6. CASE IsLevel(e) /\ e.of = c
  <2>1. Told(c, Append(s, e), d) = e.on
      BY <1>4, <1>6
  <2>2. About(c, Append(s, e)) # {}
      BY <1>5, <1>6
  <2>3. /\ c \in y.down <=> e.on
        /\ c \in y.pressed <=> (e.on \/ c \in x.pressed)
        /\ c \in y.released <=> (~ e.on \/ c \in x.released)
      BY <1>3, <1>6
  <2>4. Facts(in, y, c, Append(s, e))
      BY <1>1, <2>1, <2>2, <2>3 DEF Facts
  <2>5. QED
      BY <1>2, <2>4
<1>7. CASE ~ (IsLevel(e) /\ e.of = c)
  <2>1. Told(c, Append(s, e), d) = Told(c, s, d)
      BY <1>4, <1>7
  <2>2. About(c, Append(s, e)) = {} <=> About(c, s) = {}
      BY <1>5, <1>7
  <2>3. /\ c \in y.down <=> c \in x.down
        /\ c \in y.pressed <=> c \in x.pressed
        /\ c \in y.released <=> c \in x.released
      BY <1>3, <1>7
  <2>4. Facts(in, y, c, Append(s, e))
      BY <1>1, <2>1, <2>2, <2>3 DEF Facts
  <2>5. QED
      BY <1>2, <2>4
<1>8. QED
    BY <1>6, <1>7

LEMMA PrefixStep ==
    ASSUME NEW S, NEW s \in Seq(S), NEW k \in Nat, k + 1 <= Len(s)
    PROVE  /\ [i \in 1 .. k |-> s[i]] \in Seq(S)
           /\ [i \in 1 .. k + 1 |-> s[i]] = Append([i \in 1 .. k |-> s[i]], s[k + 1])
<1> DEFINE p == [i \in 1 .. k |-> s[i]]
           r == [i \in 1 .. k + 1 |-> s[i]]
<1>0. DOMAIN s = 1 .. Len(s) /\ Len(s) \in Nat
    OBVIOUS
<1>1. \A i \in 1 .. k : s[i] \in S
    BY <1>0
<1>2. p \in Seq(S) /\ Len(p) = k
    BY <1>1
<1>3. PICK u : u = Append(p, s[k + 1])
    OBVIOUS
<1>4. s[k + 1] \in S
    BY <1>0
<1>5. u \in Seq(S) /\ Len(u) = k + 1 /\ u[k + 1] = s[k + 1] /\ \A i \in 1 .. k : u[i] = p[i]
  <2> HIDE DEF p
  <2> QED
      BY <1>2, <1>3, <1>4
<1>6. DOMAIN u = 1 .. k + 1 /\ u = [i \in DOMAIN u |-> u[i]]
    BY <1>5
<1>7. \A i \in 1 .. k + 1 : i = k + 1 \/ i \in 1 .. k
    OBVIOUS
<1>8. \A i \in 1 .. k + 1 : u[i] = s[i]
    BY <1>5, <1>7
<1>9. u = r
  <2> HIDE DEF p
  <2> QED
      BY <1>6, <1>8
<1>10. QED
    BY <1>2, <1>3, <1>9

\* The whole of build_input, for every previous state and every frame's events.
LEMMA BuildFacts ==
    ASSUME NEW in \in InputState, NEW s \in Seq(Events)
    PROVE  /\ build_input(in, s) \in InputState
           /\ \A c \in Control : Facts(in, build_input(in, s), c, s)
<1> DEFINE n == Len(s)
           p(k) == [i \in 1 .. k |-> s[i]]
<1>0. n \in Nat /\ DOMAIN s = 1 .. n
    OBVIOUS
<1>1. PICK h : /\ h[0] = Cleared(in)
               /\ \A k \in 1 .. n : h[k] = Apply(h[k - 1], s[k])
               /\ h[n] = build_input(in, s)
    BY <1>0, BuildIs
<1> DEFINE Ok(k) == h[k] \in InputState /\ \A c \in Control : Facts(in, h[k], c, p(k))
           T == {k \in Nat : k <= n => Ok(k)}
<1>2. 0 \in T
  <2>1. /\ h[0] \in InputState /\ h[0].down = in.down
        /\ h[0].pressed = {} /\ h[0].released = {}
      BY <1>1, ClearedIs
  <2>2. DOMAIN p(0) = {}
      OBVIOUS
  <2>3. \A c : About(c, p(0)) = {}
    <3> HIDE DEF p
    <3> QED
        BY <2>2 DEF About
  <2>4. ASSUME NEW c \in Control
        PROVE  Facts(in, h[0], c, p(0))
    <3>1. Told(c, p(0), c \in in.down) = (c \in in.down)
      <4> HIDE DEF p
      <4> QED
          BY <2>3, ToldNothing
    <3> HIDE DEF p
    <3>2. QED
        BY <2>1, <2>3, <3>1 DEF Facts
  <2>5. QED
      BY <2>1, <2>4
<1>3. ASSUME NEW k \in Nat, k \in T
      PROVE  k + 1 \in T
  <2>1. SUFFICES ASSUME k + 1 <= n
                 PROVE  Ok(k + 1)
      OBVIOUS
  <2>2. Ok(k)
      BY <1>0, <1>3, <2>1
  <2>3. /\ k + 1 \in 1 .. n /\ (k + 1) - 1 = k
        /\ s[k + 1] \in Events
      BY <1>0, <2>1
  <2>4. h[k + 1] = Apply(h[k], s[k + 1])
    <3>1. PICK m \in 1 .. n : m = k + 1
        BY <2>3
    <3>2. m - 1 = k
        BY <2>3, <3>1
    <3>3. h[m] = Apply(h[m - 1], s[m])
        BY <1>1
    <3>4. QED
        BY <3>1, <3>2, <3>3
  <2>5. p(k) \in Seq(Events) /\ p(k + 1) = Append(p(k), s[k + 1])
      BY <2>1, PrefixStep
  <2> HIDE DEF p, n
  <2>6. h[k + 1] \in InputState
      BY <2>2, <2>3, <2>4, ApplyIs
  <2>7. ASSUME NEW c \in Control
        PROVE  Facts(in, h[k + 1], c, p(k + 1))
      BY <2>2, <2>3, <2>4, <2>5, FactsStep
  <2>8. QED
      BY <2>6, <2>7
<1>4. Ok(n)
  <2>1. Nat \subseteq T
    <3> HIDE DEF T
    <3> QED
        BY <1>2, <1>3, NatSetInduction
  <2>2. n \in T /\ n <= n
      BY <1>0, <2>1
  <2> HIDE DEF n, Ok
  <2>3. QED
      BY <2>2
<1>5. p(n) = s
    BY <1>0
<1>6. QED
    BY <1>1, <1>4, <1>5

-----------------------------------------------------------------------------
(* The event queue *)

Cell == [from : Thread \cup {Engine}, val : Events, ready : BOOLEAN]

\* The events of a queue w; Queued is Vals(queue).
Vals(w) == [i \in DOMAIN w |-> w[i].val]

LEMMA ValsSeq ==
    ASSUME NEW w \in Seq(Cell)
    PROVE  /\ Vals(w) \in Seq(Events)
           /\ Len(Vals(w)) = Len(w)
           /\ \A i \in 1 .. Len(w) : Vals(w)[i] = w[i].val
<1>0. Len(w) \in Nat /\ DOMAIN w = 1 .. Len(w) /\ \A i \in 1 .. Len(w) : w[i] \in Cell
    OBVIOUS
<1>1. \A i \in 1 .. Len(w) : w[i].val \in Events
    BY <1>0 DEF Cell
<1>2. Vals(w) \in [1 .. Len(w) -> Events]
    BY <1>0, <1>1 DEF Vals
<1>3. QED
    BY <1>0, <1>2 DEF Vals

LEMMA ValsAppend ==
    ASSUME NEW w \in Seq(Cell), NEW x \in Cell
    PROVE  /\ Append(w, x) \in Seq(Cell)
           /\ Vals(Append(w, x)) = Append(Vals(w), x.val)
<1>1. Append(w, x) \in Seq(Cell)
    OBVIOUS
<1>2. PICK v \in Seq(Cell) : v = Append(w, x)
    BY <1>1
<1>3. /\ Len(v) = Len(w) + 1 /\ Len(w) \in Nat
      /\ v[Len(w) + 1] = x
      /\ \A i \in 1 .. Len(w) : v[i] = w[i]
    BY <1>2
<1>4. x.val \in Events
    BY DEF Cell
<1>5. /\ Vals(w) \in Seq(Events) /\ Len(Vals(w)) = Len(w)
      /\ Vals(v) \in Seq(Events) /\ Len(Vals(v)) = Len(v)
      /\ \A i \in 1 .. Len(w) : Vals(w)[i] = w[i].val
      /\ \A i \in 1 .. Len(v) : Vals(v)[i] = v[i].val
    BY ValsSeq
<1>6. \A i \in 1 .. Len(v) : i \in 1 .. Len(w) \/ i = Len(w) + 1
    BY <1>3
<1>7. PICK t : t = Append(Vals(w), x.val)
    OBVIOUS
<1>8. /\ t \in Seq(Events) /\ Len(t) = Len(w) + 1 /\ t[Len(w) + 1] = x.val
      /\ \A i \in 1 .. Len(w) : t[i] = Vals(w)[i]
    BY <1>4, <1>5, <1>7
<1>9. \A i \in 1 .. Len(v) : Vals(v)[i] = t[i]
    BY <1>3, <1>5, <1>6, <1>8
<1>10. Vals(v) = t
    BY ONLY <1>3, <1>5, <1>8, <1>9, SeqEqual
<1>11. QED
    BY <1>1, <1>2, <1>7, <1>10

LEMMA MarkReady ==
    ASSUME NEW a, NEW b, NEW c, NEW d
    PROVE  [[from |-> a, val |-> b, ready |-> c] EXCEPT !.ready = d]
             = [from |-> a, val |-> b, ready |-> d]
    OBVIOUS

LEMMA MarkTrue ==
    ASSUME NEW a, NEW b, NEW c
    PROVE  [[from |-> a, val |-> b, ready |-> c] EXCEPT !.ready = TRUE]
             = [from |-> a, val |-> b, ready |-> TRUE]
    BY MarkReady

LEMMA CellReady ==
    ASSUME NEW r \in Cell
    PROVE  [r EXCEPT !.ready = TRUE] = [from |-> r.from, val |-> r.val, ready |-> TRUE]
<1>1. PICK a, b, c : r = [from |-> a, val |-> b, ready |-> c]
    BY DEF Cell
<1>2. [[from |-> a, val |-> b, ready |-> c] EXCEPT !.ready = TRUE]
         = [from |-> a, val |-> b, ready |-> TRUE]
    BY MarkTrue
<1>3. [r EXCEPT !.ready = TRUE] = [[from |-> a, val |-> b, ready |-> c] EXCEPT !.ready = TRUE]
    BY ONLY <1>1
<1>4. r.from = a /\ r.val = b
    BY <1>1
<1>5. QED
    BY ONLY <1>2, <1>3, <1>4

LEMMA ValsReady ==
    ASSUME NEW w \in Seq(Cell), NEW i \in DOMAIN w
    PROVE  /\ [w EXCEPT ![i].ready = TRUE] \in Seq(Cell)
           /\ Len([w EXCEPT ![i].ready = TRUE]) = Len(w)
           /\ Vals([w EXCEPT ![i].ready = TRUE]) = Vals(w)
<1>0. i \in 1 .. Len(w) /\ w[i] \in Cell
    OBVIOUS
<1>1. PICK old \in Cell : old = w[i]
    BY <1>0
<1>2. [old EXCEPT !.ready = TRUE] = [from |-> old.from, val |-> old.val, ready |-> TRUE]
    BY CellReady
<1>3. PICK x \in Cell : x = [from |-> old.from, val |-> old.val, ready |-> TRUE]
    BY DEF Cell
<1>4. [w EXCEPT ![i].ready = TRUE] = [w EXCEPT ![i] = x]
    BY <1>1, <1>2, <1>3
<1>5. PICK v : v = [w EXCEPT ![i] = x]
    OBVIOUS
<1>6. /\ v \in Seq(Cell) /\ Len(v) = Len(w)
      /\ \A j \in 1 .. Len(w) : v[j] = IF j = i THEN x ELSE w[j]
    BY <1>0, <1>5, ExceptSeq
<1>7. x.val = w[i].val
    BY <1>1, <1>3
<1>8. /\ Vals(w) \in Seq(Events) /\ Len(Vals(w)) = Len(w)
      /\ Vals(v) \in Seq(Events) /\ Len(Vals(v)) = Len(v)
      /\ \A j \in 1 .. Len(w) : Vals(w)[j] = w[j].val
      /\ \A j \in 1 .. Len(v) : Vals(v)[j] = v[j].val
    BY <1>6, ValsSeq
<1>9. \A j \in 1 .. Len(w) : Vals(v)[j] = Vals(w)[j]
    BY <1>6, <1>7, <1>8
<1>10. Vals(v) = Vals(w)
    BY ONLY <1>6, <1>8, <1>9, SeqEqual
<1>11. QED
    BY <1>4, <1>5, <1>6, <1>10

LEMMA SeqTail ==
    ASSUME NEW S, NEW s \in Seq(S), s # <<>>
    PROVE  /\ Len(s) \in Nat /\ Len(s) > 0 /\ 1 \in DOMAIN s
           /\ Head(s) = s[1] /\ s[1] \in S
           /\ Tail(s) \in Seq(S) /\ Len(Tail(s)) = Len(s) - 1
           /\ \A i \in 1 .. Len(s) - 1 : Tail(s)[i] = s[i + 1]
<1>1. Len(s) \in Nat /\ Len(s) # 0
    OBVIOUS
<1>2. 1 \in 1 .. Len(s) /\ DOMAIN s = 1 .. Len(s)
    BY <1>1
<1>3. Tail(s) \in Seq(S) /\ Len(Tail(s)) = Len(s) - 1
    BY HeadTailProperties
<1>4. \A i \in 1 .. Len(s) - 1 : Tail(s)[i] = s[i + 1]
    BY <1>3, HeadTailProperties
<1>5. QED
    BY <1>1, <1>2, <1>3, <1>4

\* Moving the oldest event of the queue to the frame keeps the two in a row.
LEMMA ValsPop ==
    ASSUME NEW w \in Seq(Cell), w # <<>>, NEW s \in Seq(Events)
    PROVE  /\ Tail(w) \in Seq(Cell) /\ Head(w) \in Cell
           /\ Append(s, Head(w).val) \in Seq(Events)
           /\ Append(s, Head(w).val) \o Vals(Tail(w)) = s \o Vals(w)
<1>1. PICK v : v = Tail(w)
    OBVIOUS
<1>2. /\ v \in Seq(Cell) /\ Len(v) = Len(w) - 1 /\ Len(w) \in Nat /\ Len(w) > 0
      /\ \A i \in 1 .. Len(w) - 1 : v[i] = w[i + 1]
      /\ Head(w) = w[1] /\ w[1] \in Cell
    BY <1>1, SeqTail
<1>3. PICK e \in Events : e = Head(w).val
    BY <1>2 DEF Cell
<1>4. /\ Vals(w) \in Seq(Events) /\ Len(Vals(w)) = Len(w)
      /\ Vals(v) \in Seq(Events) /\ Len(Vals(v)) = Len(v)
      /\ \A j \in 1 .. Len(w) : Vals(w)[j] = w[j].val
      /\ \A j \in 1 .. Len(v) : Vals(v)[j] = v[j].val
    BY <1>2, ValsSeq
<1>5. <<e>> \in Seq(Events) /\ Append(s, e) = s \o <<e>> /\ Append(s, e) \in Seq(Events)
    OBVIOUS
<1>6. PICK a \in Seq(Events) : a = <<e>>
    BY <1>5
<1>7. Len(a) = 1 /\ a[1] = e
    BY <1>6
<1>8. a \o Vals(v) = Vals(w)
  <2>1. PICK u : u = a \o Vals(v)
      OBVIOUS
  <2>2. /\ u \in Seq(Events) /\ Len(u) = Len(a) + Len(Vals(v))
        /\ \A i \in 1 .. Len(a) + Len(Vals(v)) :
              u[i] = IF i <= Len(a) THEN a[i] ELSE Vals(v)[i - Len(a)]
    <3>1. PICK b \in Seq(Events) : b = Vals(v)
        BY <1>4
    <3>2. /\ a \o b \in Seq(Events) /\ Len(a \o b) = Len(a) + Len(b)
          /\ \A i \in 1 .. Len(a) + Len(b) :
                (a \o b)[i] = IF i <= Len(a) THEN a[i] ELSE b[i - Len(a)]
        BY ConcatProperties
    <3>3. QED
        BY <2>1, <3>1, <3>2
  <2>3. Len(u) = Len(w) /\ \A i \in 1 .. Len(w) : u[i] = IF i <= 1 THEN a[i] ELSE Vals(v)[i - 1]
      BY <1>2, <1>4, <1>7, <2>2
  <2>4. ASSUME NEW i \in 1 .. Len(w)
        PROVE  u[i] = Vals(w)[i]
    <3>1. CASE i = 1
        BY <1>2, <1>3, <1>4, <1>7, <2>3, <3>1
    <3>2. CASE i # 1
      <4>1. PICK j \in 1 .. Len(w) - 1 : i = j + 1
        <5>1. i - 1 \in 1 .. Len(w) - 1 /\ i = (i - 1) + 1
            BY <1>2, <3>2
        <5>2. QED
            BY <5>1
      <4>2. u[i] = Vals(v)[j]
          BY <1>2, <2>3, <4>1
      <4>3. Vals(v)[j] = w[i].val
          BY <1>2, <1>4, <4>1
      <4>4. QED
          BY <1>4, <4>2, <4>3
    <3>3. QED
        BY <3>1, <3>2
  <2>5. Len(Vals(w)) = Len(u) /\ \A i \in 1 .. Len(u) : u[i] = Vals(w)[i]
      BY <1>4, <2>3, <2>4
  <2>6. u = Vals(w)
      BY ONLY <2>2, <2>5, <1>4, SeqEqual
  <2>7. QED
      BY <2>1, <2>6
<1>9. (s \o a) \o Vals(v) = s \o (a \o Vals(v))
    BY <1>4, <1>6, ConcatAssociative
<1>10. QED
    BY <1>1, <1>2, <1>3, <1>5, <1>6, <1>8, <1>9

-----------------------------------------------------------------------------
(* Raw-input packets *)

Something(k) == k.moved \/ k.wheel \/ k.flags # {}

LEMMA FirstFlagIs ==
    ASSUME NEW F \in SUBSET (Button \X BOOLEAN), F # {}
    PROVE  FirstFlag(F) \in F
<1> DEFINE R == OpToRel(<, Nat)
           N == {f[1] : f \in F}
<1>1. N \subseteq Nat /\ N # {}
    BY ButtonAssumption
<1>2. \A x, y \in Nat : y < x => <<y, x>> \in R
    BY DEF OpToRel
<1>3. PICK x \in N : \A y \in N : ~ (<<y, x>> \in R)
  <2> HIDE DEF N
  <2>1. IsWellFoundedOn(R, Nat)
      BY NatLessThanWellFounded
  <2> HIDE DEF R
  <2>2. QED
      BY <1>1, <2>1, WFMin
<1>4. \A y \in N : x <= y
  <2> HIDE DEF N, R
  <2>1. x \in Nat /\ \A y \in N : y \in Nat /\ ~ (y < x)
      BY <1>1, <1>2, <1>3
  <2>2. QED
      BY <2>1
<1>5. PICK f \in F : f[1] = x
    OBVIOUS
<1>6. \A g \in F : f[1] <= g[1]
    BY <1>4, <1>5
<1>7. QED
    BY <1>6 DEF FirstFlag

LEMMA NoLevel ==
    /\ MouseMove \in Events /\ MouseMove.of \notin Control /\ ~ IsLevel(MouseMove)
    /\ MouseWheel \in Events /\ MouseWheel.of \notin Control /\ ~ IsLevel(MouseWheel)
<1>1. MouseMove \in Events /\ MouseWheel \in Events
    BY DEF Events
<1>2. MouseMove.of = NoControl /\ MouseWheel.of = NoControl
    BY DEF MouseMove, MouseWheel, Event
<1>3. NoControl \notin Control
    BY ThreadAssumption DEF Control
<1>4. QED
    BY <1>1, <1>2, <1>3 DEF IsLevel

\* What a packet becomes: an event about a control whose flag it carries, or
\* an event about none.
LEMMA TranslatedIs ==
    ASSUME NEW k \in Packet, Something(k)
    PROVE  /\ Translated(k) \in Events
           /\ Translated(k).of \in Control =>
                 /\ IsLevel(Translated(k))
                 /\ \E f \in k.flags : Translated(k).of = f[1] /\ Translated(k).on = f[2]
           /\ IsLevel(Translated(k)) => Translated(k).of \in Control
<1>0. k.flags \in SUBSET (Button \X BOOLEAN) /\ k.moved \in BOOLEAN /\ k.wheel \in BOOLEAN
    BY DEF Packet
<1>1. CASE k.moved
  <2>1. Translated(k) = MouseMove
      BY <1>1 DEF Translated
  <2>2. QED
      BY <2>1, NoLevel
<1>2. CASE ~ k.moved /\ k.wheel
  <2>1. Translated(k) = MouseWheel
      BY <1>2 DEF Translated
  <2>2. QED
      BY <2>1, NoLevel
<1>3. CASE ~ k.moved /\ ~ k.wheel
  <2>1. PICK f \in k.flags : f = FirstFlag(k.flags)
      BY <1>0, <1>3, FirstFlagIs DEF Something
  <2>2. f[1] \in Button /\ f[2] \in BOOLEAN
      BY <1>0, <2>1
  <2>3. Translated(k) = ButtonEvent(f[1], f[2])
      BY <1>3, <2>1 DEF Translated
  <2>4. ButtonEvent(f[1], f[2]) \in Events
      BY <2>2 DEF Events
  <2>5. QED
      BY <2>1, <2>2, <2>3, <2>4 DEF ButtonEvent, Event, Control, IsLevel
<1>4. QED
    BY <1>0, <1>1, <1>2, <1>3

-----------------------------------------------------------------------------
(* Types *)

MessageInv == \A i \in DOMAIN messages : Something(messages[i])

\* What a thread is pushing is still true of its key when it is pushed.
HandInv ==
    \A p \in Thread : stage[p] = "calling" =>
       /\ hand[p] \in Posted(p)
       /\ IsLevel(hand[p]) => hand[p].on = level[p]

ChangesAt(i, c) == Changes(messages[i], c)

\* The last packet that changes a button says what is true of it.
LastFlag ==
    \A b \in Button : \A i \in DOMAIN messages :
       ChangesAt(i, b) /\ (\A j \in DOMAIN messages : ChangesAt(j, b) => j <= i)
         => \A f \in messages[i].flags : f[1] = b => f[2] = level[b]

FrameInv == epc \notin {"drain", "build"} => frame_events = <<>>

LateInv == late \in {0, 1} /\ (late = 1 => ~ running /\ epc \in {"update", "test", "idle"})

LEMMA PostedIs ==
    ASSUME NEW p \in Thread, NEW e \in Posted(p)
    PROVE  /\ e \in Events /\ e # NoEvent
           /\ IsLevel(e) => e.of = p
<1>1. e \in UNION {Posted(r) : r \in Thread}
    OBVIOUS
<1>2. e \in Events
    BY <1>1 DEF Events
<1>3. IsLevel(e) => e.of = p
    BY DEF Posted, KeyEvent, Event, WindowEvent, IsLevel
<1>4. QED
    BY <1>2, <1>3, NoEventAssumption

LEMMA InitType == Init => TypeOK
<1> SUFFICES ASSUME Init
             PROVE  TypeOK
    OBVIOUS
<1>1. /\ Capacity \in Nat /\ Len(queue) = 0
      /\ queue \in Seq([from : Thread \cup {Engine}, val : Events, ready : BOOLEAN])
      /\ frame_events \in Seq(Events) /\ messages \in Seq(Packet)
    BY BoundAssumption DEF Init
<1>2. input \in [down : SUBSET Control, pressed : SUBSET Control, released : SUBSET Control,
                 dx : Nat]
    BY DEF Init, NoInput
<1>3. runs \in 0 .. MaxRuns /\ packets \in 0 .. MaxPackets /\ 0 \in 0 .. MaxPosts
    BY BoundAssumption DEF Init
<1>4. QED
    BY <1>1, <1>2, <1>3 DEF Init, TypeOK

LEMMA PostType ==
    ASSUME TypeOK, HandInv, NEW p \in Thread, Post(p)
    PROVE  TypeOK'
<1>1. CASE \E e \in Posted(p) : PostCall(p, e)
  <2>1. PICK e \in Posted(p) : PostCall(p, e)
      BY <1>1
  <2>2. e \in Events /\ e # NoEvent /\ (IsLevel(e) => e.of = p)
      BY PostedIs
  <2>3. posts' \in [Thread -> 0 .. MaxPosts]
    <3>1. posts[p] \in 0 .. MaxPosts /\ posts[p] < MaxPosts /\ MaxPosts \in Nat
        BY <2>1, BoundAssumption DEF PostCall, TypeOK
    <3>2. posts[p] + 1 \in 0 .. MaxPosts
        BY <3>1
    <3>3. QED
        BY <2>1, <3>2 DEF PostCall, TypeOK
  <2>4. level' \in [Control -> BOOLEAN]
    <3>1. CASE IsLevel(e)
      <4>1. e.on \in BOOLEAN
          BY <2>2, <3>1, EventKinds
      <4>2. QED
          BY <2>1, <3>1, <4>1 DEF PostCall, TypeOK
    <3>2. CASE ~ IsLevel(e)
        BY <2>1, <3>2 DEF PostCall, TypeOK
    <3>3. QED
        BY <3>1, <3>2
  <2>5. /\ stage' = [stage EXCEPT ![p] = "calling"]
        /\ hand' = [hand EXCEPT ![p] = e]
        /\ UNCHANGED <<queue, frame_events, running, epc, runs, input, rawVars, lost, late>>
      BY <2>1 DEF PostCall, Queue!Call
  <2>6. /\ hand' \in [Thread -> Events \cup {NoEvent}]
        /\ stage' \in [Thread -> {"idle", "calling", "accepted"}]
        /\ \A r \in Thread : (hand'[r] # NoEvent) <=> (stage'[r] = "calling")
      BY <2>2, <2>5 DEF TypeOK
  <2>7. QED
      BY <2>3, <2>4, <2>5, <2>6 DEF TypeOK, rawVars
<1>2. CASE PostAccept(p)
  <2>1. /\ stage[p] = "calling" /\ hand[p] \in Events
        /\ Len(queue) < Capacity
        /\ queue' = Append(queue, [from |-> p, val |-> hand[p], ready |-> FALSE])
        /\ stage' = [stage EXCEPT ![p] = "accepted"]
        /\ hand' = [hand EXCEPT ![p] = NoEvent]
        /\ lost' = IF IsLevel(hand[p]) THEN [lost EXCEPT ![p] = "no"] ELSE lost
        /\ UNCHANGED <<frame_events, running, epc, runs, input, posts, rawVars, level, late>>
      BY <1>2 DEF PostAccept, Queue!Accept, TypeOK
  <2>2. PICK x \in Cell : x = [from |-> p, val |-> hand[p], ready |-> FALSE]
      BY <2>1 DEF Cell
  <2>3. queue' \in Seq(Cell) /\ Len(queue') <= Capacity
      BY <2>1, <2>2, BoundAssumption DEF TypeOK, Cell
  <2>4. /\ hand' \in [Thread -> Events \cup {NoEvent}]
        /\ stage' \in [Thread -> {"idle", "calling", "accepted"}]
        /\ \A r \in Thread : (hand'[r] # NoEvent) <=> (stage'[r] = "calling")
        /\ lost' \in [Control -> {"no", "refused", "masked", "unread", "restarted"}]
      BY <2>1 DEF TypeOK
  <2>5. QED
      BY <2>1, <2>3, <2>4 DEF TypeOK, Cell, rawVars
<1>3. CASE PostRefused(p)
  <2>1. /\ stage[p] = "calling"
        /\ stage' = [stage EXCEPT ![p] = "idle"]
        /\ hand' = [hand EXCEPT ![p] = NoEvent]
        /\ lost' = IF IsLevel(hand[p]) THEN [lost EXCEPT ![p] = "refused"] ELSE lost
        /\ UNCHANGED <<queue, frame_events, running, epc, runs, input, posts, rawVars, level,
                       late>>
      BY <1>3 DEF PostRefused, Queue!Refuse
  <2>2. /\ hand' \in [Thread -> Events \cup {NoEvent}]
        /\ stage' \in [Thread -> {"idle", "calling", "accepted"}]
        /\ \A r \in Thread : (hand'[r] # NoEvent) <=> (stage'[r] = "calling")
        /\ lost' \in [Control -> {"no", "refused", "masked", "unread", "restarted"}]
      BY <2>1 DEF TypeOK
  <2>3. QED
      BY <2>1, <2>2 DEF TypeOK, rawVars
<1>4. CASE PostPublish(p)
  <2>1. PICK i \in DOMAIN queue : queue' = [queue EXCEPT ![i].ready = TRUE]
      BY <1>4 DEF PostPublish, Queue!Publish
  <2>2. /\ stage[p] = "accepted"
        /\ stage' = [stage EXCEPT ![p] = "idle"]
        /\ UNCHANGED <<frame_events, running, epc, runs, input, hand, posts, rawVars, level,
                       lost, late>>
      BY <1>4 DEF PostPublish, Queue!Publish
  <2>3. queue \in Seq(Cell)
      BY DEF TypeOK, Cell
  <2>4. queue' \in Seq(Cell) /\ Len(queue') <= Capacity
    <3>1. PICK w \in Seq(Cell) : w = queue
        BY <2>3
    <3>2. QED
        BY <2>1, <3>1, ValsReady DEF TypeOK
  <2>5. /\ stage' \in [Thread -> {"idle", "calling", "accepted"}]
        /\ \A r \in Thread : (hand'[r] # NoEvent) <=> (stage'[r] = "calling")
      BY <2>2 DEF TypeOK
  <2>6. QED
      BY <2>2, <2>4, <2>5 DEF TypeOK, Cell, rawVars
<1>5. QED
    BY <1>1, <1>2, <1>3, <1>4 DEF Post

LEMMA ReportType ==
    ASSUME TypeOK, NEW k \in Packet, MouseReports(k)
    PROVE  TypeOK'
<1>1. /\ packets < MaxPackets /\ packets' = packets + 1
      /\ messages' = Append(messages, k)
      /\ level' = [c \in Control |-> IF \E f \in k.flags : f[1] = c THEN ~ level[c] ELSE level[c]]
      /\ UNCHANGED <<running, epc, runs, frame_events, input, queue, stage, hand, posts, lost,
                     late>>
    BY DEF MouseReports, frameVars, postVars
<1>2. packets' \in 0 .. MaxPackets
    BY <1>1, BoundAssumption DEF TypeOK
<1>3. messages' \in Seq(Packet)
    BY <1>1 DEF TypeOK
<1>4. \A c \in Control : level[c] \in BOOLEAN
    BY DEF TypeOK
<1>5. level' \in [Control -> BOOLEAN]
    BY <1>1, <1>4
<1>6. QED
    BY <1>1, <1>2, <1>3, <1>5 DEF TypeOK

LEMMA ProcessType ==
    ASSUME TypeOK, MessageInv, ri_process_input
    PROVE  TypeOK'
<1>1. /\ messages # <<>> /\ messages' = Tail(messages)
      /\ UNCHANGED <<running, epc, runs, frame_events, input, stage, hand, posts, packets,
                     level, late>>
    BY DEF ri_process_input, frameVars, postVars
<1>2. PICK k \in Packet : k = Head(messages)
    BY <1>1, SeqTail DEF TypeOK
<1>3. PICK e : e = Translated(k)
    OBVIOUS
<1>4. e \in Events
  <2>1. 1 \in DOMAIN messages /\ messages[1] = k
      BY <1>1, <1>2, SeqTail DEF TypeOK
  <2>2. Something(k)
      BY <2>1 DEF MessageInv
  <2>3. QED
      BY <1>3, <2>2, TranslatedIs
<1>5. PICK x \in Cell : x = [from |-> Engine, val |-> e, ready |-> TRUE]
    BY <1>4 DEF Cell
<1>6. queue' = (IF Len(queue) < Capacity THEN Append(queue, x) ELSE queue) \/ queue' = queue
    BY <1>2, <1>3, <1>5 DEF ri_process_input, Pushed, Unread
<1>7. queue' \in Seq(Cell) /\ Len(queue') <= Capacity
  <2>1. PICK w \in Seq(Cell) : w = queue
      BY DEF TypeOK, Cell
  <2>2. Append(w, x) \in Seq(Cell) /\ Len(Append(w, x)) = Len(w) + 1 /\ Len(w) \in Nat
      OBVIOUS
  <2>3. /\ Len(w) <= Capacity
        /\ queue' = (IF Len(w) < Capacity THEN Append(w, x) ELSE w) \/ queue' = w
      BY <1>6, <2>1 DEF TypeOK
  <2>4. QED
      BY <2>2, <2>3, BoundAssumption
<1>8. lost' \in [Control -> {"no", "refused", "masked", "unread", "restarted"}]
  <2>1. \A c \in Control : lost[c] \in {"no", "refused", "masked", "unread", "restarted"}
      BY DEF TypeOK
  <2>2. CASE Unread(k)
      BY <2>1, <2>2 DEF Unread
  <2>3. CASE Pushed(k, e)
      BY <2>1, <2>3 DEF Pushed
  <2>4. QED
      BY <1>2, <1>3, <2>2, <2>3 DEF ri_process_input
<1>9. messages' \in Seq(Packet)
    BY <1>1 DEF TypeOK
<1>10. QED
    BY <1>1, <1>7, <1>8, <1>9 DEF TypeOK, Cell

LEMMA RunType ==
    ASSUME TypeOK, RunCall \/ LoopTest \/ PumpReturns \/ Drain \/ BuildInput \/ Update \/ shutdown
    PROVE  TypeOK'
<1>1. CASE RunCall
  <2>1. runs' \in 0 .. MaxRuns
      BY <1>1, BoundAssumption DEF RunCall, TypeOK
  <2>2. QED
      BY <1>1, <2>1 DEF RunCall, TypeOK, postVars, rawVars
<1>2. CASE LoopTest
  <2>1. CASE running
      BY <1>2, <2>1 DEF LoopTest, TypeOK, postVars, rawVars
  <2>2. CASE ~ running
    <3>1. input' \in [down : SUBSET Control, pressed : SUBSET Control,
                      released : SUBSET Control, dx : Nat]
        BY <1>2, <2>2 DEF LoopTest, NoInput
    <3>2. lost' \in [Control -> {"no", "refused", "masked", "unread", "restarted"}]
      <4>1. \A c \in Control : lost[c] \in {"no", "refused", "masked", "unread", "restarted"}
          BY DEF TypeOK
      <4>2. lost' = [c \in Control |->
                        IF c \in input.down /\ About(c, Queued) = {} THEN "restarted"
                        ELSE lost[c]]
          BY <1>2, <2>2 DEF LoopTest
      <4>3. QED
          BY <4>1, <4>2
    <3>3. QED
        BY <1>2, <2>2, <3>1, <3>2 DEF LoopTest, TypeOK, postVars, rawVars
  <2>3. QED
      BY <2>1, <2>2
<1>3. CASE PumpReturns
    BY <1>3 DEF PumpReturns, TypeOK, postVars, rawVars
<1>4. CASE Drain
  <2>1. CASE CanPop
    <3>1. /\ queue # <<>> /\ queue' = Tail(queue) /\ stage' = stage
          /\ frame_events' = Append(frame_events, Head(queue).val)
        BY <1>4, <2>1 DEF Drain, CanPop, Queue!Deliver
    <3>2. queue \in Seq(Cell)
        BY DEF TypeOK, Cell
    <3>3. queue' \in Seq(Cell) /\ frame_events' \in Seq(Events)
        BY <3>1, <3>2, ValsPop DEF TypeOK
    <3>4. Len(queue') <= Capacity
        BY <3>1, <3>2, BoundAssumption, SeqTail DEF TypeOK
    <3>5. QED
        BY <1>4, <2>1, <3>1, <3>3, <3>4 DEF Drain, TypeOK, Cell, rawVars
  <2>2. CASE ~ CanPop
      BY <1>4, <2>2 DEF Drain, TypeOK, rawVars
  <2>3. QED
      BY <2>1, <2>2
<1>5. CASE BuildInput
  <2>1. input \in InputState /\ frame_events \in Seq(Events)
      BY DEF TypeOK, InputState
  <2>2. input' \in InputState
    <3>1. PICK in \in InputState, s \in Seq(Events) : in = input /\ s = frame_events
        BY <2>1
    <3>2. input' = build_input(in, s)
        BY <1>5, <3>1 DEF BuildInput
    <3>3. QED
        BY <3>2, BuildFacts
  <2>3. late' \in Nat /\ frame_events' \in Seq(Events)
      BY <1>5 DEF BuildInput, TypeOK
  <2>4. QED
      BY <1>5, <2>2, <2>3 DEF BuildInput, TypeOK, InputState, postVars, rawVars
<1>6. CASE Update
    BY <1>6 DEF Update, TypeOK, postVars, rawVars
<1>7. CASE shutdown
    BY <1>7 DEF shutdown, TypeOK, frameVars, postVars, rawVars
<1>8. QED
    BY <1>1, <1>2, <1>3, <1>4, <1>5, <1>6, <1>7

LEMMA StutterType ==
    ASSUME TypeOK, UNCHANGED vars
    PROVE  TypeOK'
BY DEF TypeOK, vars, frameVars, postVars, rawVars

-----------------------------------------------------------------------------
(* What the steps need of each other *)

LEMMA InitAux == Init => MessageInv /\ HandInv /\ LastFlag /\ FrameInv /\ LateInv
BY DEF Init, MessageInv, HandInv, LastFlag, FrameInv, LateInv

LEMMA MessageNext ==
    ASSUME TypeOK, MessageInv, [Next]_vars
    PROVE  MessageInv'
<1>1. CASE messages' = messages
    BY <1>1 DEF MessageInv
<1>2. CASE \E k \in Packet : MouseReports(k)
  <2>1. PICK k \in Packet : MouseReports(k)
      BY <1>2
  <2>2. messages \in Seq(Packet) /\ messages' = Append(messages, k) /\ Something(k)
      BY <2>1 DEF MouseReports, TypeOK, Something
  <2>3. \A i \in DOMAIN messages' : \/ i \in DOMAIN messages /\ messages'[i] = messages[i]
                                    \/ messages'[i] = k
      BY <2>2
  <2>4. QED
      BY <2>2, <2>3 DEF MessageInv
<1>3. CASE ri_process_input
  <2>1. messages \in Seq(Packet) /\ messages # <<>> /\ messages' = Tail(messages)
      BY <1>3 DEF ri_process_input, TypeOK
  <2>2. \A i \in DOMAIN messages' : i + 1 \in DOMAIN messages /\ messages'[i] = messages[i + 1]
    <3>1. PICK t \in Seq(Packet) : t = Tail(messages)
        BY <2>1, SeqTail
    <3>2. /\ Len(t) = Len(messages) - 1 /\ Len(messages) \in Nat
          /\ \A i \in 1 .. Len(messages) - 1 : t[i] = messages[i + 1]
        BY <2>1, <3>1, SeqTail
    <3>3. QED
        BY <2>1, <3>1, <3>2
  <2>3. QED
      BY <2>2 DEF MessageInv
<1>4. QED
  <2>1. CASE \E p \in Thread : Post(p)
      BY <1>1, <2>1 DEF Post, PostCall, PostAccept, PostRefused, PostPublish, rawVars
  <2>2. CASE RunCall \/ LoopTest \/ PumpReturns \/ Drain \/ BuildInput \/ Update \/ shutdown
            \/ UNCHANGED vars
      BY <1>1, <2>2 DEF RunCall, LoopTest, PumpReturns, Drain, BuildInput, Update, shutdown,
                        rawVars, vars
  <2>3. QED
      BY <1>2, <1>3, <2>1, <2>2 DEF Next, Run

LEMMA HandNext ==
    ASSUME TypeOK, HandInv, [Next]_vars
    PROVE  HandInv'
<1>1. CASE UNCHANGED <<stage, hand, level>>
    BY <1>1 DEF HandInv
<1>2. ASSUME NEW p \in Thread, Post(p)
      PROVE  HandInv'
  <2>1. CASE \E e \in Posted(p) : PostCall(p, e)
    <3>1. PICK e \in Posted(p) : PostCall(p, e)
        BY <2>1
    <3>2. /\ stage' = [stage EXCEPT ![p] = "calling"] /\ hand' = [hand EXCEPT ![p] = e]
          /\ level' = IF IsLevel(e) THEN [level EXCEPT ![p] = e.on] ELSE level
        BY <3>1 DEF PostCall, Queue!Call
    <3>3. \A r \in Thread : r # p => stage'[r] = stage[r] /\ hand'[r] = hand[r]
                                     /\ level'[r] = level[r]
        BY <3>2 DEF TypeOK, Control
    <3>4. hand'[p] = e /\ (IsLevel(e) => level'[p] = e.on)
        BY <3>2 DEF TypeOK, Control
    <3>5. QED
        BY <3>3, <3>4 DEF HandInv
  <2>2. CASE PostAccept(p) \/ PostRefused(p) \/ PostPublish(p)
    <3>1. /\ level' = level /\ stage'[p] # "calling"
          /\ \A r \in Thread : r # p => stage'[r] = stage[r] /\ hand'[r] = hand[r]
        BY <2>2 DEF PostAccept, PostRefused, PostPublish, Queue!Accept, Queue!Refuse,
                    Queue!Publish, TypeOK
    <3>2. QED
        BY <3>1 DEF HandInv
  <2>3. QED
      BY <1>2, <2>1, <2>2 DEF Post
<1>3. ASSUME NEW k \in Packet, MouseReports(k)
      PROVE  HandInv'
  <2>1. stage' = stage /\ hand' = hand
      BY <1>3 DEF MouseReports, postVars
  <2>2. \A p \in Thread : level'[p] = level[p]
    <3>1. \A f \in k.flags : f[1] \in Button
        BY DEF Packet
    <3>2. \A p \in Thread : p \in Control /\ ~ \E f \in k.flags : f[1] = p
        BY <3>1, ButtonAssumption DEF Control
    <3>3. QED
        BY <1>3, <3>2 DEF MouseReports
  <2>3. QED
      BY <2>1, <2>2 DEF HandInv
<1>4. CASE RunCall \/ Run \/ shutdown \/ UNCHANGED vars
  <2>1. UNCHANGED <<stage, hand, level>>
      BY <1>4 DEF RunCall, Run, LoopTest, ri_process_input, PumpReturns, Drain, BuildInput,
                  Update, shutdown, Queue!Deliver, postVars, vars
  <2>2. QED
      BY <1>1, <2>1
<1>5. QED
    BY <1>2, <1>3, <1>4 DEF Next

LEMMA FrameNext ==
    ASSUME FrameInv, [Next]_vars
    PROVE  FrameInv'
<1>1. CASE \E p \in Thread : Post(p)
    BY <1>1 DEF Post, PostCall, PostAccept, PostRefused, PostPublish, Queue!Call, Queue!Accept,
                Queue!Refuse, Queue!Publish, FrameInv
<1>2. CASE \E k \in Packet : MouseReports(k)
    BY <1>2 DEF MouseReports, frameVars, FrameInv
<1>3. CASE RunCall \/ LoopTest \/ ri_process_input \/ PumpReturns \/ BuildInput \/ Update
           \/ shutdown \/ UNCHANGED vars
    BY <1>3 DEF RunCall, LoopTest, ri_process_input, PumpReturns, BuildInput, Update, shutdown,
                vars, frameVars, FrameInv
<1>4. CASE Drain
    BY <1>4 DEF Drain, FrameInv
<1>5. QED
    BY <1>1, <1>2, <1>3, <1>4 DEF Next, Run

LEMMA LateNext ==
    ASSUME TypeOK, LateInv, [Next]_vars
    PROVE  LateInv'
<1>1. CASE \E p \in Thread : Post(p)
    BY <1>1 DEF Post, PostCall, PostAccept, PostRefused, PostPublish, LateInv
<1>2. CASE \E k \in Packet : MouseReports(k)
    BY <1>2 DEF MouseReports, frameVars, LateInv
<1>3. CASE RunCall \/ ri_process_input \/ PumpReturns \/ Drain \/ shutdown \/ UNCHANGED vars
    BY <1>3 DEF RunCall, ri_process_input, PumpReturns, Drain, shutdown, vars, frameVars, LateInv
<1>4. CASE LoopTest
    BY <1>4 DEF LoopTest, LateInv
<1>5. CASE BuildInput
  <2>1. late = 0
      BY <1>5 DEF BuildInput, LateInv
  <2>2. late' = (IF running THEN 0 ELSE 1) /\ running' = running /\ epc' = "update"
      BY <1>5, <2>1 DEF BuildInput
  <2>3. QED
      BY <2>2 DEF LateInv
<1>6. CASE Update
  <2>1. late' = late /\ epc' = "test" /\ running' \in {running, FALSE}
      BY <1>6 DEF Update
  <2>2. running' = running \/ running' = FALSE
      BY <2>1
  <2>3. ~ running => ~ running'
      BY <2>2, Zenon
  <2>4. QED
      BY <2>1, <2>3 DEF LateInv
<1>7. QED
    BY <1>1, <1>2, <1>3, <1>4, <1>5, <1>6 DEF Next, Run

LEMMA LastFlagNext ==
    ASSUME TypeOK, LastFlag, [Next]_vars
    PROVE  LastFlag'
<1>0. messages \in Seq(Packet) /\ Len(messages) \in Nat /\ DOMAIN messages = 1 .. Len(messages)
    BY DEF TypeOK
<1>1. CASE messages' = messages /\ \A b \in Button : level'[b] = level[b]
    BY <1>1 DEF LastFlag, ChangesAt, Changes
<1>2. ASSUME NEW k \in Packet, MouseReports(k)
      PROVE  LastFlag'
  <2>1. /\ messages' = Append(messages, k)
        /\ \A f \in k.flags : level[f[1]] # f[2]
        /\ level' = [c \in Control |->
                        IF \E f \in k.flags : f[1] = c THEN ~ level[c] ELSE level[c]]
      BY <1>2 DEF MouseReports
  <2>2. \A f \in k.flags : f[1] \in Button /\ f[2] \in BOOLEAN
      BY DEF Packet
  <2>3. /\ DOMAIN messages' = 1 .. Len(messages) + 1
        /\ messages'[Len(messages) + 1] = k
        /\ \A i \in DOMAIN messages : messages'[i] = messages[i]
      BY <1>0, <2>1
  <2>4. SUFFICES ASSUME NEW b \in Button, NEW i \in DOMAIN messages', ChangesAt(i, b)',
                        \A j \in DOMAIN messages' : ChangesAt(j, b)' => j <= i,
                        NEW f \in messages'[i].flags, f[1] = b
                 PROVE  f[2] = level'[b]
      BY DEF LastFlag
  <2>5. CASE i = Len(messages) + 1
    <3>1. f \in k.flags
        BY <2>3, <2>5
    <3>2. level'[b] = ~ level[b] /\ level[b] # f[2] /\ f[2] \in BOOLEAN
        BY <2>1, <2>2, <2>4, <3>1 DEF Control
    <3>3. level[b] \in BOOLEAN
        BY DEF TypeOK, Control
    <3>4. QED
        BY <3>2, <3>3
  <2>6. CASE i \in DOMAIN messages
    <3>1. ~ \E g \in k.flags : g[1] = b
      <4>1. SUFFICES ASSUME \E g \in k.flags : g[1] = b
                     PROVE  FALSE
          OBVIOUS
      <4>2. PICK m \in DOMAIN messages' : m = Len(messages) + 1
          BY <1>0, <2>3
      <4>3. ChangesAt(m, b)'
          BY <2>3, <4>1, <4>2 DEF ChangesAt, Changes
      <4>4. m <= i
          BY <2>4, <4>3
      <4>5. QED
          BY <1>0, <2>6, <4>2, <4>4
    <3>2. level'[b] = level[b]
        BY <2>1, <3>1 DEF Control
    <3>3. \A j \in DOMAIN messages : j \in DOMAIN messages' /\ (ChangesAt(j, b)' <=> ChangesAt(j, b))
        BY <1>0, <2>3 DEF ChangesAt, Changes
    <3>4. /\ ChangesAt(i, b) /\ f \in messages[i].flags
          /\ \A j \in DOMAIN messages : ChangesAt(j, b) => j <= i
        BY <2>3, <2>4, <2>6, <3>3
    <3>5. QED
        BY <2>4, <2>6, <3>2, <3>4 DEF LastFlag
  <2>7. QED
      BY <1>0, <2>3, <2>5, <2>6
<1>3. CASE ri_process_input
  <2>1. messages # <<>> /\ messages' = Tail(messages) /\ level' = level
      BY <1>3 DEF ri_process_input
  <2>2. /\ DOMAIN messages' = 1 .. Len(messages) - 1
        /\ \A i \in DOMAIN messages' : messages'[i] = messages[i + 1]
        /\ Len(messages) > 0
    <3>1. PICK t \in Seq(Packet) : t = Tail(messages)
        BY <1>0, <2>1, SeqTail
    <3>2. /\ Len(t) = Len(messages) - 1 /\ Len(messages) > 0
          /\ \A i \in 1 .. Len(messages) - 1 : t[i] = messages[i + 1]
        BY <1>0, <2>1, <3>1, SeqTail
    <3>3. QED
        BY <2>1, <3>1, <3>2
  <2>3. SUFFICES ASSUME NEW b \in Button, NEW i \in DOMAIN messages', ChangesAt(i, b)',
                        \A j \in DOMAIN messages' : ChangesAt(j, b)' => j <= i,
                        NEW f \in messages'[i].flags, f[1] = b
                 PROVE  f[2] = level'[b]
      BY DEF LastFlag
  <2>4. PICK m \in DOMAIN messages : m = i + 1
      BY <1>0, <2>2
  <2>5. ChangesAt(m, b) /\ f \in messages[m].flags
      BY <2>2, <2>3, <2>4 DEF ChangesAt, Changes
  <2>6. ASSUME NEW j \in DOMAIN messages, ChangesAt(j, b)
        PROVE  j <= m
    <3>1. CASE j = 1
        BY <1>0, <2>2, <2>4, <3>1
    <3>2. CASE j # 1
      <4>1. PICK l \in DOMAIN messages' : j = l + 1
        <5>1. j - 1 \in DOMAIN messages' /\ j = (j - 1) + 1
            BY <1>0, <2>2, <3>2
        <5>2. QED
            BY <5>1
      <4>2. ChangesAt(l, b)'
          BY <2>2, <2>6, <4>1 DEF ChangesAt, Changes
      <4>3. l <= i
          BY <2>3, <4>2
      <4>4. QED
          BY <2>2, <2>4, <4>1, <4>3, <1>0
    <3>3. QED
        BY <3>1, <3>2
  <2>7. QED
      BY <2>1, <2>3, <2>5, <2>6 DEF LastFlag
<1>4. CASE \E p \in Thread : Post(p)
  <2>1. PICK p \in Thread : Post(p)
      BY <1>4
  <2>2. messages' = messages /\ \A c \in Control : c # p => level'[c] = level[c]
      BY <2>1 DEF Post, PostCall, PostAccept, PostRefused, PostPublish, rawVars, TypeOK
  <2>3. \A b \in Button : b \in Control /\ b # p
      BY ButtonAssumption DEF Control
  <2>4. QED
      BY <1>1, <2>2, <2>3
<1>5. CASE RunCall \/ LoopTest \/ PumpReturns \/ Drain \/ BuildInput \/ Update \/ shutdown
          \/ UNCHANGED vars
  <2>1. messages' = messages /\ level' = level
      BY <1>5 DEF RunCall, LoopTest, PumpReturns, Drain, BuildInput, Update, shutdown, rawVars, vars
  <2>2. QED
      BY <1>1, <2>1
<1>6. QED
    BY <1>2, <1>3, <1>4, <1>5 DEF Next, Run

-----------------------------------------------------------------------------
(* Levels *)

\* What LevelsAgree says of one control.
Agrees(c) == lost[c] = "no" /\ ~ Underway(c) => WillHold(c) = level[c]

LEMMA Kept ==
    ASSUME NEW c \in Control, Agrees(c), lost'[c] = "no" => lost[c] = "no",
           Underway(c) => Underway(c)', WillHold(c)' = WillHold(c), level'[c] = level[c]
    PROVE  Agrees(c)'
BY DEF Agrees

LEMMA HoldIs ==
    ASSUME TypeOK, NEW c
    PROVE  WillHold(c) = Told(c, Vals(queue), Told(c, frame_events, c \in input.down))
<1>1. PICK s \in Seq(Events) : s = frame_events
    BY DEF TypeOK
<1>2. PICK w \in Seq(Cell) : w = queue
    BY DEF TypeOK, Cell
<1>3. PICK v \in Seq(Events) : v = Vals(w)
    BY ValsSeq
<1>4. Queued = v
    BY <1>2, <1>3 DEF Queued, Vals
<1>5. PICK d : d = (c \in input.down)
    OBVIOUS
<1>6. Told(c, s \o v, d) = Told(c, v, Told(c, s, d))
    BY ToldConcat
<1>7. QED
    BY <1>1, <1>2, <1>3, <1>4, <1>5, <1>6 DEF WillHold

LEMMA HoldIsNext ==
    ASSUME TypeOK', NEW CONSTANT c
    PROVE  WillHold(c)' = Told(c, Vals(queue'), Told(c, frame_events', c \in input'.down))
<1>1. PICK s \in Seq(Events) : s = frame_events'
    BY DEF TypeOK
<1>2. PICK w \in Seq(Cell) : w = queue'
    BY DEF TypeOK, Cell
<1>3. PICK v \in Seq(Events) : v = Vals(w)
    BY ValsSeq
<1>4. Queued' = v
    BY <1>2, <1>3 DEF Queued, Vals
<1>5. PICK d : d = (c \in input'.down)
    OBVIOUS
<1>6. Told(c, s \o v, d) = Told(c, v, Told(c, s, d))
    BY ToldConcat
<1>7. QED
    BY <1>1, <1>2, <1>3, <1>4, <1>5, <1>6 DEF WillHold

\* A new event in the queue is the last word about its control.
LEMMA HoldAppend ==
    ASSUME TypeOK, TypeOK', NEW c \in Control, NEW x \in Cell, queue' = Append(queue, x),
           frame_events' = frame_events, input' = input
    PROVE  WillHold(c)' = IF IsLevel(x.val) /\ x.val.of = c THEN x.val.on ELSE WillHold(c)
<1>1. PICK w \in Seq(Cell) : w = queue
    BY DEF TypeOK, Cell
<1>2. PICK v \in Seq(Events) : v = Vals(w)
    BY ValsSeq
<1>3. PICK e \in Events : e = x.val
    BY DEF Cell
<1>4. Vals(queue') = Append(v, e)
    BY <1>1, <1>2, <1>3, ValsAppend
<1>5. PICK d : d = Told(c, frame_events, c \in input.down)
    OBVIOUS
<1>6. WillHold(c) = Told(c, v, d)
    BY <1>1, <1>2, <1>5, HoldIs
<1>7. WillHold(c)' = Told(c, Append(v, e), d)
    BY <1>4, <1>5, HoldIsNext
<1>8. Told(c, Append(v, e), d) = IF IsLevel(e) /\ e.of = c THEN e.on ELSE Told(c, v, d)
    BY ToldAppend
<1>9. QED
    BY <1>3, <1>6, <1>7, <1>8

LEMMA HoldSame ==
    ASSUME TypeOK, TypeOK', NEW c, Vals(queue') = Vals(queue), frame_events' = frame_events,
           input' = input
    PROVE  WillHold(c)' = WillHold(c)
<1>1. PICK v : v = Vals(queue)
    OBVIOUS
<1>2. PICK d : d = Told(c, frame_events, c \in input.down)
    OBVIOUS
<1>3. WillHold(c) = Told(c, v, d)
    BY <1>1, <1>2, HoldIs
<1>4. WillHold(c)' = Told(c, v, d)
    BY <1>1, <1>2, HoldIsNext
<1>5. QED
    BY <1>3, <1>4

LEMMA PostLevels ==
    ASSUME TypeOK, TypeOK', HandInv, LevelsAgree, NEW p \in Thread, Post(p), NEW c \in Control
    PROVE  Agrees(c)'
<1>0. Agrees(c) /\ p \in Control
    BY DEF LevelsAgree, Agrees, Control
<1>1. ASSUME NEW e \in Posted(p), PostCall(p, e)
      PROVE  Agrees(c)'
  <2>1. /\ stage[p] = "idle" /\ stage' = [stage EXCEPT ![p] = "calling"]
        /\ hand' = [hand EXCEPT ![p] = e]
        /\ level' = IF IsLevel(e) THEN [level EXCEPT ![p] = e.on] ELSE level
        /\ UNCHANGED <<queue, frame_events, input, messages, lost>>
      BY <1>1 DEF PostCall, Queue!Call, rawVars
  <2>2. stage'[p] = "calling" /\ hand'[p] = e
      BY <2>1 DEF TypeOK
  <2>3. CASE c = p /\ IsLevel(e)
    <3>1. Underway(c)'
        BY <2>2, <2>3 DEF Underway
    <3>2. QED
        BY <3>1 DEF Agrees
  <2>4. CASE ~ (c = p /\ IsLevel(e))
    <3>1. level'[c] = level[c]
        BY <2>1, <2>4 DEF TypeOK
    <3>2. Underway(c) => Underway(c)'
      <4>1. \A r \in Thread : stage[r] = "calling" =>
                stage'[r] = "calling" /\ hand'[r] = hand[r]
          BY <2>1 DEF TypeOK
      <4>2. QED
          BY <2>1, <4>1 DEF Underway
    <3>3. WillHold(c)' = WillHold(c)
        BY <2>1, HoldSame
    <3>4. QED
        BY <1>0, <2>1, <3>1, <3>2, <3>3, Kept
  <2>5. QED
      BY <2>3, <2>4
<1>2. CASE PostAccept(p)
  <2>1. /\ stage[p] = "calling" /\ hand[p] \in Posted(p) /\ hand[p] \in Events
        /\ IsLevel(hand[p]) => hand[p].on = level[p]
        /\ queue' = Append(queue, [from |-> p, val |-> hand[p], ready |-> FALSE])
        /\ stage' = [stage EXCEPT ![p] = "accepted"]
        /\ hand' = [hand EXCEPT ![p] = NoEvent]
        /\ lost' = IF IsLevel(hand[p]) THEN [lost EXCEPT ![p] = "no"] ELSE lost
        /\ UNCHANGED <<frame_events, input, messages, level>>
      BY <1>2 DEF PostAccept, Queue!Accept, TypeOK, HandInv, rawVars
  <2>2. PICK e \in Events : e = hand[p]
      BY <2>1
  <2>3. IsLevel(e) => e.of = p
      BY <2>1, <2>2, PostedIs
  <2>4. PICK x \in Cell : x = [from |-> p, val |-> e, ready |-> FALSE]
      BY DEF Cell
  <2>5. queue' = Append(queue, x) /\ x.val = e
      BY <2>1, <2>2, <2>4
  <2>6. WillHold(c)' = IF IsLevel(e) /\ e.of = c THEN e.on ELSE WillHold(c)
      BY <2>1, <2>5, HoldAppend
  <2>7. CASE IsLevel(e) /\ c = p
    <3>1. WillHold(c)' = e.on
        BY <2>3, <2>6, <2>7
    <3>2. e.on = level'[c]
        BY <2>1, <2>2, <2>7
    <3>3. QED
        BY <3>1, <3>2 DEF Agrees
  <2>8. CASE ~ (IsLevel(e) /\ c = p)
    <3>1. WillHold(c)' = WillHold(c)
        BY <2>3, <2>6, <2>8
    <3>2. lost'[c] = lost[c]
        BY <2>1, <2>2, <2>8 DEF TypeOK
    <3>3. Underway(c) => Underway(c)'
      <4>1. \A r \in Thread : r # p => stage'[r] = stage[r] /\ hand'[r] = hand[r]
          BY <2>1 DEF TypeOK
      <4>2. QED
          BY <2>1, <2>2, <2>8, <4>1 DEF Underway
    <3>4. level'[c] = level[c]
        BY <2>1
    <3>5. QED
        BY <1>0, <3>1, <3>2, <3>3, <3>4, Kept
  <2>9. QED
      BY <2>7, <2>8
<1>3. CASE PostRefused(p)
  <2>1. /\ stage' = [stage EXCEPT ![p] = "idle"]
        /\ hand' = [hand EXCEPT ![p] = NoEvent]
        /\ lost' = IF IsLevel(hand[p]) THEN [lost EXCEPT ![p] = "refused"] ELSE lost
        /\ UNCHANGED <<queue, frame_events, input, messages, level>>
      BY <1>3 DEF PostRefused, Queue!Refuse, rawVars
  <2>2. CASE IsLevel(hand[p]) /\ c = p
    <3>1. lost'[c] = "refused"
        BY <1>0, <2>1, <2>2 DEF TypeOK
    <3>2. QED
        BY <3>1 DEF Agrees
  <2>3. CASE ~ (IsLevel(hand[p]) /\ c = p)
    <3>1. WillHold(c)' = WillHold(c)
        BY <2>1, HoldSame
    <3>2. lost'[c] = lost[c]
        BY <2>1, <2>3 DEF TypeOK
    <3>3. Underway(c) => Underway(c)'
      <4>1. \A r \in Thread : r # p => stage'[r] = stage[r] /\ hand'[r] = hand[r]
          BY <2>1 DEF TypeOK
      <4>2. QED
          BY <2>1, <2>3, <4>1 DEF Underway
    <3>4. QED
        BY <1>0, <2>1, <3>1, <3>2, <3>3, Kept
  <2>4. QED
      BY <2>2, <2>3
<1>4. CASE PostPublish(p)
  <2>1. PICK i \in DOMAIN queue : queue' = [queue EXCEPT ![i].ready = TRUE]
      BY <1>4 DEF PostPublish, Queue!Publish
  <2>2. /\ stage[p] = "accepted" /\ stage' = [stage EXCEPT ![p] = "idle"]
        /\ UNCHANGED <<frame_events, input, hand, messages, level, lost>>
      BY <1>4 DEF PostPublish, Queue!Publish, rawVars
  <2>3. Vals(queue') = Vals(queue)
    <3>1. PICK w \in Seq(Cell) : w = queue
        BY DEF TypeOK, Cell
    <3>2. QED
        BY <2>1, <3>1, ValsReady
  <2>4. WillHold(c)' = WillHold(c)
      BY <2>2, <2>3, HoldSame
  <2>5. Underway(c) => Underway(c)'
    <3>1. \A r \in Thread : stage[r] = "calling" => stage'[r] = "calling"
        BY <2>2 DEF TypeOK
    <3>2. QED
        BY <2>2, <3>1 DEF Underway
  <2>6. QED
      BY <1>0, <2>2, <2>4, <2>5, Kept
<1>5. QED
    BY <1>1, <1>2, <1>3, <1>4 DEF Post

LEMMA ReportLevels ==
    ASSUME TypeOK, TypeOK', LevelsAgree, NEW k \in Packet, MouseReports(k), NEW c \in Control
    PROVE  Agrees(c)'
<1>0. Agrees(c)
    BY DEF LevelsAgree, Agrees
<1>1. /\ messages' = Append(messages, k) /\ messages \in Seq(Packet)
      /\ level' = [d \in Control |-> IF \E f \in k.flags : f[1] = d THEN ~ level[d] ELSE level[d]]
      /\ UNCHANGED <<frame_events, input, queue, stage, hand, lost>>
    BY DEF MouseReports, TypeOK, frameVars, postVars
<1>2. /\ Len(messages) + 1 \in DOMAIN messages' /\ messages'[Len(messages) + 1] = k
      /\ \A i \in DOMAIN messages : i \in DOMAIN messages' /\ messages'[i] = messages[i]
    BY <1>1
<1>3. CASE \E f \in k.flags : f[1] = c
  <2>1. Underway(c)'
      BY <1>2, <1>3 DEF Underway, Changes
  <2>2. QED
      BY <2>1 DEF Agrees
<1>4. CASE ~ \E f \in k.flags : f[1] = c
  <2>1. level'[c] = level[c]
      BY <1>1, <1>4
  <2>2. Underway(c) => Underway(c)'
      BY <1>1, <1>2 DEF Underway
  <2>3. WillHold(c)' = WillHold(c)
      BY <1>1, HoldSame
  <2>4. QED
      BY <1>0, <1>1, <2>1, <2>2, <2>3, Kept
<1>5. QED
    BY <1>3, <1>4

\* A packet that does not change c takes nothing with it that is under way.
LEMMA UnderwayTail ==
    ASSUME messages \in Seq(Packet), messages # <<>>, messages' = Tail(messages),
           UNCHANGED <<stage, hand>>, NEW c, ~ Changes(messages[1], c), Underway(c)
    PROVE  Underway(c)'
<1>1. Len(messages) \in Nat
    OBVIOUS
<1>2. /\ DOMAIN messages' = 1 .. Len(messages) - 1
      /\ \A i \in DOMAIN messages' : messages'[i] = messages[i + 1]
  <2>1. PICK t \in Seq(Packet) : t = Tail(messages)
      BY SeqTail
  <2>2. /\ Len(t) = Len(messages) - 1
        /\ \A i \in 1 .. Len(messages) - 1 : t[i] = messages[i + 1]
      BY <2>1, SeqTail
  <2>3. QED
      BY <2>1, <2>2
<1>3. ASSUME NEW i \in DOMAIN messages, Changes(messages[i], c)
      PROVE  \E j \in DOMAIN messages' : Changes(messages'[j], c)
  <2>1. i \in 1 .. Len(messages) /\ i # 1
      BY <1>3
  <2>2. i - 1 \in DOMAIN messages' /\ (i - 1) + 1 = i
      BY <1>1, <1>2, <2>1
  <2>3. messages'[i - 1] = messages[i]
      BY <1>2, <2>2
  <2>4. QED
      BY <1>3, <2>2, <2>3
<1>4. QED
    BY <1>3 DEF Underway

\* A lost packet leaves what is known of the other controls as it was.
LEMMA UnreadLevels ==
    ASSUME TypeOK, TypeOK', LevelsAgree, ri_process_input, Unread(Head(messages)), NEW c \in Control
    PROVE  Agrees(c)'
<1>0. Agrees(c)
    BY DEF LevelsAgree, Agrees
<1>1. /\ messages \in Seq(Packet) /\ messages # <<>> /\ messages' = Tail(messages)
      /\ Head(messages) = messages[1]
      /\ UNCHANGED <<frame_events, input, stage, hand, level, queue>>
    BY DEF ri_process_input, Unread, TypeOK, frameVars, postVars
<1>2. lost'[c] = IF Changes(messages[1], c) THEN "unread" ELSE lost[c]
    BY <1>1 DEF Unread
<1>3. CASE Changes(messages[1], c)
    BY <1>2, <1>3 DEF Agrees
<1>4. CASE ~ Changes(messages[1], c)
  <2>1. Underway(c) => Underway(c)'
      BY <1>1, <1>4, UnderwayTail
  <2>2. WillHold(c)' = WillHold(c)
      BY <1>1, HoldSame
  <2>3. QED
      BY <1>0, <1>1, <1>2, <1>4, <2>1, <2>2, Kept
<1>5. QED
    BY <1>3, <1>4

LEMMA PushedLevels ==
    ASSUME TypeOK, TypeOK', MessageInv, LastFlag, LevelsAgree, ri_process_input,
           Pushed(Head(messages), Translated(Head(messages))), NEW c \in Control
    PROVE  Agrees(c)'
<1>0. Agrees(c)
    BY DEF LevelsAgree, Agrees
<1>1. /\ messages \in Seq(Packet) /\ messages # <<>> /\ messages' = Tail(messages)
      /\ UNCHANGED <<frame_events, input, stage, hand, level>>
    BY DEF ri_process_input, TypeOK, frameVars, postVars
<1>2. /\ 1 \in DOMAIN messages /\ Head(messages) = messages[1] /\ messages[1] \in Packet
      /\ Len(messages) \in Nat
    BY <1>1, SeqTail
<1>3. PICK k \in Packet : k = messages[1]
    BY <1>2
<1>4. /\ DOMAIN messages' = 1 .. Len(messages) - 1
      /\ \A i \in DOMAIN messages' : messages'[i] = messages[i + 1]
  <2>1. PICK t \in Seq(Packet) : t = Tail(messages)
      BY <1>1, SeqTail
  <2>2. /\ Len(t) = Len(messages) - 1
        /\ \A i \in 1 .. Len(messages) - 1 : t[i] = messages[i + 1]
      BY <1>1, <2>1, SeqTail
  <2>3. QED
      BY <1>1, <2>1, <2>2
<1>5. PICK e : e = Translated(k)
    OBVIOUS
<1>6. /\ e \in Events
      /\ e.of = c => IsLevel(e) /\ \E f \in k.flags : f[1] = c /\ f[2] = e.on
    BY <1>2, <1>3, <1>5, TranslatedIs DEF MessageInv
<1>7. PICK x \in Cell : x = [from |-> Engine, val |-> e, ready |-> TRUE]
    BY <1>6 DEF Cell
<1>8. /\ queue' = IF Len(queue) < Capacity THEN Append(queue, x) ELSE queue
      /\ x.val = e
    BY <1>2, <1>3, <1>5, <1>7 DEF Pushed
<1>9. lost' = [d \in Control |->
                  CASE ~ \E f \in k.flags : f[1] = d -> lost[d]
                    [] e.of = d /\ Len(queue) < Capacity -> "no"
                    [] e.of = d /\ ~ (Len(queue) < Capacity) -> "refused"
                    [] OTHER -> "masked"]
    BY <1>2, <1>3, <1>5 DEF Pushed, Changes
<1>10. CASE ~ \E f \in k.flags : f[1] = c
  <2>1. e.of # c
      BY <1>6, <1>10
  <2>2. lost'[c] = lost[c]
    <3>1. lost'[c] = CASE ~ \E f \in k.flags : f[1] = c -> lost[c]
                       [] e.of = c /\ Len(queue) < Capacity -> "no"
                       [] e.of = c /\ ~ (Len(queue) < Capacity) -> "refused"
                       [] OTHER -> "masked"
        BY <1>9
    <3>2. QED
        BY ONLY <1>10, <2>1, <3>1
  <2>3. WillHold(c)' = WillHold(c)
    <3>1. CASE Len(queue) < Capacity
      <4>1. queue' = Append(queue, x)
          BY <1>8, <3>1
      <4>2. WillHold(c)' = IF IsLevel(x.val) /\ x.val.of = c THEN x.val.on ELSE WillHold(c)
          BY <1>1, <4>1, HoldAppend
      <4>3. QED
          BY <1>8, <2>1, <4>2
    <3>2. CASE ~ (Len(queue) < Capacity)
      <4>1. queue' = queue
          BY <1>8, <3>2
      <4>2. QED
          BY <1>1, <4>1, HoldSame
    <3>3. QED
        BY <3>1, <3>2
  <2>4. Underway(c) => Underway(c)'
      BY <1>1, <1>3, <1>10, UnderwayTail DEF Changes
  <2>5. QED
      BY <1>0, <1>1, <2>2, <2>3, <2>4, Kept
<1>11. CASE (\E f \in k.flags : f[1] = c) /\ ~ (e.of = c /\ Len(queue) < Capacity)
  <2>1. lost'[c] \in {"refused", "masked"}
      BY <1>9, <1>11
  <2>2. QED
      BY <2>1 DEF Agrees
<1>12. CASE e.of = c /\ Len(queue) < Capacity
  <2>1. PICK f \in k.flags : f[1] = c /\ f[2] = e.on
      BY <1>6, <1>12
  <2>2. c \in Button
      BY <2>1 DEF Packet
  <2>3. SUFFICES ASSUME ~ Underway(c)'
                 PROVE  WillHold(c)' = level'[c]
      BY DEF Agrees
  <2>4. WillHold(c)' = e.on
    <3>1. queue' = Append(queue, x)
        BY <1>8, <1>12
    <3>2. WillHold(c)' = IF IsLevel(x.val) /\ x.val.of = c THEN x.val.on ELSE WillHold(c)
        BY <1>1, <3>1, HoldAppend
    <3>3. QED
        BY <1>6, <1>8, <1>12, <3>2
  <2>5. ChangesAt(1, c) /\ f \in messages[1].flags
      BY <1>3, <2>1 DEF ChangesAt, Changes
  <2>6. ASSUME NEW j \in DOMAIN messages, ChangesAt(j, c)
        PROVE  j <= 1
    <3>1. SUFFICES ASSUME ~ (j <= 1)
                   PROVE  FALSE
        OBVIOUS
    <3>2. j \in 1 .. Len(messages)
        BY <1>1
    <3>3. j - 1 \in DOMAIN messages' /\ messages'[j - 1] = messages[j]
      <4>1. j - 1 \in DOMAIN messages' /\ (j - 1) + 1 = j
          BY <1>2, <1>4, <3>1, <3>2
      <4>2. QED
          BY <1>4, <4>1
    <3>4. Underway(c)'
        BY <2>6, <3>3 DEF Underway, ChangesAt, Changes
    <3>5. QED
        BY <2>3, <3>4
  <2>7. f[2] = level[c]
      BY <1>2, <2>1, <2>2, <2>5, <2>6 DEF LastFlag
  <2>8. QED
      BY <1>1, <2>1, <2>4, <2>7
<1>13. QED
    BY <1>10, <1>11, <1>12

LEMMA ProcessLevels ==
    ASSUME TypeOK, TypeOK', MessageInv, LastFlag, LevelsAgree, ri_process_input, NEW c \in Control
    PROVE  Agrees(c)'
BY PushedLevels, UnreadLevels DEF ri_process_input

\* A membership used as a value.
LEMMA InIs ==
    ASSUME NEW S, NEW c, NEW d, d = (c \in S)
    PROVE  d \in BOOLEAN /\ (d <=> c \in S)
<1>1. d \in BOOLEAN
    BY SMT
<1>2. CASE d = TRUE
  <2>1. TRUE = (c \in S)
      BY <1>2
  <2>2. c \in S
      BY <2>1, SMT
  <2>3. QED
      BY <1>2, <2>2
<1>3. CASE d = FALSE
  <2>1. FALSE = (c \in S)
      BY <1>3
  <2>2. c \notin S
      BY <2>1, SMT
  <2>3. QED
      BY <1>3, <2>2
<1>4. QED
    BY <1>1, <1>2, <1>3

LEMMA RunLevels ==
    ASSUME TypeOK, TypeOK', FrameInv, LevelsAgree, NEW c \in Control,
           RunCall \/ LoopTest \/ PumpReturns \/ Drain \/ BuildInput \/ Update \/ shutdown
              \/ UNCHANGED vars
    PROVE  Agrees(c)'
<1>0. Agrees(c)
    BY DEF LevelsAgree, Agrees
<1>1. CASE UNCHANGED <<queue, frame_events, input, stage, hand, messages, level, lost>>
  <2>1. WillHold(c)' = WillHold(c)
      BY <1>1, HoldSame
  <2>2. Underway(c) => Underway(c)'
      BY <1>1 DEF Underway
  <2>3. QED
      BY <1>0, <1>1, <2>1, <2>2, Kept
<1>2. CASE RunCall \/ PumpReturns \/ Update \/ shutdown \/ UNCHANGED vars
  <2>1. UNCHANGED <<queue, frame_events, input, stage, hand, messages, level, lost>>
      BY <1>2 DEF RunCall, PumpReturns, Update, shutdown, vars, frameVars, postVars, rawVars
  <2>2. QED
      BY <1>1, <2>1
<1>3. CASE LoopTest /\ running
  <2>1. UNCHANGED <<queue, frame_events, input, stage, hand, messages, level, lost>>
      BY <1>3 DEF LoopTest, postVars, rawVars
  <2>2. QED
      BY <1>1, <2>1
<1>4. CASE LoopTest /\ ~ running
  <2>1. /\ epc = "test" /\ input' = NoInput
        /\ lost' = [d \in Control |->
                      IF d \in input.down /\ About(d, Queued) = {} THEN "restarted" ELSE lost[d]]
        /\ UNCHANGED <<queue, frame_events, stage, hand, messages, level>>
      BY <1>4 DEF LoopTest, postVars, rawVars
  <2>2. frame_events = <<>>
      BY <2>1 DEF FrameInv
  <2>3. c \notin input'.down
      BY <2>1 DEF NoInput
  <2>4. CASE c \in input.down /\ About(c, Queued) = {}
    <3>1. lost'[c] = "restarted"
        BY <2>1, <2>4
    <3>2. QED
        BY <3>1 DEF Agrees
  <2>5. CASE ~ (c \in input.down /\ About(c, Queued) = {})
    <3>1. lost'[c] = lost[c]
        BY <2>1, <2>5
    <3>2. Underway(c) => Underway(c)'
        BY <2>1 DEF Underway
    <3>3. \A d : Told(c, <<>>, d) = d
      <4>1. About(c, <<>>) = {}
          BY DEF About
      <4>2. QED
          BY <4>1, ToldNothing
    <3>4. PICK v : v = Vals(queue)
        OBVIOUS
    <3>5. PICK d : d = (c \in input.down)
        OBVIOUS
    <3>6. PICK dd : dd = (c \in input'.down)
        OBVIOUS
    <3>7. WillHold(c) = Told(c, v, d)
        BY <2>2, <3>3, <3>4, <3>5, HoldIs
    <3>8. WillHold(c)' = Told(c, v, dd)
      <4>1. WillHold(c)' = Told(c, Vals(queue'), Told(c, frame_events', c \in input'.down))
          BY HoldIsNext
      <4>2. Vals(queue') = v /\ frame_events' = <<>>
          BY <2>1, <2>2, <3>4
      <4>3. QED
          BY <3>3, <3>6, <4>1, <4>2
    <3>9. Told(c, v, d) = Told(c, v, dd)
      <4>1. CASE About(c, v) = {}
        <5>1. c \notin input.down
            BY <2>5, <3>4, <4>1 DEF Queued, Vals
        <5>2. d = dd
            BY <2>3, <3>5, <3>6, <5>1
        <5>3. QED
            BY <5>2
      <4>2. CASE About(c, v) # {}
          BY <4>2, ToldSomething
      <4>3. QED
          BY <4>1, <4>2
    <3>10. WillHold(c)' = WillHold(c)
        BY <3>7, <3>8, <3>9
    <3>11. QED
        BY <1>0, <2>1, <3>1, <3>2, <3>10, Kept
  <2>6. QED
      BY <2>4, <2>5
<1>5. CASE Drain /\ ~ CanPop
  <2>1. UNCHANGED <<queue, frame_events, input, stage, hand, messages, level, lost>>
      BY <1>5 DEF Drain, rawVars
  <2>2. QED
      BY <1>1, <2>1
<1>6. CASE Drain /\ CanPop
  <2>1. /\ queue # <<>> /\ queue' = Tail(queue)
        /\ frame_events' = Append(frame_events, Head(queue).val)
        /\ UNCHANGED <<input, stage, hand, messages, level, lost>>
      BY <1>6 DEF Drain, CanPop, Queue!Deliver, rawVars
  <2>2. PICK w \in Seq(Cell), s \in Seq(Events) : w = queue /\ s = frame_events
      BY DEF TypeOK, Cell
  <2>3. PICK t \in Seq(Events), y \in Seq(Cell) : t = frame_events' /\ y = queue'
      BY DEF TypeOK, Cell
  <2>4. t \o Vals(y) = s \o Vals(w)
      BY <2>1, <2>2, <2>3, ValsPop
  <2>5. Queued = Vals(w) /\ Queued' = Vals(y)
      BY <2>2, <2>3 DEF Queued, Vals
  <2>6. WillHold(c)' = WillHold(c)
      BY <2>1, <2>2, <2>3, <2>4, <2>5 DEF WillHold
  <2>7. Underway(c) => Underway(c)'
      BY <2>1 DEF Underway
  <2>8. QED
      BY <1>0, <2>1, <2>6, <2>7, Kept
<1>7. CASE BuildInput
  <2>1. /\ input' = build_input(input, frame_events) /\ frame_events' = <<>>
        /\ UNCHANGED <<queue, stage, hand, messages, level, lost>>
      BY <1>7 DEF BuildInput, postVars, rawVars
  <2>2. PICK in \in InputState, s \in Seq(Events) : in = input /\ s = frame_events
      BY DEF TypeOK, InputState
  <2>3. PICK d : d = (c \in in.down)
      OBVIOUS
  <2>4. PICK dd : dd = (c \in input'.down)
      OBVIOUS
  <2>5. dd = Told(c, s, d)
    <3>1. c \in build_input(in, s).down <=> Told(c, s, c \in in.down)
        BY BuildFacts DEF Facts
    <3>2. d \in BOOLEAN /\ dd \in BOOLEAN
        BY <2>3, <2>4, InIs
    <3>3. Told(c, s, d) \in BOOLEAN
        BY <3>2, ToldBoolean
    <3>4. PICK n : n = Told(c, s, d)
        OBVIOUS
    <3>5. dd <=> n
      <4>1. c \in input'.down <=> n
          BY <2>1, <2>2, <2>3, <3>1, <3>4
      <4>2. dd <=> c \in input'.down
          BY <2>4, InIs
      <4>3. QED
          BY <4>1, <4>2, Zenon
    <3>6. n \in BOOLEAN
        BY <3>3, <3>4
    <3>7. dd = n
        BY <3>2, <3>5, <3>6, Zenon
    <3>8. QED
        BY <3>4, <3>7
  <2>6. PICK v : v = Vals(queue)
      OBVIOUS
  <2>7. WillHold(c) = Told(c, v, Told(c, s, d))
      BY <2>2, <2>3, <2>6, HoldIs
  <2>8. WillHold(c)' = Told(c, v, dd)
    <3>1. WillHold(c)' = Told(c, Vals(queue'), Told(c, frame_events', c \in input'.down))
        BY HoldIsNext
    <3>2. Told(c, <<>>, dd) = dd
      <4>1. About(c, <<>>) = {}
          BY DEF About
      <4>2. QED
          BY <4>1, ToldNothing
    <3>3. Vals(queue') = v
        BY <2>1, <2>6
    <3>4. QED
        BY <2>1, <2>4, <3>1, <3>2, <3>3
  <2>9. WillHold(c)' = WillHold(c)
      BY <2>5, <2>7, <2>8
  <2>10. Underway(c) => Underway(c)'
      BY <2>1 DEF Underway
  <2>11. QED
      BY <1>0, <2>1, <2>9, <2>10, Kept
<1>8. QED
    BY <1>2, <1>3, <1>4, <1>5, <1>6, <1>7

LEMMA InitLevels == Init => LevelsAgree
<1> SUFFICES ASSUME Init, NEW c \in Control
             PROVE  WillHold(c) = level[c]
    BY DEF LevelsAgree
<1>1. TypeOK
    BY InitType
<1>2. queue = <<>> /\ frame_events = <<>> /\ c \notin input.down /\ level[c] = FALSE
    BY DEF Init, NoInput
<1>3. Vals(queue) = <<>>
    BY <1>2 DEF Vals
<1>4. \A d : Told(c, <<>>, d) = d
  <2>1. About(c, <<>>) = {}
      BY DEF About
  <2>2. QED
      BY <2>1, ToldNothing
<1>5. PICK d : d = (c \in input.down)
    OBVIOUS
<1>6. WillHold(c) = d
    BY <1>1, <1>2, <1>3, <1>4, <1>5, HoldIs
<1>7. d = FALSE
  <2>1. d \in BOOLEAN /\ (d <=> c \in input.down)
      BY <1>5, InIs
  <2>2. ~ d
      BY <1>2, <2>1, Zenon
  <2>3. QED
      BY <2>1, <2>2, Zenon
<1>8. QED
    BY <1>2, <1>6, <1>7

-----------------------------------------------------------------------------
(* The invariant and what follows from it *)

\* What every step of the loop, of the pushing threads and of the mouse keeps.
EngineInv ==
    TypeOK /\ MessageInv /\ HandInv /\ LastFlag /\ FrameInv /\ LateInv /\ LevelsAgree

LEMMA EngineInvNext ==
    ASSUME EngineInv, [Next]_vars
    PROVE  EngineInv'
<1> USE DEF EngineInv
<1>1. MessageInv' /\ HandInv' /\ FrameInv' /\ LateInv' /\ LastFlag'
    BY MessageNext, HandNext, FrameNext, LateNext, LastFlagNext
<1>2. CASE \E p \in Thread : Post(p)
  <2>1. PICK p \in Thread : Post(p)
      BY <1>2
  <2>2. TypeOK'
      BY <2>1, PostType
  <2>3. \A c \in Control : Agrees(c)'
      BY <2>1, <2>2, PostLevels
  <2>4. QED
      BY <1>1, <2>2, <2>3 DEF Agrees, LevelsAgree
<1>3. CASE \E k \in Packet : MouseReports(k)
  <2>1. PICK k \in Packet : MouseReports(k)
      BY <1>3
  <2>2. TypeOK'
      BY <2>1, ReportType
  <2>3. \A c \in Control : Agrees(c)'
      BY <2>1, <2>2, ReportLevels
  <2>4. QED
      BY <1>1, <2>2, <2>3 DEF Agrees, LevelsAgree
<1>4. CASE ri_process_input
  <2>1. TypeOK'
      BY <1>4, ProcessType
  <2>2. \A c \in Control : Agrees(c)'
      BY <1>4, <2>1, ProcessLevels
  <2>3. QED
      BY <1>1, <2>1, <2>2 DEF Agrees, LevelsAgree
<1>5. CASE RunCall \/ LoopTest \/ PumpReturns \/ Drain \/ BuildInput \/ Update \/ shutdown
           \/ UNCHANGED vars
  <2>1. TypeOK'
      BY <1>5, RunType, StutterType
  <2>2. \A c \in Control : Agrees(c)'
      BY <1>5, <2>1, RunLevels
  <2>3. QED
      BY <1>1, <2>1, <2>2 DEF Agrees, LevelsAgree
<1>6. QED
    BY <1>2, <1>3, <1>4, <1>5 DEF Next, Run

\* The state of the loop, of the queue and of every thread is always well formed,
\* the frame's events are empty outside a frame, and what is on its way to the
\* queue is the latest truth about its control.
THEOREM EngineInvariant == Spec => []EngineInv
<1>1. Init => EngineInv
    BY InitType, InitAux, InitLevels DEF EngineInv
<1>2. EngineInv /\ [Next]_vars => EngineInv'
    BY EngineInvNext
<1>3. QED
    BY <1>1, <1>2, PTL DEF Spec

\* Types.
THEOREM TypeCorrect == Spec => []TypeOK
<1>1. EngineInv => TypeOK
    BY DEF EngineInv
<1>2. QED
    BY <1>1, EngineInvariant, PTL

\* Whatever the order of packets, posts, frames, shutdowns and runs, what the
\* input state will say of a control, once the queued events are used up, is what
\* is true of it, unless its last change was refused, masked, never read or
\* forgotten by run().
THEOREM LevelsAlwaysAgree == Spec => []LevelsAgree
<1>1. EngineInv => LevelsAgree
    BY DEF EngineInv
<1>2. QED
    BY <1>1, EngineInvariant, PTL

\* After a shutdown at most the frame under way is built.
THEOREM StopsAfterFrame == Spec => []CurrentFrameIsLast
<1>1. EngineInv => CurrentFrameIsLast
    BY DEF EngineInv, LateInv, CurrentFrameIsLast
<1>2. QED
    BY <1>1, EngineInvariant, PTL

\* No frame hides a change of a control, and no edge outlives its frame.
THEOREM EdgesAreHonest == Spec => EdgesCoverLevels
<1> DEFINE Edges == epc = "build" /\ epc' = "update" =>
         \A c \in Control :
            /\ c \in input'.down \ input.down => c \in input'.pressed
            /\ c \in input.down \ input'.down => c \in input'.released
            /\ c \in input'.pressed \ input'.released => c \in input'.down
            /\ c \in input'.released \ input'.pressed => c \notin input'.down
            /\ About(c, frame_events) = {} => c \notin input'.pressed \cup input'.released
<1>1. EngineInv /\ [Next]_vars => [Edges]_vars
  <2>1. SUFFICES ASSUME EngineInv, Next, epc = "build", epc' = "update", NEW c \in Control
                 PROVE  /\ c \in input'.down \ input.down => c \in input'.pressed
                        /\ c \in input.down \ input'.down => c \in input'.released
                        /\ c \in input'.pressed \ input'.released => c \in input'.down
                        /\ c \in input'.released \ input'.pressed => c \notin input'.down
                        /\ About(c, frame_events) = {} =>
                              c \notin input'.pressed \cup input'.released
      OBVIOUS
  <2>2. BuildInput
    <3>1. ~ \E p \in Thread : Post(p)
        BY <2>1 DEF Post, PostCall, PostAccept, PostRefused, PostPublish
    <3>2. ~ \E k \in Packet : MouseReports(k)
        BY <2>1 DEF MouseReports, frameVars
    <3>3. ~ (RunCall \/ LoopTest \/ ri_process_input \/ PumpReturns \/ Drain \/ Update
             \/ shutdown)
        BY <2>1 DEF RunCall, LoopTest, ri_process_input, PumpReturns, Drain, Update, shutdown,
                    frameVars
    <3>4. QED
        BY <2>1, <3>1, <3>2, <3>3 DEF Next, Run
  <2>3. PICK in \in InputState, s \in Seq(Events) : in = input /\ s = frame_events
      BY <2>1 DEF EngineInv, TypeOK, InputState
  <2>4. input' = build_input(in, s)
      BY <2>2, <2>3 DEF BuildInput
  <2>5. Facts(in, build_input(in, s), c, s)
      BY <2>1, BuildFacts
  <2>6. QED
      BY <2>3, <2>4, <2>5 DEF Facts
<1>2. QED
    BY <1>1, EngineInvariant, PTL DEF Spec, EdgesCoverLevels
============================================================================
