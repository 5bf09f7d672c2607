------------------------- MODULE RenderFrameProofs -------------------------
(***************************************************************************)
(* Machine-checked proofs about TransformNode and RenderFrame: what the    *)
(* versions of the cache promise, for every acyclic hierarchy and every    *)
(* width of the counters, and that a frame bakes what they promise.        *)
(*                                                                         *)
(* The sections: path, defined by recursion along Parent, is a function    *)
(* because the hierarchy is well founded; a counter within one turn of     *)
(* what its reader last saw differs exactly when something was missed;     *)
(* Update, a fold along the path, leaves every node of it fresh; CacheInv  *)
(* is inductive; what follows of it for an update and for a bake.  Then    *)
(* the drawing: ranks, which sort and list; where a primitive is; what     *)
(* each stage of a frame leaves; the order of the key.                     *)
(***************************************************************************)
EXTENDS RenderFrame, WellFoundedInduction, SequenceTheorems, FiniteSetTheorems, TLAPS

-----------------------------------------------------------------------------
(* Paths *)

\* A function on part of the hierarchy that satisfies the equation of path.
PathOn(D, f) ==
    /\ D \subseteq Node
    /\ \A n \in D : ~ IsRoot(n) => Parent[n] \in D
    /\ f = [n \in D |-> IF IsRoot(n) THEN <<n>> ELSE Append(f[Parent[n]], n)]

LEMMA ParentIs ==
    ASSUME NEW n \in Node
    PROVE  (IsRoot(n) <=> Parent[n] \notin Node) /\ (~ IsRoot(n) => Parent[n] \in Node)
BY ParentAssumption DEF IsRoot

LEMMA PathsAgree ==
    ASSUME NEW D, NEW f, PathOn(D, f), NEW E, NEW g, PathOn(E, g), NEW n \in D \cap E
    PROVE  f[n] = g[n]
<1> DEFINE Bad == {m \in D \cap E : f[m] # g[m]}
<1>1. SUFFICES ASSUME Bad # {}
               PROVE  FALSE
    OBVIOUS
<1>2. Bad \in SUBSET Node
    BY DEF PathOn
<1>3. PICK m \in Bad : Parent[m] \notin Bad
  <2> HIDE DEF Bad
  <2> QED
      BY <1>1, <1>2, AcyclicAssumption
<1>4. m \in D /\ m \in E /\ f[m] # g[m]
    OBVIOUS
<1>5. /\ f[m] = IF IsRoot(m) THEN <<m>> ELSE Append(f[Parent[m]], m)
      /\ g[m] = IF IsRoot(m) THEN <<m>> ELSE Append(g[Parent[m]], m)
    BY <1>4 DEF PathOn
<1>6. ~ IsRoot(m) => Parent[m] \in D \cap E
    BY <1>4 DEF PathOn
<1>7. ~ IsRoot(m) => f[Parent[m]] = g[Parent[m]]
    BY <1>3, <1>6
<1>8. QED
    BY <1>4, <1>5, <1>7

LEMMA PathOnExists ==
    ASSUME NEW n \in Node
    PROVE  \E D, f : PathOn(D, f) /\ n \in D
<1> DEFINE Bad == {m \in Node : ~ \E D, f : PathOn(D, f) /\ m \in D}
<1>1. SUFFICES ASSUME Bad # {}
               PROVE  FALSE
    OBVIOUS
<1>2. Bad \in SUBSET Node
    OBVIOUS
<1>3. PICK m \in Bad : Parent[m] \notin Bad
  <2> HIDE DEF Bad
  <2> QED
      BY <1>1, <1>2, AcyclicAssumption
<1>4. CASE IsRoot(m)
  <2> DEFINE g == [k \in {m} |-> <<m>>]
  <2>1. g = [k \in {m} |-> IF IsRoot(k) THEN <<k>> ELSE Append(g[Parent[k]], k)]
      BY <1>4
  <2> HIDE DEF g
  <2>2. PathOn({m}, g)
      BY <1>4, <2>1 DEF PathOn
  <2>3. QED
      BY <2>2
<1>5. CASE ~ IsRoot(m)
  <2>1. Parent[m] \in Node
      BY <1>5, ParentIs
  <2>2. PICK D, f : PathOn(D, f) /\ Parent[m] \in D
      BY <1>3, <2>1
  <2>3. m \notin D
      BY <2>2
  <2> DEFINE E == D \cup {m}
             g == [k \in E |-> IF k = m THEN Append(f[Parent[m]], m) ELSE f[k]]
  <2>4. \A k \in D : g[k] = f[k] /\ k # m
      BY <2>3
  <2>5. \A k \in E : ~ IsRoot(k) => Parent[k] \in D
      BY <2>2 DEF PathOn
  <2>6. ASSUME NEW k \in E
        PROVE  g[k] = IF IsRoot(k) THEN <<k>> ELSE Append(g[Parent[k]], k)
    <3>1. CASE k = m
      <4>1. g[k] = Append(f[Parent[m]], m)
          BY <3>1
      <4>2. g[Parent[m]] = f[Parent[m]]
          BY <2>2, <2>4
      <4> HIDE DEF g
      <4>3. QED
          BY <1>5, <3>1, <4>1, <4>2
    <3>2. CASE k \in D
      <4>1. f[k] = IF IsRoot(k) THEN <<k>> ELSE Append(f[Parent[k]], k)
          BY <2>2, <3>2 DEF PathOn
      <4>2. g[k] = f[k] /\ (~ IsRoot(k) => g[Parent[k]] = f[Parent[k]])
          BY <2>4, <2>5, <3>2
      <4> HIDE DEF g
      <4>3. QED
          BY <4>1, <4>2
    <3>3. QED
        BY <3>1, <3>2
  <2>7. g = [k \in E |-> g[k]]
      OBVIOUS
  <2>8. E \subseteq Node
      BY <2>2 DEF PathOn
  <2> HIDE DEF g
  <2>9. g = [k \in E |-> IF IsRoot(k) THEN <<k>> ELSE Append(g[Parent[k]], k)]
      BY <2>6, <2>7
  <2>10. PathOn(E, g)
      BY <2>5, <2>8, <2>9 DEF PathOn
  <2>11. QED
      BY <2>10
<1>6. QED
    BY <1>4, <1>5

\* The recursion of path is well founded.
LEMMA PathIs ==
    path = [n \in Node |-> IF IsRoot(n) THEN <<n>> ELSE Append(path[Parent[n]], n)]
<1> DEFINE Is(v, n) == \E D, f : PathOn(D, f) /\ n \in D /\ v = f[n]
           F == [n \in Node |-> CHOOSE v : Is(v, n)]
<1>1. ASSUME NEW D, NEW f, PathOn(D, f), NEW n \in D
      PROVE  F[n] = f[n]
  <2>1. n \in Node
      BY <1>1 DEF PathOn
  <2>2. Is(f[n], n)
      BY <1>1
  <2>3. \A v : Is(v, n) => v = f[n]
      BY <1>1, PathsAgree
  <2> HIDE DEF Is
  <2>4. (CHOOSE v : Is(v, n)) = f[n]
      BY <2>2, <2>3
  <2>5. QED
      BY <2>1, <2>4
<1>2. ASSUME NEW n \in Node
      PROVE  F[n] = IF IsRoot(n) THEN <<n>> ELSE Append(F[Parent[n]], n)
  <2>1. PICK D, f : PathOn(D, f) /\ n \in D
      BY PathOnExists
  <2>2. f[n] = IF IsRoot(n) THEN <<n>> ELSE Append(f[Parent[n]], n)
      BY <2>1 DEF PathOn
  <2>3. ~ IsRoot(n) => Parent[n] \in D
      BY <2>1 DEF PathOn
  <2> HIDE DEF F
  <2>4. F[n] = f[n] /\ (~ IsRoot(n) => F[Parent[n]] = f[Parent[n]])
    <3>1. \A k \in D : F[k] = f[k]
        BY <1>1, <2>1
    <3>2. QED
        BY <2>1, <2>3, <3>1
  <2>5. QED
      BY <2>2, <2>4
<1>3. F = [n \in Node |-> F[n]]
    OBVIOUS
<1> HIDE DEF F
<1>4. F = [n \in Node |-> IF IsRoot(n) THEN <<n>> ELSE Append(F[Parent[n]], n)]
    BY <1>2, <1>3
<1>5. QED
    BY <1>4 DEF path

\* A path ends at its node, starts at a root, and each node on it is the parent
\* of the next, whose own path is the part up to it.
LEMMA PathFacts ==
    ASSUME NEW n \in Node
    PROVE  /\ path[n] \in Seq(Node) /\ Len(path[n]) \in Nat /\ Len(path[n]) >= 1
           /\ path[n][Len(path[n])] = n
           /\ \A k \in 1 .. Len(path[n]) : Len(path[path[n][k]]) = k
           /\ \A k \in 1 .. Len(path[n]) : k = 1 <=> IsRoot(path[n][k])
           /\ \A k \in 1 .. Len(path[n]) - 1 : Parent[path[n][k + 1]] = path[n][k]
<1> DEFINE Ok(m) ==
              /\ path[m] \in Seq(Node) /\ Len(path[m]) \in Nat /\ Len(path[m]) >= 1
              /\ path[m][Len(path[m])] = m
              /\ \A k \in 1 .. Len(path[m]) : Len(path[path[m][k]]) = k
              /\ \A k \in 1 .. Len(path[m]) : k = 1 <=> IsRoot(path[m][k])
              /\ \A k \in 1 .. Len(path[m]) - 1 : Parent[path[m][k + 1]] = path[m][k]
           Bad == {m \in Node : ~ Ok(m)}
<1>1. SUFFICES ASSUME Bad # {}
               PROVE  FALSE
    OBVIOUS
<1>2. PICK m \in Bad : Parent[m] \notin Bad
  <2>1. Bad \in SUBSET Node
      OBVIOUS
  <2> HIDE DEF Bad
  <2>2. QED
      BY <1>1, <2>1, AcyclicAssumption
<1>3. m \in Node /\ ~ Ok(m)
    OBVIOUS
<1>4. CASE IsRoot(m)
  <2>1. path[m] = <<m>>
      BY <1>3, <1>4, PathIs
  <2>2. PICK t : t = <<m>>
      OBVIOUS
  <2>3. t \in Seq(Node) /\ Len(t) = 1 /\ t[1] = m
      BY <1>3, <2>2
  <2>4. \A k \in 1 .. Len(t) : k = 1
      BY <2>3
  <2>5. \A k \in 1 .. Len(t) - 1 : FALSE
      BY <2>3
  <2>6. Len(path[m]) = 1
      BY <2>1, <2>2, <2>3
  <2>7. \A k \in 1 .. Len(t) : Len(path[t[k]]) = k /\ (k = 1 <=> IsRoot(t[k]))
      BY <1>4, <2>3, <2>4, <2>6
  <2>8. path[m] = t /\ Len(t) \in Nat /\ Len(t) >= 1 /\ t[Len(t)] = m
      BY <2>1, <2>2, <2>3
  <2>9. Ok(m)
      BY <2>3, <2>5, <2>7, <2>8
  <2>10. QED
      BY <1>3, <2>9
<1>5. CASE ~ IsRoot(m)
  <2>1. Parent[m] \in Node
      BY <1>3, <1>5, ParentIs
  <2>2. Ok(Parent[m])
      BY <1>2, <2>1
  <2>3. PICK s \in Seq(Node) : s = path[Parent[m]]
      BY <2>2
  <2>4. PICK t : t = Append(s, m)
      OBVIOUS
  <2>5. path[m] = t
      BY <1>3, <1>5, <2>3, <2>4, PathIs
  <2>6. /\ t \in Seq(Node) /\ Len(t) = Len(s) + 1 /\ Len(s) \in Nat
        /\ t[Len(s) + 1] = m /\ \A k \in 1 .. Len(s) : t[k] = s[k]
      BY <1>3, <2>4
  <2>7. /\ Len(s) >= 1 /\ s[Len(s)] = Parent[m]
        /\ \A k \in 1 .. Len(s) : Len(path[s[k]]) = k
        /\ \A k \in 1 .. Len(s) : k = 1 <=> IsRoot(s[k])
        /\ \A k \in 1 .. Len(s) - 1 : Parent[s[k + 1]] = s[k]
      BY <2>2, <2>3
  <2>8. \A k \in 1 .. Len(t) : k = Len(s) + 1 \/ k \in 1 .. Len(s)
      BY <2>6
  <2>9. ASSUME NEW k \in 1 .. Len(t)
        PROVE  Len(path[t[k]]) = k /\ (k = 1 <=> IsRoot(t[k]))
    <3>1. CASE k = Len(s) + 1
      <4>1. t[k] = m /\ Len(path[m]) = k /\ k # 1
          BY <2>5, <2>6, <2>7, <3>1
      <4>2. QED
          BY <1>5, <4>1
    <3>2. CASE k \in 1 .. Len(s)
        BY <2>6, <2>7, <3>2
    <3>3. QED
        BY <2>8, <3>1, <3>2
  <2>10. ASSUME NEW k \in 1 .. Len(t) - 1
         PROVE  Parent[t[k + 1]] = t[k]
    <3>1. CASE k = Len(s)
      <4>1. t[k + 1] = m /\ t[k] = s[k] /\ s[k] = Parent[m]
          BY <2>6, <2>7, <3>1
      <4>2. QED
          BY <4>1
    <3>2. CASE k # Len(s)
      <4>1. k \in 1 .. Len(s) - 1 /\ k \in 1 .. Len(s) /\ k + 1 \in 1 .. Len(s)
          BY <2>6, <3>2
      <4>2. QED
          BY <2>6, <2>7, <4>1
    <3>3. QED
        BY <3>1, <3>2
  <2>11. Len(t) \in Nat /\ Len(t) >= 1 /\ t[Len(t)] = m
      BY <2>6
  <2>12. Ok(m)
      BY <2>5, <2>6, <2>9, <2>10, <2>11
  <2>13. QED
      BY <1>3, <2>12
<1>6. QED
    BY <1>4, <1>5

LEMMA PathPrefix ==
    ASSUME NEW n \in Node
    PROVE  /\ IsRoot(n) => path[n] = <<n>> /\ Len(path[n]) = 1 /\ path[n][1] = n
           /\ ~ IsRoot(n) =>
                 /\ Parent[n] \in Node
                 /\ Len(path[n]) = Len(path[Parent[n]]) + 1
                 /\ path[n][Len(path[n])] = n
                 /\ \A i \in 1 .. Len(path[Parent[n]]) : path[n][i] = path[Parent[n]][i]
<1>1. path[n] = IF IsRoot(n) THEN <<n>> ELSE Append(path[Parent[n]], n)
    BY PathIs
<1>2. CASE IsRoot(n)
    BY <1>1, <1>2
<1>3. CASE ~ IsRoot(n)
  <2>1. Parent[n] \in Node
      BY <1>3, ParentIs
  <2>2. PICK s \in Seq(Node) : s = path[Parent[n]]
      BY <2>1, PathFacts
  <2>3. /\ path[n] = Append(s, n) /\ Len(Append(s, n)) = Len(s) + 1
        /\ Append(s, n)[Len(s) + 1] = n
        /\ \A i \in 1 .. Len(s) : Append(s, n)[i] = s[i]
      BY <1>1, <1>3, <2>2
  <2>4. QED
      BY <1>3, <2>1, <2>2, <2>3
<1>4. QED
    BY <1>2, <1>3

LEMMA OnPathFacts ==
    ASSUME NEW n \in Node
    PROVE  /\ OnPath(n) \subseteq Node /\ n \in OnPath(n)
           /\ \A i \in 1 .. Len(path[n]) : path[n][i] \in OnPath(n)
           /\ \A i, j \in 1 .. Len(path[n]) : path[n][i] = path[n][j] => i = j
           /\ IsRoot(n) => OnPath(n) = {n}
           /\ ~ IsRoot(n) => /\ OnPath(n) = OnPath(Parent[n]) \cup {n}
                             /\ n \notin OnPath(Parent[n]) /\ Parent[n] # n
                             /\ Parent[n] \in OnPath(n)
<1>1. /\ path[n] \in Seq(Node) /\ DOMAIN path[n] = 1 .. Len(path[n])
      /\ Len(path[n]) \in Nat /\ Len(path[n]) >= 1
      /\ path[n][Len(path[n])] = n
      /\ \A k \in 1 .. Len(path[n]) : Len(path[path[n][k]]) = k
  <2>1. PICK s \in Seq(Node) : s = path[n]
      BY PathFacts
  <2>2. DOMAIN s = 1 .. Len(s)
      OBVIOUS
  <2>3. QED
      BY <2>1, <2>2, PathFacts
<1>2. OnPath(n) \subseteq Node /\ n \in OnPath(n)
  <2>1. \A k \in 1 .. Len(path[n]) : path[n][k] \in Node
      BY <1>1
  <2>2. Len(path[n]) \in 1 .. Len(path[n])
      BY <1>1
  <2>3. QED
      BY <1>1, <2>1, <2>2 DEF OnPath
<1>3. \A i, j \in 1 .. Len(path[n]) : path[n][i] = path[n][j] => i = j
    BY <1>1
<1>4. CASE IsRoot(n)
  <2>1. Len(path[n]) = 1 /\ path[n][1] = n
      BY <1>4, PathPrefix
  <2>2. \A k \in 1 .. Len(path[n]) : k = 1
      BY <2>1
  <2>3. OnPath(n) = {n}
      BY <1>1, <1>2, <2>1, <2>2 DEF OnPath
  <2>4. QED
      BY <1>1, <1>2, <1>3, <1>4, <2>3 DEF OnPath
<1>5. CASE ~ IsRoot(n)
  <2>1. PICK p \in Node : p = Parent[n]
      BY <1>5, ParentIs
  <2>2. /\ Len(path[n]) = Len(path[p]) + 1
        /\ \A i \in 1 .. Len(path[p]) : path[n][i] = path[p][i]
      BY <1>5, <2>1, PathPrefix
  <2>3. PICK s \in Seq(Node) : s = path[p]
      BY PathFacts
  <2>4. DOMAIN path[p] = 1 .. Len(path[p]) /\ Len(path[p]) \in Nat /\ Len(path[p]) >= 1
        /\ path[p][Len(path[p])] = p
    <3>1. DOMAIN s = 1 .. Len(s)
        OBVIOUS
    <3>2. QED
        BY <2>3, <3>1, PathFacts
  <2>5. \A k \in 1 .. Len(path[n]) : k = Len(path[n]) \/ k \in 1 .. Len(path[p])
      BY <2>2, <2>4
  <2>6. \A k \in 1 .. Len(path[p]) : k \in 1 .. Len(path[n]) /\ k # Len(path[n])
      BY <2>2, <2>4
  <2>7. OnPath(n) = OnPath(p) \cup {n}
    <3>1. \A k \in DOMAIN path[n] : path[n][k] \in OnPath(p) \cup {n}
        BY <1>1, <2>2, <2>4, <2>5 DEF OnPath
    <3>2. \A k \in DOMAIN path[p] : path[p][k] \in OnPath(n)
        BY <1>1, <2>2, <2>4, <2>6 DEF OnPath
    <3>3. QED
        BY <1>2, <3>1, <3>2 DEF OnPath
  <2>8. n \notin OnPath(p)
    <3>1. SUFFICES ASSUME NEW k \in 1 .. Len(path[p]), path[p][k] = n
                   PROVE  FALSE
        BY <2>4 DEF OnPath
    <3>2. k \in 1 .. Len(path[n]) /\ path[n][k] = n /\ k # Len(path[n])
        BY <2>2, <2>6, <3>1
    <3>3. Len(path[n]) \in 1 .. Len(path[n])
        BY <1>1
    <3>4. QED
        BY <1>1, <1>3, <3>2, <3>3
  <2>9. p \in OnPath(p)
    <3>1. Len(path[p]) \in 1 .. Len(path[p])
        BY <2>4
    <3>2. QED
        BY <2>4, <3>1 DEF OnPath
  <2>10. p # n /\ p \in OnPath(n)
      BY <2>7, <2>8, <2>9
  <2>11. \A i \in 1 .. Len(path[n]) : path[n][i] \in OnPath(n)
      BY <1>1 DEF OnPath
  <2>12. QED
      BY <1>2, <1>3, <1>5, <2>1, <2>7, <2>8, <2>10, <2>11
<1>6. QED
    BY <1>4, <1>5

-----------------------------------------------------------------------------
(* Induction, for a set of numbers *)

LEMMA NatSetInduction ==
    ASSUME NEW T, 0 \in T, \A n \in Nat : n \in T => n + 1 \in T
    PROVE  Nat \subseteq T
<1> DEFINE R == OpToRel(<, Nat)
           U == Nat \ T
<1>1. SUFFICES ASSUME U # {}
               PROVE  FALSE
    OBVIOUS
<1>2. IsWellFoundedOn(R, Nat)
    BY NatLessThanWellFounded
<1>3. \A x, y \in Nat : y < x => <<y, x>> \in R
    BY DEF OpToRel
<1>4. U \subseteq Nat
    OBVIOUS
<1> HIDE DEF R
<1>5. PICK x \in U : \A y \in U : ~ (<<y, x>> \in R)
  <2> HIDE DEF U
  <2> QED
      BY <1>1, <1>2, <1>4, WFMin
<1>6. x # 0 /\ x - 1 \in Nat /\ x - 1 < x
    BY <1>5
<1>7. x - 1 \in U
    BY <1>5, <1>6
<1>8. QED
    BY <1>3, <1>5, <1>6, <1>7

-----------------------------------------------------------------------------
(* The fold of Update, one level after the other *)

\* What the fold's recursion says of the sets of the first n indices.
Fold(g, base, s, n) ==
    g = [S \in SUBSET (1 .. n) |->
            IF S = {} THEN base ELSE UpdateOne(g[S \ {Max(S)}], s[Max(S)])]

LEMMA MaxIs ==
    ASSUME NEW n \in Nat, NEW S \in SUBSET (1 .. n + 1), n + 1 \in S
    PROVE  Max(S) = n + 1
<1>1. n + 1 \in S /\ \A y \in S : n + 1 >= y
    OBVIOUS
<1>2. \A x \in S : (\A y \in S : x >= y) => x = n + 1
    BY <1>1
<1>3. QED
    BY <1>1, <1>2 DEF Max

LEMMA FoldExists ==
    ASSUME NEW base, NEW s, NEW n \in Nat
    PROVE  \E g : Fold(g, base, s, n)
<1> DEFINE T == {m \in Nat : \E g : Fold(g, base, s, m)}
<1>1. 0 \in T
  <2> DEFINE g == [S \in SUBSET (1 .. 0) |-> base]
  <2>1. 1 .. 0 = {} /\ \A S \in SUBSET (1 .. 0) : S = {}
      OBVIOUS
  <2>2. Fold(g, base, s, 0)
      BY <2>1 DEF Fold
  <2>3. QED
      BY <2>2
<1>2. ASSUME NEW m \in Nat, m \in T
      PROVE  m + 1 \in T
  <2>1. PICK f : Fold(f, base, s, m)
      BY <1>2
  <2> DEFINE g == [S \in SUBSET (1 .. m + 1) |->
                      IF m + 1 \in S THEN UpdateOne(f[S \ {m + 1}], s[m + 1]) ELSE f[S]]
  <2>2. \A S \in SUBSET (1 .. m + 1) : S \ {m + 1} \in SUBSET (1 .. m)
      OBVIOUS
  <2>3. \A S \in SUBSET (1 .. m + 1) : m + 1 \notin S => S \in SUBSET (1 .. m)
      OBVIOUS
  <2>4. ASSUME NEW S \in SUBSET (1 .. m)
        PROVE  g[S] = f[S]
    <3>1. S \in SUBSET (1 .. m + 1) /\ m + 1 \notin S
        OBVIOUS
    <3>2. QED
        BY <3>1
  <2>5. ASSUME NEW S \in SUBSET (1 .. m + 1)
        PROVE  g[S] = IF S = {} THEN base ELSE UpdateOne(g[S \ {Max(S)}], s[Max(S)])
    <3>1. CASE m + 1 \in S
      <4>1. Max(S) = m + 1
          BY <3>1, MaxIs
      <4>2. g[S] = UpdateOne(f[S \ {m + 1}], s[m + 1])
          BY <3>1
      <4>3. g[S \ {m + 1}] = f[S \ {m + 1}]
          BY <2>2, <2>4
      <4> HIDE DEF g
      <4>4. QED
          BY <3>1, <4>1, <4>2, <4>3
    <3>2. CASE m + 1 \notin S
      <4>1. S \in SUBSET (1 .. m)
          BY <2>3, <3>2
      <4>2. f[S] = IF S = {} THEN base ELSE UpdateOne(f[S \ {Max(S)}], s[Max(S)])
          BY <2>1, <4>1 DEF Fold
      <4>3. g[S] = f[S]
          BY <2>4, <4>1
      <4>4. g[S \ {Max(S)}] = f[S \ {Max(S)}]
        <5>1. S \ {Max(S)} \in SUBSET (1 .. m)
            BY <4>1
        <5>2. QED
            BY <2>4, <5>1
      <4> HIDE DEF g
      <4>5. QED
          BY <4>2, <4>3, <4>4
    <3>3. QED
        BY <3>1, <3>2
  <2>6. g = [S \in SUBSET (1 .. m + 1) |-> g[S]]
      OBVIOUS
  <2> HIDE DEF g
  <2>7. Fold(g, base, s, m + 1)
      BY <2>5, <2>6 DEF Fold
  <2>8. QED
      BY <2>7
<1> HIDE DEF T
<1>3. Nat \subseteq T
    BY <1>1, <1>2, NatSetInduction
<1>4. QED
    BY <1>3 DEF T

LEMMA UpdateIs ==
    ASSUME NEW s, NEW n \in Nat, DOMAIN s = 1 .. n
    PROVE  \E h : /\ h[0] = Current
                  /\ \A k \in 1 .. n : h[k] = UpdateOne(h[k - 1], s[k])
                  /\ h[n] = FoldLeft(UpdateOne, Current, s)
<1> DEFINE base == Current
           G == CHOOSE g : Fold(g, base, s, n)
<1>1. FoldLeft(UpdateOne, Current, s) = G[1 .. n]
    BY DEF FoldLeft, MapThenFoldSet, Fold
<1>2. Fold(G, base, s, n)
    BY FoldExists
<1> HIDE DEF G
<1> DEFINE h == [k \in 0 .. n |-> G[1 .. k]]
<1>3. h[0] = base
    BY <1>2 DEF Fold
<1>4. ASSUME NEW k \in 1 .. n
      PROVE  h[k] = UpdateOne(h[k - 1], s[k])
  <2> DEFINE j == k - 1
  <2>a. k \in Nat /\ j \in Nat /\ j + 1 = k /\ j \in 0 .. n /\ k \in 0 .. n
      OBVIOUS
  <2>b. \A i \in 1 .. k : i \in 1 .. n
      OBVIOUS
  <2>c. k \in 1 .. k
      OBVIOUS
  <2>1. 1 .. k \in SUBSET (1 .. n) /\ 1 .. k # {}
      BY <2>b, <2>c
  <2>2. Max(1 .. k) = k
    <3> HIDE DEF j
    <3>1. 1 .. k \in SUBSET (1 .. j + 1) /\ j + 1 \in 1 .. k
        BY <2>a
    <3>2. Max(1 .. k) = j + 1
        BY ONLY <3>1, <2>a, MaxIs
    <3>3. QED
        BY <3>2, <2>a
  <2>3. (1 .. k) \ {k} = 1 .. k - 1
      OBVIOUS
  <2>4. G[1 .. k] = UpdateOne(G[1 .. k - 1], s[k])
      BY <1>2, <2>1, <2>2, <2>3 DEF Fold
  <2>5. QED
      BY <2>a, <2>4
<1>5. h[n] = FoldLeft(UpdateOne, Current, s)
    BY <1>1
<1> HIDE DEF h
<1>6. QED
    BY <1>3, <1>4, <1>5

-----------------------------------------------------------------------------
(* Versions *)

\* The version b is what a becomes by e edits.
Ahead(a, b, e) == b = a + e \/ b = a + e - Modulus

LEMMA AheadFacts ==
    /\ \A a \in Versions : Ahead(a, a, 0)
    /\ \A a, e \in Versions : Ahead(a, a, e) => e = 0
    /\ \A a, b, e \in Versions : Ahead(a, b, e) /\ e + 1 \in Versions =>
           /\ (b + 1) % Modulus \in Versions
           /\ Ahead(a, (b + 1) % Modulus, e + 1)
<1>1. \A a \in Versions : Ahead(a, a, 0)
    BY ModulusAssumption DEF Ahead, Versions
<1>2. \A a, e \in Versions : Ahead(a, a, e) => e = 0
    BY ModulusAssumption DEF Ahead, Versions
<1>3. ASSUME NEW a \in Versions, NEW b \in Versions, NEW e \in Versions,
             Ahead(a, b, e), e + 1 \in Versions
      PROVE  (b + 1) % Modulus \in Versions /\ Ahead(a, (b + 1) % Modulus, e + 1)
  <2>1. b \in 0 .. Modulus - 1
      BY DEF Versions
  <2>2. PICK d : d = (b + 1) % Modulus
      OBVIOUS
  <2>3. d = IF b = Modulus - 1 THEN 0 ELSE b + 1
      BY <2>1, <2>2, ModulusAssumption
  <2>4. d \in Versions /\ Ahead(a, d, e + 1)
      BY <1>3, <2>3, ModulusAssumption DEF Ahead, Versions
  <2>5. QED
      BY <2>2, <2>4
<1>4. QED
    BY <1>1, <1>2, <1>3

-----------------------------------------------------------------------------
(* One level of an update *)

Caches == [world : [Node -> Seq(Local)], world_version : [Node -> Versions],
           parent_version : [Node -> Versions], unseen : [Node -> SUBSET Node]]

\* Node n is as an update of it leaves it.
Fresh(c, n) ==
    /\ c.world_version[n] = local_version[n] /\ n \notin c.unseen[n]
    /\ ~ IsRoot(n) => /\ c.parent_version[n] = local_version[Parent[n]]
                      /\ Parent[n] \notin c.unseen[n]

\* The edits of n and of its parent since n's last update are too few for the
\* counters to come round, and if there were none the node reflects them.
Counted(c, n) ==
    /\ \E e \in 0 .. pending[n] : /\ Ahead(c.world_version[n], local_version[n], e)
                                  /\ e = 0 => n \notin c.unseen[n]
    /\ ~ IsRoot(n) => \E e \in 0 .. pending[n] :
           /\ Ahead(c.parent_version[n], local_version[Parent[n]], e)
           /\ e = 0 => Parent[n] \notin c.unseen[n]

\* What unseen does not excuse, the world transform of n reflects.
Reflects(c, n) ==
    /\ c.unseen[n] \subseteq OnPath(n)
    /\ \/ c.world[n] = <<>> /\ c.unseen[n] = OnPath(n)
       \/ /\ Len(c.world[n]) = Len(path[n])
          /\ \A i \in 1 .. Len(path[n]) :
                path[n][i] \notin c.unseen[n] => c.world[n][i] = local[path[n][i]]

Sound(c) == \A n \in Node : Counted(c, n) /\ Reflects(c, n)

LEMMA CurrentIs ==
    ASSUME TypeOK
    PROVE  /\ Current \in Caches
           /\ Current.world = world /\ Current.world_version = world_version
           /\ Current.parent_version = parent_version /\ Current.unseen = unseen
BY DEF TypeOK, Current, Caches

LEMMA RefreshedIs ==
    ASSUME TypeOK, NEW c \in Caches, NEW n \in Node, Sound(c),
           ~ IsRoot(n) => Fresh(c, Parent[n])
    PROVE  /\ Refreshed(c, n) \in Caches
           /\ \A m \in Node : m # n =>
                 /\ Refreshed(c, n).world[m] = c.world[m]
                 /\ Refreshed(c, n).world_version[m] = c.world_version[m]
                 /\ Refreshed(c, n).parent_version[m] = c.parent_version[m]
                 /\ Refreshed(c, n).unseen[m] = c.unseen[m]
           /\ Fresh(Refreshed(c, n), n)
           /\ Counted(Refreshed(c, n), n)
           /\ Reflects(Refreshed(c, n), n)
<1> DEFINE w == IF IsRoot(n) THEN <<local[n]>> ELSE Append(c.world[Parent[n]], local[n])
           v == IF IsRoot(n) THEN 0 ELSE c.world_version[Parent[n]]
           u == IF IsRoot(n) THEN {} ELSE c.unseen[Parent[n]]
           d == Refreshed(c, n)
<1>0. /\ ~ IsRoot(n) => Parent[n] \in Node /\ Parent[n] # n /\ Parent[n] \in OnPath(n)
      /\ n \in OnPath(n)
    BY ParentIs, OnPathFacts
<1>1. local[n] \in Local /\ local_version[n] \in Versions
    BY DEF TypeOK
<1>2. /\ c.world \in [Node -> Seq(Local)] /\ c.world_version \in [Node -> Versions]
      /\ c.parent_version \in [Node -> Versions] /\ c.unseen \in [Node -> SUBSET Node]
    BY DEF Caches
<1>3. w \in Seq(Local)
  <2>1. CASE IsRoot(n)
    <3>1. <<local[n]>> \in Seq(Local)
        BY <1>1
    <3>2. QED
        BY <2>1, <3>1
  <2>2. CASE ~ IsRoot(n)
    <3>1. PICK s \in Seq(Local) : s = c.world[Parent[n]]
        BY <1>0, <1>2, <2>2
    <3>2. Append(s, local[n]) \in Seq(Local)
        BY <1>1
    <3>3. QED
        BY <2>2, <3>1, <3>2
  <2>3. QED
      BY <2>1, <2>2
<1>4. v \in Versions
    BY <1>0, <1>2, ModulusAssumption DEF Versions
<1>5. u \in SUBSET Node
    BY <1>0, <1>2
<1>6. d = [c EXCEPT !.world[n] = w, !.world_version[n] = local_version[n],
                    !.parent_version[n] = v, !.unseen[n] = u]
    BY DEF Refreshed
<1> HIDE DEF w, v, u, d
<1>7. /\ d.world = [c.world EXCEPT ![n] = w]
      /\ d.world_version = [c.world_version EXCEPT ![n] = local_version[n]]
      /\ d.parent_version = [c.parent_version EXCEPT ![n] = v]
      /\ d.unseen = [c.unseen EXCEPT ![n] = u]
      /\ d = [world |-> d.world, world_version |-> d.world_version,
              parent_version |-> d.parent_version, unseen |-> d.unseen]
    BY <1>6 DEF Caches
<1>8. d \in Caches
  <2>1. d.world \in [Node -> Seq(Local)]
      BY <1>2, <1>3, <1>7
  <2>2. d.world_version \in [Node -> Versions] /\ d.parent_version \in [Node -> Versions]
      BY <1>1, <1>2, <1>4, <1>7
  <2>3. d.unseen \in [Node -> SUBSET Node]
      BY <1>2, <1>5, <1>7
  <2>4. PICK a \in [Node -> Seq(Local)], b \in [Node -> Versions], e \in [Node -> Versions],
             f \in [Node -> SUBSET Node] :
          a = d.world /\ b = d.world_version /\ e = d.parent_version /\ f = d.unseen
      BY <2>1, <2>2, <2>3
  <2>5. [world |-> a, world_version |-> b, parent_version |-> e, unseen |-> f] \in Caches
      BY DEF Caches
  <2>6. d = [world |-> a, world_version |-> b, parent_version |-> e, unseen |-> f]
      BY <1>7, <2>4
  <2>7. QED
      BY <2>5, <2>6
<1>9. \A m \in Node : m # n => /\ d.world[m] = c.world[m]
                               /\ d.world_version[m] = c.world_version[m]
                               /\ d.parent_version[m] = c.parent_version[m]
                               /\ d.unseen[m] = c.unseen[m]
    BY <1>2, <1>7
<1>10. /\ d.world[n] = w /\ d.world_version[n] = local_version[n]
       /\ d.parent_version[n] = v /\ d.unseen[n] = u
    BY <1>2, <1>7
<1>11. ~ IsRoot(n) =>
          /\ c.world_version[Parent[n]] = local_version[Parent[n]]
          /\ Parent[n] \notin c.unseen[Parent[n]]
          /\ c.unseen[Parent[n]] \subseteq OnPath(Parent[n])
          /\ OnPath(n) = OnPath(Parent[n]) \cup {n} /\ n \notin OnPath(Parent[n])
    BY <1>0, OnPathFacts DEF Fresh, Sound, Reflects
<1>12. n \notin u /\ (~ IsRoot(n) => v = local_version[Parent[n]] /\ Parent[n] \notin u)
    BY <1>11 DEF u, v
<1>13. Fresh(d, n)
    BY <1>10, <1>12 DEF Fresh
<1>14. Counted(d, n)
  <2>1. 0 \in 0 .. pending[n]
      BY ModulusAssumption DEF TypeOK, Versions
  <2>2. Ahead(local_version[n], local_version[n], 0)
      BY <1>1, AheadFacts
  <2>3. ~ IsRoot(n) => Ahead(local_version[Parent[n]], local_version[Parent[n]], 0)
      BY <1>0, AheadFacts DEF TypeOK
  <2>4. QED
      BY <1>10, <1>12, <2>1, <2>2, <2>3 DEF Counted
<1>15. Reflects(d, n)
  <2>1. CASE IsRoot(n)
    <3>1. u = {} /\ w = <<local[n]>>
        BY <2>1 DEF u, w
    <3>2. Len(path[n]) = 1 /\ path[n][1] = n
        BY <2>1, PathPrefix
    <3>3. Len(w) = 1 /\ w[1] = local[n]
        BY <3>1
    <3>4. \A i \in 1 .. Len(path[n]) : i = 1
        BY <3>2
    <3>5. QED
        BY <1>10, <3>1, <3>2, <3>3, <3>4 DEF Reflects
  <2>2. CASE ~ IsRoot(n)
    <3>1. PICK p \in Node : p = Parent[n]
        BY <1>0, <2>2
    <3>2. u = c.unseen[p] /\ w = Append(c.world[p], local[n])
        BY <2>2, <3>1 DEF u, w
    <3>3. /\ Len(path[n]) = Len(path[p]) + 1 /\ path[n][Len(path[n])] = n
          /\ \A i \in 1 .. Len(path[p]) : path[n][i] = path[p][i]
          /\ Len(path[p]) \in Nat
        BY <2>2, <3>1, PathPrefix, PathFacts
    <3>4. p \notin c.unseen[p] /\ p \in OnPath(p)
        BY <1>11, <2>2, <3>1, OnPathFacts
    <3>5. /\ Len(c.world[p]) = Len(path[p])
          /\ \A i \in 1 .. Len(path[p]) :
                path[p][i] \notin c.unseen[p] => c.world[p][i] = local[path[p][i]]
        BY <3>4 DEF Sound, Reflects
    <3>6. PICK s \in Seq(Local) : s = c.world[p]
        BY <1>2
    <3>7. /\ Len(w) = Len(s) + 1 /\ w[Len(s) + 1] = local[n]
          /\ \A i \in 1 .. Len(s) : w[i] = s[i]
        BY <1>1, <3>2, <3>6
    <3>8. \A i \in 1 .. Len(path[n]) : i = Len(path[n]) \/ i \in 1 .. Len(path[p])
        BY <3>3
    <3>9. \A i \in 1 .. Len(path[n]) : path[n][i] \notin u => w[i] = local[path[n][i]]
        BY <3>2, <3>3, <3>5, <3>6, <3>7, <3>8
    <3>10. Len(w) = Len(path[n]) /\ u \subseteq OnPath(n)
        BY <1>11, <2>2, <3>1, <3>2, <3>3, <3>5, <3>6, <3>7
    <3>11. QED
        BY <1>10, <3>9, <3>10 DEF Reflects
  <2>3. QED
      BY <2>1, <2>2
<1>16. QED
    BY <1>8, <1>9, <1>13, <1>14, <1>15 DEF d

\* One level: what was in order stays so, and n comes to be fresh.
LEMMA UpdateOneIs ==
    ASSUME TypeOK, NEW c \in Caches, NEW n \in Node, Sound(c),
           ~ IsRoot(n) => Fresh(c, Parent[n])
    PROVE  /\ UpdateOne(c, n) \in Caches /\ Sound(UpdateOne(c, n))
           /\ Fresh(UpdateOne(c, n), n)
           /\ \A m \in Node : Fresh(c, m) => Fresh(UpdateOne(c, n), m)
           /\ \A m \in Node : m # n => UpdateOne(c, n).unseen[m] = c.unseen[m]
<1>0. ~ IsRoot(n) => Parent[n] \in Node
    BY ParentIs
<1>1. CASE Stale(c, n)
  <2>1. PICK d : d = Refreshed(c, n)
      OBVIOUS
  <2>2. /\ d \in Caches /\ Fresh(d, n) /\ Counted(d, n) /\ Reflects(d, n)
        /\ \A m \in Node : m # n => /\ d.world[m] = c.world[m]
                                    /\ d.world_version[m] = c.world_version[m]
                                    /\ d.parent_version[m] = c.parent_version[m]
                                    /\ d.unseen[m] = c.unseen[m]
      BY <2>1, RefreshedIs
  <2>3. \A m \in Node : m # n => Counted(d, m) /\ Reflects(d, m)
      BY <2>2 DEF Sound, Counted, Reflects
  <2>4. \A m \in Node : Fresh(c, m) => Fresh(d, m)
      BY <2>2 DEF Fresh
  <2>5. Sound(d)
      BY <2>2, <2>3 DEF Sound
  <2>6. UpdateOne(c, n) = d
      BY <1>1, <2>1 DEF UpdateOne
  <2>7. QED
      BY <2>2, <2>4, <2>5, <2>6
<1>2. CASE ~ Stale(c, n)
  <2>1. UpdateOne(c, n) = c
      BY <1>2 DEF UpdateOne
  <2>2. /\ local_version[n] = c.world_version[n]
        /\ ~ IsRoot(n) => c.parent_version[n] = c.world_version[Parent[n]]
      BY <1>2 DEF Stale
  <2>3. c.world_version \in [Node -> Versions] /\ c.parent_version \in [Node -> Versions]
      BY DEF Caches
  <2>4. pending[n] \in Versions /\ \A e \in 0 .. pending[n] : e \in Versions
      BY ModulusAssumption DEF TypeOK, Versions
  <2>5. n \notin c.unseen[n]
    <3>1. PICK e \in 0 .. pending[n] : /\ Ahead(c.world_version[n], local_version[n], e)
                                       /\ e = 0 => n \notin c.unseen[n]
        BY DEF Sound, Counted
    <3>2. e = 0
        BY <2>2, <2>3, <2>4, <3>1, AheadFacts
    <3>3. QED
        BY <3>1, <3>2
  <2>6. ASSUME ~ IsRoot(n)
        PROVE  /\ c.parent_version[n] = local_version[Parent[n]]
               /\ Parent[n] \notin c.unseen[n]
    <3>1. c.parent_version[n] = local_version[Parent[n]]
        BY <2>2, <2>6 DEF Fresh
    <3>2. PICK e \in 0 .. pending[n] :
              /\ Ahead(c.parent_version[n], local_version[Parent[n]], e)
              /\ e = 0 => Parent[n] \notin c.unseen[n]
        BY <2>6 DEF Sound, Counted
    <3>3. e = 0
        BY <2>3, <2>4, <3>1, <3>2, AheadFacts
    <3>4. QED
        BY <3>1, <3>2, <3>3
  <2>7. Fresh(c, n)
      BY <2>2, <2>5, <2>6 DEF Fresh
  <2>8. QED
      BY <2>1, <2>7
<1>3. QED
    BY <1>1, <1>2

\* All levels: every node on the path comes to be fresh.
LEMMA UpdateAll ==
    ASSUME TypeOK, Sound(Current), NEW id \in Node
    PROVE  /\ FoldLeft(UpdateOne, Current, path[id]) \in Caches
           /\ Sound(FoldLeft(UpdateOne, Current, path[id]))
           /\ \A n \in OnPath(id) : Fresh(FoldLeft(UpdateOne, Current, path[id]), n)
<1>1. PICK s \in Seq(Node) : s = path[id]
    BY PathFacts
<1>2. PICK n \in Nat : n = Len(s)
    OBVIOUS
<1>3. DOMAIN s = 1 .. n
    BY <1>2
<1>4. PICK h : /\ h[0] = Current
               /\ \A k \in 1 .. n : h[k] = UpdateOne(h[k - 1], s[k])
               /\ h[n] = FoldLeft(UpdateOne, Current, s)
    BY <1>3, UpdateIs
<1>5. /\ \A k \in 1 .. n : s[k] \in Node /\ (k = 1 <=> IsRoot(s[k]))
      /\ \A k \in 1 .. n - 1 : Parent[s[k + 1]] = s[k]
    BY <1>1, <1>2, PathFacts
<1> DEFINE Ok(k) == h[k] \in Caches /\ Sound(h[k]) /\ \A j \in 1 .. k : Fresh(h[k], s[j])
           T == {k \in Nat : k <= n => Ok(k)}
<1>6. 0 \in T
  <2>1. h[0] \in Caches /\ Sound(h[0])
      BY <1>4, CurrentIs
  <2>2. \A j \in 1 .. 0 : FALSE
      OBVIOUS
  <2>3. QED
      BY <2>1, <2>2
<1>7. ASSUME NEW k \in Nat, k \in T
      PROVE  k + 1 \in T
  <2>1. SUFFICES ASSUME k + 1 <= n
                 PROVE  Ok(k + 1)
      OBVIOUS
  <2>2. Ok(k)
      BY <1>7, <2>1
  <2>3. PICK m \in 1 .. n : m = k + 1 /\ m - 1 = k
      BY <2>1
  <2>4. PICK c \in Caches : c = h[k]
      BY <2>2
  <2>5. PICK d : d = UpdateOne(c, s[m])
      OBVIOUS
  <2>6. h[m] = d
    <3>1. h[m] = UpdateOne(h[m - 1], s[m])
        BY <1>4
    <3>2. QED
        BY <2>3, <2>4, <2>5, <3>1
  <2>7. \A j \in 1 .. k : j \in 1 .. n
      BY <2>1
  <2>8. ~ IsRoot(s[m]) => Fresh(c, Parent[s[m]])
    <3>1. SUFFICES ASSUME ~ IsRoot(s[m])
                   PROVE  Fresh(c, Parent[s[m]])
        OBVIOUS
    <3>2. m # 1
        BY <1>5, <3>1
    <3>3. k \in 1 .. n - 1 /\ k \in 1 .. k
        BY <2>1, <2>3, <3>2
    <3>4. Parent[s[m]] = s[k]
        BY <1>5, <2>3, <3>3
    <3>5. QED
        BY <2>2, <2>4, <3>3, <3>4
  <2>9. /\ d \in Caches /\ Sound(d) /\ Fresh(d, s[m])
        /\ \A r \in Node : Fresh(c, r) => Fresh(d, r)
      BY <1>5, <2>2, <2>4, <2>5, <2>8, UpdateOneIs
  <2>10. \A j \in 1 .. m : j = m \/ j \in 1 .. k
      BY <2>3
  <2>11. \A j \in 1 .. m : Fresh(d, s[j])
      BY <1>5, <2>2, <2>4, <2>7, <2>9, <2>10
  <2>12. QED
      BY <2>3, <2>6, <2>9, <2>11
<1>8. Ok(n)
  <2>1. Nat \subseteq T
    <3> HIDE DEF T
    <3> QED
        BY <1>6, <1>7, NatSetInduction
  <2>2. n \in T /\ n <= n
      BY <2>1
  <2> HIDE DEF Ok
  <2>3. QED
      BY <2>2
<1>9. \A m \in OnPath(id) : \E j \in 1 .. n : m = s[j]
    BY <1>1, <1>3 DEF OnPath
<1>10. QED
    BY <1>1, <1>4, <1>8, <1>9

-----------------------------------------------------------------------------
(* The invariant *)

LastInv == last # NoParent => \A n \in OnPath(last) : Fresh(Current, n)

CacheInv == TypeOK /\ Sound(Current) /\ LastInv

LEMMA CacheInit == Init => CacheInv
<1> SUFFICES ASSUME Init
             PROVE  CacheInv
    OBVIOUS
<1>1. 0 \in Versions /\ 1 \in Versions
    BY ModulusAssumption DEF Versions
<1>2. TypeOK
  <2>1. world \in [Node -> Seq(Local)]
      BY DEF Init
  <2>2. unseen \in [Node -> SUBSET Node]
      BY OnPathFacts DEF Init
  <2>3. QED
      BY <1>1, <2>1, <2>2 DEF Init, TypeOK
<1>3. ASSUME NEW n \in Node
      PROVE  Counted(Current, n) /\ Reflects(Current, n)
  <2>1. ~ IsRoot(n) => Parent[n] \in Node
      BY ParentIs
  <2>2. /\ Current.world[n] = <<>> /\ Current.unseen[n] = OnPath(n)
        /\ Current.world_version[n] = 0 /\ Current.parent_version[n] = 0
        /\ local_version[n] = 1 /\ pending[n] = 1
        /\ ~ IsRoot(n) => local_version[Parent[n]] = 1
      BY <1>2, <2>1, CurrentIs DEF Init
  <2>3. Ahead(0, 1, 1) /\ 1 \in 0 .. 1 /\ 1 # 0
      BY DEF Ahead
  <2>4. Counted(Current, n)
      BY <2>2, <2>3 DEF Counted
  <2>5. Reflects(Current, n)
      BY <2>2 DEF Reflects
  <2>6. QED
      BY <2>4, <2>5
<1>4. LastInv
    BY DEF Init, LastInv
<1>5. QED
    BY <1>2, <1>3, <1>4 DEF CacheInv, Sound

LEMMA UpdateKeeps ==
    ASSUME CacheInv, NEW id \in Node, Update(id)
    PROVE  CacheInv'
<1>1. PICK c : c = FoldLeft(UpdateOne, Current, path[id])
    OBVIOUS
<1>2. c \in Caches /\ Sound(c) /\ \A n \in OnPath(id) : Fresh(c, n)
    BY <1>1, UpdateAll DEF CacheInv
<1>3. /\ world' = c.world /\ world_version' = c.world_version
      /\ parent_version' = c.parent_version /\ unseen' = c.unseen
      /\ last' = id
      /\ pending' = [n \in Node |-> IF n \in OnPath(id) THEN 0 ELSE pending[n]]
      /\ UNCHANGED <<local, local_version>>
    BY <1>1 DEF Update
<1>4. /\ Current'.world = c.world /\ Current'.world_version = c.world_version
      /\ Current'.parent_version = c.parent_version /\ Current'.unseen = c.unseen
    BY <1>3 DEF Current
<1>5. pending' \in [Node -> Versions]
  <2>1. 0 \in Versions /\ \A n \in Node : pending[n] \in Versions
      BY ModulusAssumption DEF CacheInv, TypeOK, Versions
  <2>2. QED
      BY <1>3, <2>1
<1>6. TypeOK'
    BY <1>2, <1>3, <1>5 DEF CacheInv, TypeOK, Caches
<1>7. ASSUME NEW n \in Node
      PROVE  (Counted(Current, n) /\ Reflects(Current, n))'
  <2>1. Counted(c, n) /\ Reflects(c, n)
      BY <1>2 DEF Sound
  <2>2. Reflects(Current, n)'
      BY <1>3, <1>4, <2>1 DEF Reflects
  <2>3. CASE n \in OnPath(id)
    <3>1. Fresh(c, n)
        BY <1>2, <2>3
    <3>2. pending'[n] = 0 /\ 0 \in 0 .. 0
        BY <1>3, <2>3
    <3>3. local_version[n] \in Versions
          /\ (~ IsRoot(n) => local_version[Parent[n]] \in Versions)
        BY ParentIs DEF CacheInv, TypeOK
    <3>4. /\ Ahead(local_version[n], local_version[n], 0)
          /\ ~ IsRoot(n) => Ahead(local_version[Parent[n]], local_version[Parent[n]], 0)
        BY <3>3, AheadFacts
    <3>5. Counted(Current, n)'
        BY <1>3, <1>4, <3>1, <3>2, <3>4 DEF Fresh, Counted
    <3>6. QED
        BY <2>2, <3>5
  <2>4. CASE n \notin OnPath(id)
    <3>1. pending'[n] = pending[n]
        BY <1>3, <2>4
    <3>2. Counted(Current, n)'
        BY <1>3, <1>4, <2>1, <3>1 DEF Counted
    <3>3. QED
        BY <2>2, <3>2
  <2>5. QED
      BY <2>3, <2>4
<1>8. LastInv'
    BY <1>2, <1>3, <1>4 DEF LastInv, Fresh
<1>9. QED
    BY <1>6, <1>7, <1>8 DEF CacheInv, Sound

LEMMA EditKeeps ==
    ASSUME CacheInv, NEW n \in Node, NEW v \in Local, SetLocal(n, v)
    PROVE  CacheInv'
<1> DEFINE affected == {m \in Node : m = n \/ Parent[m] = n}
<1>1. /\ \A m \in affected : pending[m] < Modulus - 1
      /\ local' = [local EXCEPT ![n] = v]
      /\ local_version' = [local_version EXCEPT ![n] = (@ + 1) % Modulus]
      /\ pending' = [m \in Node |-> IF m \in affected THEN pending[m] + 1 ELSE pending[m]]
      /\ unseen' = [m \in Node |-> IF n \in OnPath(m) THEN unseen[m] \cup {n} ELSE unseen[m]]
      /\ last' = NoParent
      /\ UNCHANGED <<world, world_version, parent_version>>
    BY DEF SetLocal, cache
<1>2. /\ local_version \in [Node -> Versions] /\ pending \in [Node -> Versions]
      /\ world_version \in [Node -> Versions] /\ parent_version \in [Node -> Versions]
      /\ unseen \in [Node -> SUBSET Node] /\ local \in [Node -> Local]
    BY DEF CacheInv, TypeOK
<1>3. PICK lv : lv = (local_version[n] + 1) % Modulus
    OBVIOUS
<1>4. lv \in Versions
  <2>1. PICK b \in 0 .. Modulus - 1 : b = local_version[n]
      BY <1>2 DEF Versions
  <2>2. (b + 1) % Modulus \in 0 .. Modulus - 1
      BY ModulusAssumption
  <2>3. QED
      BY <1>3, <2>1, <2>2 DEF Versions
<1>5. \A m \in affected : pending[m] + 1 \in Versions
    BY <1>1, <1>2, ModulusAssumption DEF Versions
<1>6. TypeOK'
  <2>1. local_version' \in [Node -> Versions]
      BY <1>1, <1>2, <1>3, <1>4
  <2>2. pending' \in [Node -> Versions]
    <3> HIDE DEF affected
    <3> QED
        BY <1>1, <1>2, <1>5
  <2>3. unseen' \in [Node -> SUBSET Node]
      BY <1>1, <1>2
  <2>4. local' \in [Node -> Local]
      BY <1>1, <1>2
  <2>5. QED
      BY <1>1, <2>1, <2>2, <2>3, <2>4 DEF CacheInv, TypeOK
<1>7. /\ Current.world = world /\ Current.world_version = world_version
      /\ Current.parent_version = parent_version /\ Current.unseen = unseen
      /\ Current'.world = world /\ Current'.world_version = world_version
      /\ Current'.parent_version = parent_version /\ Current'.unseen = unseen'
    BY <1>1 DEF Current
<1>8. /\ local_version'[n] = lv
      /\ \A m \in Node : m # n => local_version'[m] = local_version[m]
    BY <1>1, <1>2, <1>3
<1>9. ASSUME NEW m \in Node
      PROVE  Counted(Current, m)'
  <2>1. PICK e \in 0 .. pending[m] : /\ Ahead(world_version[m], local_version[m], e)
                                     /\ e = 0 => m \notin unseen[m]
      BY <1>7 DEF CacheInv, Sound, Counted
  <2>2. \A i \in 0 .. pending[m] : i \in Versions
      BY <1>2, ModulusAssumption DEF Versions
  <2>3. \A i \in 0 .. pending[m] : i \in Nat /\ i + 1 # 0
                                   /\ (m \in affected => i \in 0 .. pending[m] + 1
                                                         /\ i + 1 \in 0 .. pending[m] + 1)
      BY <1>2 DEF Versions
  <2>4. \A i \in 0 .. pending[m] : i \in 0 .. pending'[m]
                                   /\ (m \in affected => i + 1 \in 0 .. pending'[m])
      BY <1>1, <2>3
  <2>5. m \in affected => \A i \in 0 .. pending[m] : i + 1 \in Versions
      BY <1>2, <1>5, <2>2, ModulusAssumption DEF Versions
  <2>6. \A k \in Node : k # n => (k \in unseen'[m] <=> k \in unseen[m])
      BY <1>1, <1>2
  <2>7. \E i \in 0 .. pending'[m] : /\ Ahead(world_version[m], local_version'[m], i)
                                    /\ i = 0 => m \notin unseen'[m]
    <3>1. CASE m = n
      <4>1. e + 1 \in 0 .. pending'[m] /\ e + 1 # 0 /\ e \in Versions /\ e + 1 \in Versions
          BY <2>2, <2>3, <2>4, <2>5, <3>1
      <4>2. Ahead(world_version[m], lv, e + 1)
          BY <1>2, <1>3, <2>1, <3>1, <4>1, AheadFacts
      <4>3. QED
          BY <1>8, <3>1, <4>1, <4>2
    <3>2. CASE m # n
        BY <1>8, <2>1, <2>4, <2>6, <3>2
    <3>3. QED
        BY <3>1, <3>2
  <2>8. ASSUME ~ IsRoot(m)
        PROVE  \E i \in 0 .. pending'[m] :
                  /\ Ahead(parent_version[m], local_version'[Parent[m]], i)
                  /\ i = 0 => Parent[m] \notin unseen'[m]
    <3>1. PICK p \in Node : p = Parent[m]
        BY <2>8, ParentIs
    <3>2. PICK i \in 0 .. pending[m] : /\ Ahead(parent_version[m], local_version[p], i)
                                       /\ i = 0 => p \notin unseen[m]
        BY <1>7, <2>8, <3>1 DEF CacheInv, Sound, Counted
    <3>3. CASE p = n
      <4>1. i + 1 \in 0 .. pending'[m] /\ i + 1 # 0 /\ i \in Versions /\ i + 1 \in Versions
          BY <2>2, <2>3, <2>4, <2>5, <3>1, <3>3
      <4>2. Ahead(parent_version[m], lv, i + 1)
          BY <1>2, <1>3, <3>2, <3>3, <4>1, AheadFacts
      <4>3. QED
          BY <1>8, <3>1, <3>3, <4>1, <4>2
    <3>4. CASE p # n
        BY <1>8, <2>4, <2>6, <3>1, <3>2, <3>4
    <3>5. QED
        BY <3>3, <3>4
  <2>9. QED
      BY <1>1, <1>7, <2>7, <2>8 DEF Counted
<1>10. ASSUME NEW m \in Node
       PROVE  Reflects(Current, m)'
  <2>1. /\ unseen[m] \subseteq OnPath(m)
        /\ \/ world[m] = <<>> /\ unseen[m] = OnPath(m)
           \/ /\ Len(world[m]) = Len(path[m])
              /\ \A i \in 1 .. Len(path[m]) :
                    path[m][i] \notin unseen[m] => world[m][i] = local[path[m][i]]
      BY <1>7 DEF CacheInv, Sound, Reflects
  <2>2. unseen'[m] = IF n \in OnPath(m) THEN unseen[m] \cup {n} ELSE unseen[m]
      BY <1>1
  <2>3. \A i \in 1 .. Len(path[m]) : path[m][i] \in OnPath(m) /\ path[m][i] \in Node
      BY OnPathFacts
  <2>4. \A k \in Node : k # n => local'[k] = local[k]
      BY <1>1, <1>2
  <2>5. \A k \in OnPath(m) : k \notin unseen'[m] => k # n /\ k \notin unseen[m]
      BY <2>2
  <2>6. unseen'[m] \subseteq OnPath(m) /\ (unseen[m] = OnPath(m) => unseen'[m] = OnPath(m))
      BY <2>1, <2>2
  <2>7. (\A i \in 1 .. Len(path[m]) :
            path[m][i] \notin unseen[m] => world[m][i] = local[path[m][i]])
        => \A i \in 1 .. Len(path[m]) :
              path[m][i] \notin unseen'[m] => world[m][i] = local'[path[m][i]]
      BY <2>3, <2>4, <2>5
  <2>8. \/ world[m] = <<>> /\ unseen'[m] = OnPath(m)
        \/ /\ Len(world[m]) = Len(path[m])
           /\ \A i \in 1 .. Len(path[m]) :
                 path[m][i] \notin unseen'[m] => world[m][i] = local'[path[m][i]]
      BY <2>1, <2>6, <2>7
  <2>9. QED
      BY <1>7, <2>6, <2>8 DEF Reflects
<1>11. LastInv'
    BY <1>1 DEF LastInv
<1>12. QED
    BY <1>6, <1>9, <1>10, <1>11 DEF CacheInv, Sound

LEMMA StutterKeeps ==
    ASSUME CacheInv, UNCHANGED vars
    PROVE  CacheInv'
BY DEF CacheInv, TypeOK, Sound, LastInv, Counted, Reflects, Fresh, Current, vars, cache

\* Every node's counters are within one turn of the edits they count, and its world
\* transform reflects every local on its path that unseen does not name.
THEOREM CacheInvariant == Spec => []CacheInv
<1>1. CacheInv /\ [Next]_vars => CacheInv'
    BY UpdateKeeps, EditKeeps, StutterKeeps DEF Next
<1>2. QED
    BY <1>1, CacheInit, PTL DEF Spec

\* Types.
THEOREM TypeCorrect == Spec => []TypeOK
<1>1. CacheInv => TypeOK
    BY DEF CacheInv
<1>2. QED
    BY <1>1, CacheInvariant, PTL

-----------------------------------------------------------------------------
(* What an update ensures *)

LEMMA SeenIsComposed ==
    ASSUME CacheInv, NEW n \in Node, unseen[n] = {}
    PROVE  world[n] = Composed(n)
<1>1. Reflects(Current, n) /\ Current.world = world /\ Current.unseen = unseen
    BY CurrentIs DEF CacheInv, Sound
<1>2. n \in OnPath(n)
    BY OnPathFacts
<1>3. /\ Len(world[n]) = Len(path[n])
      /\ \A i \in 1 .. Len(path[n]) : world[n][i] = local[path[n][i]]
    BY <1>1, <1>2 DEF Reflects
<1>4. PICK w \in Seq(Local) : w = world[n]
    BY DEF CacheInv, TypeOK
<1>5. PICK s \in Seq(Node) : s = path[n]
    BY PathFacts
<1>6. DOMAIN s = 1 .. Len(s) /\ w = [i \in 1 .. Len(w) |-> w[i]]
    OBVIOUS
<1>7. Composed(n) = [i \in 1 .. Len(s) |-> local[s[i]]]
    BY <1>5, <1>6 DEF Composed
<1>8. QED
    BY <1>3, <1>4, <1>5, <1>6, <1>7

\* On the first two levels nothing is above the parent.
LEMMA TwoLevels ==
    ASSUME CacheInv, NEW n \in Node, Len(path[n]) <= 2, n \notin unseen[n],
           ~ IsRoot(n) => Parent[n] \notin unseen[n]
    PROVE  world[n] = Composed(n)
<1>1. unseen[n] \subseteq OnPath(n)
    BY CurrentIs DEF CacheInv, Sound, Reflects
<1>2. CASE IsRoot(n)
  <2>1. OnPath(n) = {n}
      BY <1>2, OnPathFacts
  <2>2. QED
      BY <1>1, <2>1, SeenIsComposed
<1>3. CASE ~ IsRoot(n)
  <2>1. PICK p \in Node : p = Parent[n]
      BY <1>3, ParentIs
  <2>2. Len(path[n]) = Len(path[p]) + 1
      BY <1>3, <2>1, PathPrefix
  <2>3. PICK s \in Seq(Node) : s = path[p]
      BY PathFacts
  <2>4. Len(s) = 1
    <3>1. Len(s) \in Nat /\ Len(s) >= 1
        BY <2>3, PathFacts
    <3>2. PICK l \in Nat : l = Len(s)
        BY <3>1
    <3>3. l >= 1 /\ l + 1 <= 2
        BY <2>2, <2>3, <3>1, <3>2
    <3>4. \A k \in Nat : k >= 1 /\ k + 1 <= 2 => k = 1
        OBVIOUS
    <3>5. QED
        BY <3>2, <3>3, <3>4
  <2>5. s[1] = p
      BY <2>3, <2>4, PathFacts
  <2>6. DOMAIN s = {1}
      BY <2>4
  <2>7. OnPath(p) = {p}
      BY <2>3, <2>5, <2>6 DEF OnPath
  <2>8. OnPath(n) = {p, n}
      BY <1>3, <2>1, <2>7, OnPathFacts
  <2>9. unseen[n] = {}
      BY <1>1, <1>3, <2>1, <2>8
  <2>10. QED
      BY <2>9, SeenIsComposed
<1>4. QED
    BY <1>2, <1>3

\* A node of the first two levels without a pending update is exact.
LEMMA NothingPending ==
    ASSUME CacheInv, NEW n \in Node, Len(path[n]) <= 2, pending[n] = 0
    PROVE  world[n] = Composed(n)
<1>1. /\ \E e \in 0 .. 0 : e = 0 => n \notin unseen[n]
      /\ ~ IsRoot(n) => \E e \in 0 .. 0 : e = 0 => Parent[n] \notin unseen[n]
    BY CurrentIs DEF CacheInv, Sound, Counted
<1>2. \A e \in 0 .. 0 : e = 0
    OBVIOUS
<1>3. QED
    BY <1>1, <1>2, TwoLevels

LEMMA LastIs ==
    ASSUME CacheInv, last # NoParent
    PROVE  /\ last \in Node
           /\ \A n \in OnPath(last) : Fresh(Current, n)
           /\ Fresh(Current, last)
           /\ last \notin unseen[last]
           /\ ~ IsRoot(last) => Parent[last] \notin unseen[last]
<1>1. last \in Node
    BY DEF CacheInv, TypeOK
<1>2. last \in OnPath(last)
    BY <1>1, OnPathFacts
<1>3. \A n \in OnPath(last) : Fresh(Current, n)
    BY DEF CacheInv, LastInv
<1>4. QED
    BY <1>1, <1>2, <1>3, CurrentIs DEF CacheInv, Fresh

\* An update leaves the world transform of a root or of a child of a root equal to
\* the product of the locals on its path, whatever came before and in which order,
\* with counters of any width.
THEOREM UpdateEnsuresRootsAndChildren == Spec => []UpdateEnsuresTwoLevels
<1>1. CacheInv => UpdateEnsuresTwoLevels
    BY LastIs, TwoLevels DEF UpdateEnsuresTwoLevels
<1>2. QED
    BY <1>1, CacheInvariant, PTL

\* What an update can miss, on any level, is an edit above the node's parent.
THEOREM OnlyEditsFromAboveAreMissed == Spec => []MissesOnlyFromAbove
<1>1. CacheInv => MissesOnlyFromAbove
  <2> SUFFICES ASSUME CacheInv, last # NoParent
               PROVE  /\ unseen[last] = {} => world[last] = Composed(last)
                      /\ \A m \in unseen[last] : m # last /\ m # Parent[last]
      BY DEF MissesOnlyFromAbove
  <2>1. unseen[last] \subseteq Node /\ last \in Node
      BY DEF CacheInv, TypeOK
  <2>2. IsRoot(last) => Parent[last] \notin Node
      BY <2>1, ParentIs
  <2>3. QED
      BY <2>1, <2>2, LastIs, SeenIsComposed
<1>2. QED
    BY <1>1, CacheInvariant, PTL

\* An update leaves no node on its path stale, so a second one changes nothing.
THEOREM UpdatesSettle == Spec => []UpdateSettles
<1>1. CacheInv => UpdateSettles
  <2> SUFFICES ASSUME CacheInv, last # NoParent, NEW n \in OnPath(last)
               PROVE  ~ Stale(Current, n)
      BY DEF UpdateSettles
  <2>1. last \in Node /\ \A m \in OnPath(last) : Fresh(Current, m)
      BY LastIs
  <2>2. n \in Node
      BY <2>1, OnPathFacts
  <2>3. ~ IsRoot(n) => Parent[n] \in OnPath(last)
    <3>1. SUFFICES ASSUME ~ IsRoot(n)
                   PROVE  Parent[n] \in OnPath(last)
        OBVIOUS
    <3>2. PICK s \in Seq(Node) : s = path[last]
        BY <2>1, PathFacts
    <3>3. PICK k \in 1 .. Len(s) : s[k] = n
        BY <3>2 DEF OnPath
    <3>4. k # 1
        BY <2>1, <3>1, <3>2, <3>3, PathFacts
    <3>5. PICK j \in 1 .. Len(s) - 1 : k = j + 1 /\ j \in 1 .. Len(s)
      <4>1. k - 1 \in 1 .. Len(s) - 1 /\ k = (k - 1) + 1 /\ k - 1 \in 1 .. Len(s)
          BY <3>4
      <4>2. QED
          BY <4>1
    <3>6. Parent[n] = s[j]
        BY <2>1, <3>2, <3>3, <3>5, PathFacts
    <3>7. QED
        BY <2>1, <3>2, <3>5, <3>6, OnPathFacts
  <2>4. QED
      BY <2>1, <2>3 DEF Fresh, Stale
<1>2. QED
    BY <1>1, CacheInvariant, PTL

-----------------------------------------------------------------------------
(* The frame *)

\* A frame never changes the cache: to the nodes, its steps are no steps.
THEOREM FramesKeepTheScene == FrameSpec => Spec
<1>1. FrameInit => Init
    BY DEF FrameInit
<1>2. [FrameNext]_frameVars => [Next]_vars
    BY DEF FrameNext, Bake, BakeRoots, Cull, Classify, Sort, Bin, EndFrame, frameVars
<1>3. QED
    BY <1>1, <1>2, PTL DEF FrameSpec, Spec

\* From the bake to the end of the frame every object that found room holds what its
\* node's cache holds.
BakeInv ==
    /\ stage = "edit" => objects = <<>>
    /\ \A i \in DOMAIN objects :
          i <= ObjectRoom => /\ objects[i].scene_node \in Node
                             /\ objects[i].world = world[objects[i].scene_node]

\* The nodes are finitely many, so that the roots can be listed.
LEMMA ListedNodes ==
    ASSUME NEW R \in SUBSET Node
    PROVE  \A i \in DOMAIN SetToSeq(R) : SetToSeq(R)[i] \in Node
<1>1. IsFiniteSet(R)
    BY SceneAssumption, FS_Subset
<1>2. PICK f : f \in Bijection(1 .. Cardinality(R), R)
    BY <1>1, FS_CardinalityType DEF ExistsBijection
<1>3. f \in [1 .. Cardinality(R) -> R] /\ \A a, b \in DOMAIN f : f[a] = f[b] => a = b
    BY <1>2 DEF Bijection, Injection, IsInjective
<1>4. SetToSeq(R) \in [1 .. Cardinality(R) -> R]
    BY <1>3 DEF SetToSeq, IsInjective
<1>5. QED
    BY <1>4

LEMMA BakeInvNext ==
    ASSUME BakeInv, [FrameNext]_frameVars
    PROVE  BakeInv'
<1>1. CASE stage = "edit" /\ Next /\ UNCHANGED <<stage, frame>>
  <2>1. objects' = <<>> /\ stage' = "edit" /\ DOMAIN <<>> = {}
      BY <1>1 DEF BakeInv, frame
  <2>2. QED
      BY <2>1 DEF BakeInv
<1>2. CASE Bake
  <2>1. stage' = "baked" /\ world' = world
      BY <1>2 DEF Bake, vars, cache
  <2>2. PICK behind : objects' = [i \in DOMAIN Object |->
                                     IF i > ObjectRoom THEN behind[i] ELSE Baked(Object[i])]
      BY <1>2 DEF Bake
  <2>3. \A i \in DOMAIN Object : Object[i] \in Node /\ i \in Nat
      BY SceneAssumption
  <2>4. ObjectRoom \in Nat
      BY SceneAssumption
  <2>5. ASSUME NEW i \in DOMAIN objects', i <= ObjectRoom
        PROVE  objects'[i].scene_node \in Node /\ objects'[i].world = world[objects'[i].scene_node]
    <3>1. i \in DOMAIN Object /\ ~ (i > ObjectRoom)
        BY <2>2, <2>3, <2>4, <2>5
    <3>2. objects'[i] = Baked(Object[i])
        BY <2>2, <3>1
    <3>3. QED
        BY <2>3, <3>1, <3>2 DEF Baked
  <2>6. QED
      BY <2>1, <2>5 DEF BakeInv
<1>3. CASE BakeRoots
  <2> DEFINE R == {n \in Node : IsRoot(n)}
  <2>1. PICK r : r = SetToSeq(R)
      OBVIOUS
  <2>2. /\ objects' = [i \in {j \in DOMAIN r : j <= ObjectRoom} |-> Baked(r[i])]
        /\ stage' = "rootsBaked" /\ world' = world
      BY <1>3, <2>1 DEF BakeRoots, vars, cache
  <2>3. \A i \in DOMAIN r : r[i] \in Node
      BY <2>1, ListedNodes
  <2>4. \A i \in DOMAIN objects' : /\ i \in DOMAIN r
                                   /\ objects'[i].scene_node = r[i]
                                   /\ objects'[i].world = world[r[i]]
      BY <2>2 DEF Baked
  <2>5. QED
      BY <2>2, <2>3, <2>4 DEF BakeInv
<1>4. CASE Cull \/ Classify \/ Sort \/ Bin
  <2>1. /\ stage # "edit" /\ stage' # "edit"
        /\ UNCHANGED <<objects, world>>
      BY <1>4 DEF Cull, Classify, Sort, Bin, vars, cache
  <2>2. QED
      BY <2>1 DEF BakeInv
<1>5. CASE EndFrame
  <2>1. objects' = <<>> /\ stage' = "edit" /\ DOMAIN <<>> = {}
      BY <1>5 DEF EndFrame
  <2>2. QED
      BY <2>1 DEF BakeInv
<1>6. CASE UNCHANGED frameVars
    BY <1>6 DEF frameVars, frame, vars, cache, BakeInv
<1>7. QED
    BY <1>1, <1>2, <1>3, <1>4, <1>5, <1>6 DEF FrameNext

\* Until the frame is over, what was baked of a node of the first two levels for
\* which no edit waits is where the node is.
THEOREM BakesAreTrue == FrameSpec => []BakedIsTrue
<1>1. FrameInit => BakeInv
  <2>1. DOMAIN <<>> = {}
      OBVIOUS
  <2>2. QED
      BY <2>1 DEF FrameInit, BakeInv
<1>2. FrameSpec => []BakeInv
    BY <1>1, BakeInvNext, PTL DEF FrameSpec
<1>3. CacheInv /\ BakeInv => BakedIsTrue
  <2> SUFFICES ASSUME CacheInv, BakeInv, NEW i \in DOMAIN objects, i <= ObjectRoom,
                      pending[objects[i].scene_node] = 0,
                      Len(path[objects[i].scene_node]) <= 2
               PROVE  objects[i].world = Composed(objects[i].scene_node)
      BY DEF BakedIsTrue
  <2>1. PICK n \in Node : n = objects[i].scene_node
      BY DEF BakeInv
  <2>2. objects[i].world = world[n]
      BY <2>1 DEF BakeInv
  <2>3. world[n] = Composed(n)
      BY <2>1, NothingPending
  <2>4. QED
      BY <2>1, <2>2, <2>3
<1>4. QED
    BY <1>2, <1>3, FramesKeepTheScene, CacheInvariant, PTL

-----------------------------------------------------------------------------
(* Ranks: an order of a finite set counts its elements off. *)

Lower(i, S, R) == {j \in S : <<j, i>> \in R}
Rank(i, S, R) == Cardinality(Lower(i, S, R))

LEMMA RankFacts ==
    ASSUME NEW S, IsFiniteSet(S), NEW R,
           \A i \in S : <<i, i>> \notin R,
           \A i, j, k \in S : <<i, j>> \in R /\ <<j, k>> \in R => <<i, k>> \in R,
           \A i, j \in S : i # j => <<i, j>> \in R \/ <<j, i>> \in R
    PROVE  /\ Cardinality(S) \in Nat
           /\ \A i \in S : Rank(i, S, R) \in 0 .. Cardinality(S) - 1
           /\ \A i, j \in S : <<i, j>> \in R <=> Rank(i, S, R) < Rank(j, S, R)
           /\ \A i, j \in S : Rank(i, S, R) = Rank(j, S, R) => i = j
           /\ \A k \in 0 .. Cardinality(S) - 1 : \E i \in S : Rank(i, S, R) = k
<1> DEFINE n == Cardinality(S)
<1>1. n \in Nat
    BY FS_CardinalityType
<1>2. ASSUME NEW T \in SUBSET S, NEW x \in T, NEW U \in SUBSET T, x \notin U
      PROVE  Cardinality(U) \in Nat /\ Cardinality(T) \in Nat
             /\ Cardinality(U) < Cardinality(T)
  <2>1. IsFiniteSet(T) /\ IsFiniteSet(U) /\ U # T
      BY <1>2, FS_Subset
  <2>2. Cardinality(U) \in Nat /\ Cardinality(T) \in Nat
      BY <2>1, FS_CardinalityType
  <2>3. Cardinality(U) <= Cardinality(T) /\ Cardinality(T) # Cardinality(U)
      BY <2>1, FS_Subset
  <2>4. QED
      BY <2>2, <2>3
<1>3. ASSUME NEW i \in S
      PROVE  Rank(i, S, R) \in Nat /\ Rank(i, S, R) < n
  <2>1. Lower(i, S, R) \in SUBSET S /\ i \notin Lower(i, S, R)
      BY DEF Lower
  <2>2. QED
      BY <1>2, <2>1 DEF Rank
<1>4. ASSUME NEW i \in S, NEW j \in S, <<i, j>> \in R
      PROVE  Rank(i, S, R) < Rank(j, S, R)
  <2>1. /\ Lower(j, S, R) \in SUBSET S /\ i \in Lower(j, S, R)
        /\ Lower(i, S, R) \in SUBSET Lower(j, S, R) /\ i \notin Lower(i, S, R)
      BY <1>4 DEF Lower
  <2>2. QED
      BY <1>2, <2>1 DEF Rank
<1>5. \A i, j \in S : Rank(i, S, R) = Rank(j, S, R) => i = j
  <2>1. SUFFICES ASSUME NEW i \in S, NEW j \in S, Rank(i, S, R) = Rank(j, S, R), i # j
                 PROVE  FALSE
      OBVIOUS
  <2>2. Rank(i, S, R) < Rank(j, S, R) \/ Rank(j, S, R) < Rank(i, S, R)
      BY <1>4, <2>1
  <2>3. QED
      BY <1>3, <2>1, <2>2
<1>6. \A i, j \in S : <<i, j>> \in R <=> Rank(i, S, R) < Rank(j, S, R)
  <2>1. SUFFICES ASSUME NEW i \in S, NEW j \in S, Rank(i, S, R) < Rank(j, S, R)
                 PROVE  <<i, j>> \in R
      BY <1>4
  <2>2. i # j /\ ~ (<<j, i>> \in R)
      BY <1>3, <1>4, <2>1
  <2>3. QED
      BY <2>2
<1>7. \A k \in 0 .. n - 1 : \E i \in S : Rank(i, S, R) = k
  <2> DEFINE f == [i \in S |-> Rank(i, S, R)]
  <2>1. \A i \in S : Rank(i, S, R) \in 0 .. n - 1
      BY <1>1, <1>3
  <2>2. f \in Injection(S, 0 .. n - 1)
      BY <1>5, <2>1 DEF Injection, IsInjective
  <2>3. IsFiniteSet(0 .. n - 1) /\ Cardinality(0 .. n - 1) = n
    <3>1. n - 1 \in Int /\ (0 > n - 1 <=> n = 0) /\ (n - 1) - 0 + 1 = n
        BY <1>1
    <3>2. QED
        BY <1>1, <3>1, FS_Interval
  <2> HIDE DEF f
  <2>4. f \in Surjection(S, 0 .. n - 1)
      BY <2>2, <2>3, FS_Injection
  <2>5. QED
      BY <2>4 DEF f, Surjection
<1>8. QED
    BY <1>1, <1>3, <1>5, <1>6, <1>7

\* InOrder lists the numbers of the set, each once, the smaller before the greater.
LEMMA InOrderIs ==
    ASSUME NEW n \in Nat, NEW S \in SUBSET (1 .. n)
    PROVE  /\ InOrder(S) \in Seq(S) /\ Len(InOrder(S)) = Cardinality(S)
           /\ Cardinality(S) \in Nat
           /\ \A i \in S : \E k \in 1 .. Cardinality(S) : InOrder(S)[k] = i
           /\ \A j, k \in 1 .. Cardinality(S) : j < k => InOrder(S)[j] < InOrder(S)[k]
<1> DEFINE R == {q \in S \X S : q[1] < q[2]}
           c == Cardinality(S)
           At(k) == CHOOSE i \in S : Cardinality({j \in S : j < i}) = k - 1
<1>1. \A i, j \in S : <<i, j>> \in R <=> i < j
    OBVIOUS
<1>2. IsFiniteSet(S)
  <2>1. IsFiniteSet(1 .. n)
      BY FS_Interval
  <2>2. QED
      BY <2>1, FS_Subset
<1>3. \A i \in S : {j \in S : j < i} = Lower(i, S, R)
    BY <1>1 DEF Lower
<1>4. \A i \in S : i \in Nat
    OBVIOUS
<1> HIDE DEF R
<1>5. /\ c \in Nat
      /\ \A i \in S : Rank(i, S, R) \in 0 .. c - 1
      /\ \A i, j \in S : <<i, j>> \in R <=> Rank(i, S, R) < Rank(j, S, R)
      /\ \A i, j \in S : Rank(i, S, R) = Rank(j, S, R) => i = j
      /\ \A k \in 0 .. c - 1 : \E i \in S : Rank(i, S, R) = k
  <2>1. /\ \A i \in S : <<i, i>> \notin R
        /\ \A i, j, k \in S : <<i, j>> \in R /\ <<j, k>> \in R => <<i, k>> \in R
        /\ \A i, j \in S : i # j => <<i, j>> \in R \/ <<j, i>> \in R
      BY <1>1, <1>4
  <2>2. QED
      BY <1>2, <2>1, RankFacts
<1>6. \A i \in S : Cardinality({j \in S : j < i}) = Rank(i, S, R)
    BY <1>3 DEF Rank
<1>7. ASSUME NEW k \in 1 .. c
      PROVE  At(k) \in S /\ Rank(At(k), S, R) = k - 1
  <2>1. k - 1 \in 0 .. c - 1
      BY <1>5
  <2>2. \E i \in S : Cardinality({j \in S : j < i}) = k - 1
      BY <1>5, <1>6, <2>1
  <2>3. At(k) \in S /\ Cardinality({j \in S : j < At(k)}) = k - 1
      BY <2>2
  <2> HIDE DEF At
  <2>4. QED
      BY <1>6, <2>3
<1>8. InOrder(S) = [k \in 1 .. c |-> At(k)]
    BY DEF InOrder
<1> HIDE DEF At, c
<1>9. InOrder(S) \in Seq(S) /\ Len(InOrder(S)) = c
    BY <1>5, <1>7, <1>8
<1>10. \A k \in 1 .. c : InOrder(S)[k] = At(k)
    BY <1>8
<1>11. ASSUME NEW i \in S
       PROVE  \E k \in 1 .. c : InOrder(S)[k] = i
  <2>1. PICK r \in 0 .. c - 1 : r = Rank(i, S, R)
      BY <1>5
  <2>2. r + 1 \in 1 .. c /\ (r + 1) - 1 = r
      BY <1>5, <2>1
  <2>3. At(r + 1) = i
      BY <1>5, <1>7, <2>1, <2>2
  <2>4. QED
      BY <1>10, <2>2, <2>3
<1>12. ASSUME NEW j \in 1 .. c, NEW k \in 1 .. c, j < k
       PROVE  InOrder(S)[j] < InOrder(S)[k]
  <2>1. Rank(At(j), S, R) < Rank(At(k), S, R)
      BY <1>5, <1>7, <1>12
  <2>2. QED
      BY <1>1, <1>5, <1>7, <1>10, <2>1
<1>13. QED
    BY <1>5, <1>9, <1>11, <1>12 DEF c
-----------------------------------------------------------------------------
(* Where a primitive is *)

\* What the fold of Position says of the sets of the first n indices.
Sums(g, s, n) ==
    g = [S \in SUBSET (1 .. n) |->
            IF S = {} THEN 0 ELSE g[S \ {Max(S)}] + s[Max(S)]]

LEMMA SumExists ==
    ASSUME NEW s, NEW n \in Nat
    PROVE  \E g : Sums(g, s, n)
<1> DEFINE T == {m \in Nat : \E g : Sums(g, s, m)}
<1>1. 0 \in T
  <2> DEFINE g == [S \in SUBSET (1 .. 0) |-> 0]
  <2>1. 1 .. 0 = {} /\ \A S \in SUBSET (1 .. 0) : S = {}
      OBVIOUS
  <2>2. Sums(g, s, 0)
      BY <2>1 DEF Sums
  <2>3. QED
      BY <2>2
<1>2. ASSUME NEW m \in Nat, m \in T
      PROVE  m + 1 \in T
  <2>1. PICK f : Sums(f, s, m)
      BY <1>2
  <2> DEFINE g == [S \in SUBSET (1 .. m + 1) |->
                      IF m + 1 \in S THEN f[S \ {m + 1}] + s[m + 1] ELSE f[S]]
  <2>2. \A S \in SUBSET (1 .. m + 1) : S \ {m + 1} \in SUBSET (1 .. m)
      OBVIOUS
  <2>3. \A S \in SUBSET (1 .. m + 1) : m + 1 \notin S => S \in SUBSET (1 .. m)
      OBVIOUS
  <2>4. ASSUME NEW S \in SUBSET (1 .. m)
        PROVE  g[S] = f[S]
    <3>1. S \in SUBSET (1 .. m + 1) /\ m + 1 \notin S
        OBVIOUS
    <3>2. QED
        BY <3>1
  <2>5. ASSUME NEW S \in SUBSET (1 .. m + 1)
        PROVE  g[S] = IF S = {} THEN 0 ELSE g[S \ {Max(S)}] + s[Max(S)]
    <3>1. CASE m + 1 \in S
      <4>1. Max(S) = m + 1
          BY <3>1, MaxIs
      <4>2. g[S] = f[S \ {m + 1}] + s[m + 1]
          BY <3>1
      <4>3. g[S \ {m + 1}] = f[S \ {m + 1}]
          BY <2>2, <2>4
      <4> HIDE DEF g
      <4>4. QED
          BY <3>1, <4>1, <4>2, <4>3
    <3>2. CASE m + 1 \notin S
      <4>1. S \in SUBSET (1 .. m)
          BY <2>3, <3>2
      <4>2. f[S] = IF S = {} THEN 0 ELSE f[S \ {Max(S)}] + s[Max(S)]
          BY <2>1, <4>1 DEF Sums
      <4>3. g[S] = f[S]
          BY <2>4, <4>1
      <4>4. g[S \ {Max(S)}] = f[S \ {Max(S)}]
        <5>1. S \ {Max(S)} \in SUBSET (1 .. m)
            BY <4>1
        <5>2. QED
            BY <2>4, <5>1
      <4> HIDE DEF g
      <4>5. QED
          BY <4>2, <4>3, <4>4
    <3>3. QED
        BY <3>1, <3>2
  <2>6. g = [S \in SUBSET (1 .. m + 1) |-> g[S]]
      OBVIOUS
  <2> HIDE DEF g
  <2>7. Sums(g, s, m + 1)
      BY <2>5, <2>6 DEF Sums
  <2>8. QED
      BY <2>7
<1> HIDE DEF T
<1>3. Nat \subseteq T
    BY <1>1, <1>2, NatSetInduction
<1>4. QED
    BY <1>3 DEF T

LEMMA PositionType ==
    ASSUME NEW s \in Seq(Int)
    PROVE  Position(s) \in Int
<1> DEFINE n == Len(s)
           G == CHOOSE g : Sums(g, s, n)
           T == {k \in Nat : k <= n => G[1 .. k] \in Int}
<1>1. n \in Nat /\ DOMAIN s = 1 .. n /\ \A k \in 1 .. n : s[k] \in Int
    OBVIOUS
<1> HIDE DEF n
<1>2. Position(s) = G[1 .. n]
    BY <1>1 DEF Position, FoldLeft, MapThenFoldSet, Sums
<1>3. Sums(G, s, n)
    BY <1>1, SumExists
<1> HIDE DEF G
<1>4. 0 \in T
  <2>1. 1 .. 0 = {} /\ {} \in SUBSET (1 .. n)
      OBVIOUS
  <2>2. G[{}] = 0
      BY <1>3, <2>1 DEF Sums
  <2>3. QED
      BY <2>1, <2>2
<1>5. ASSUME NEW k \in Nat, k \in T
      PROVE  k + 1 \in T
  <2>1. SUFFICES ASSUME k + 1 <= n
                 PROVE  G[1 .. k + 1] \in Int
      OBVIOUS
  <2>2. G[1 .. k] \in Int
      BY <1>1, <1>5, <2>1
  <2>3. k + 1 \in 1 .. n /\ k + 1 \in 1 .. k + 1
      BY <1>1, <2>1
  <2>4. 1 .. k + 1 \in SUBSET (1 .. n) /\ 1 .. k + 1 # {}
    <3>1. \A i \in 1 .. k + 1 : i \in 1 .. n
        BY <1>1, <2>1
    <3>2. QED
        BY <2>3, <3>1
  <2>5. Max(1 .. k + 1) = k + 1
    <3>1. 1 .. k + 1 \in SUBSET (1 .. k + 1)
        OBVIOUS
    <3>2. QED
        BY <2>3, <3>1, MaxIs
  <2>6. (1 .. k + 1) \ {k + 1} = 1 .. k
      OBVIOUS
  <2>7. G[1 .. k + 1] = G[1 .. k] + s[k + 1]
      BY <1>3, <2>4, <2>5, <2>6 DEF Sums
  <2>8. QED
      BY <1>1, <2>2, <2>3, <2>7
<1> HIDE DEF T
<1>6. Nat \subseteq T
    BY <1>4, <1>5, NatSetInduction
<1>7. QED
    BY <1>1, <1>2, <1>6 DEF T

\* What is baked is where it is drawn.
ObjectsInv ==
    \A o \in DOMAIN Object : objects[o].world = Where(o) /\ Where(o) \in Seq(Int)

LEMMA CenterType ==
    ASSUME ObjectsInv, NEW i \in DOMAIN Primitive
    PROVE  /\ TrueCenter(i) \in Int /\ TrueDepth(i) \in Nat
           /\ Center(Primitive[i]) = TrueCenter(i)
           /\ Depth(Center(Primitive[i])) = TrueDepth(i)
           /\ Bounds[Primitive[i].bounds].radius \in Nat
           /\ Primitive[i].material \in Nat /\ Pipeline[Primitive[i].material] \in Nat
<1>1. PICK o \in DOMAIN Object, m \in DOMAIN Pipeline, b \in DOMAIN Bounds :
        Primitive[i] = [object |-> o, material |-> m, bounds |-> b]
  <2> DEFINE P == [object : DOMAIN Object, material : DOMAIN Pipeline,
                   bounds : DOMAIN Bounds]
  <2>1. Primitive \in Seq(P)
      BY SceneAssumption
  <2> HIDE DEF P
  <2>2. Primitive[i] \in P
      BY <2>1
  <2>3. QED
      BY <2>2 DEF P
<1>2. /\ m \in Nat /\ Pipeline[m] \in Nat
      /\ Bounds[b].center \in Int /\ Bounds[b].radius \in Nat /\ Eye \in Int
    BY SceneAssumption
<1>3. Position(Where(o)) \in Int
    BY PositionType DEF ObjectsInv
<1>4. Center(Primitive[i]) = TrueCenter(i)
    BY <1>1 DEF ObjectsInv, Center, TrueCenter
<1>5. PICK c \in Int : c = TrueCenter(i)
    BY <1>1, <1>2, <1>3 DEF TrueCenter
<1>6. PICK e \in Int : e = Eye
    BY <1>2
<1>7. PICK g \in Nat : g = Grain /\ g > 0
  <2>1. Grain \in Nat \ {0}
      BY SceneAssumption
  <2>2. QED
      BY <2>1
<1>8. c < e <=> c - e < 0
    OBVIOUS
<1>9. c - e >= 0 => (c - e) \div g \in Nat
    BY <1>7
<1>10. TrueDepth(i) \in Nat
    BY <1>5, <1>6, <1>7, <1>8, <1>9 DEF TrueDepth
<1>11. Depth(c) = TrueDepth(i)
    BY <1>5, <1>6, <1>8 DEF TrueDepth, Depth
<1>12. QED
    BY <1>1, <1>2, <1>4, <1>5, <1>10, <1>11

-----------------------------------------------------------------------------
(* The stages of a frame *)

Least(a, b) == IF a < b THEN a ELSE b

\* What is to be drawn.
InView ==
    {i \in DOMAIN Primitive :
        /\ TrueCenter(i) + Bounds[Primitive[i].bounds].radius >= Near
        /\ TrueCenter(i) - Bounds[Primitive[i].bounds].radius <= Far}

Seen == InOrder(InView)
Drawn == Least(Len(Seen), Least(VisibleRoom, DrawRoom))

Key(i) == make_sort_key(Pipeline[Primitive[i].material], Primitive[i].material, depths[i])
Ref(i) == [sort_key |-> Key(i), primitive_id |-> i, pass_mask |-> 1]

\* Draw j comes before draw k: by key, then by index.
KeyBefore(d, j, k) ==
    \/ d[j].sort_key < d[k].sort_key
    \/ d[j].sort_key = d[k].sort_key /\ d[j].primitive_id < d[k].primitive_id

Sorted(d) ==
    /\ DOMAIN d = 1 .. Drawn /\ Len(d) = Drawn
    /\ \A k \in 1 .. Drawn : \E i \in 1 .. Drawn : d[k] = Ref(Seen[i])
    /\ \A i \in 1 .. Drawn : \E k \in 1 .. Drawn : d[k] = Ref(Seen[i])
    /\ \A j, k \in 1 .. Drawn : j < k => KeyBefore(d, j, k)

OnePass == [draw_start |-> 1, pass_bit |-> 1, draw_count |-> Drawn]

\* What is seen, as far as there is room, has its depth, if a word can hold it.
DepthsInv ==
    \A k \in 1 .. Least(Len(Seen), VisibleRoom) :
        /\ depths[Seen[k]] \in Nat
        /\ TrueDepth(Seen[k]) < WordRange => depths[Seen[k]] = TrueDepth(Seen[k])

StageInv ==
    /\ stage \in {"baked", "culled", "classified", "sorted", "built"} => ObjectsInv
    /\ stage \in {"classified", "sorted", "built"} => DepthsInv
    /\ stage = "culled" => visible = [k \in 1 .. Least(Len(Seen), VisibleRoom) |-> Seen[k]]
    /\ stage = "classified" => draws = [k \in 1 .. Drawn |-> Ref(Seen[k])]
    /\ stage \in {"sorted", "built"} => Sorted(draws)
    /\ stage = "built" => passes = IF Drawn = 0 THEN <<>> ELSE <<OnePass>>

LEMMA PushedIs ==
    ASSUME NEW S, NEW xs \in Seq(S), NEW room \in Nat
    PROVE  Pushed(<<>>, xs, room) = [k \in 1 .. Least(Len(xs), room) |-> xs[k]]
<1> DEFINE m == IF Len(xs) < room THEN Len(xs) ELSE room
<1>1. <<>> \o xs = xs
    BY ConcatEmptySeq
<1>2. Pushed(<<>>, xs, room) = SubSeq(xs, 1, m)
    BY <1>1 DEF Pushed
<1>3. m \in Nat /\ m <= Len(xs) /\ m = Least(Len(xs), room)
    BY DEF Least
<1> HIDE DEF m
<1>4. SubSeq(xs, 1, m) = [k \in 1 .. m |-> xs[k]]
    BY <1>3
<1>5. QED
    BY <1>2, <1>3, <1>4

LEMMA SeenIs ==
    ASSUME TypeOK
    PROVE  /\ Seen \in Seq(DOMAIN Primitive) /\ Len(Seen) \in Nat
           /\ Drawn \in Nat /\ Drawn <= Len(Seen) /\ Drawn <= VisibleRoom /\ Drawn <= DrawRoom
           /\ Drawn = Least(Least(Len(Seen), VisibleRoom), DrawRoom)
           /\ \A k \in 1 .. Len(Seen) : Seen[k] \in DOMAIN Primitive /\ Seen[k] \in Nat
           /\ \A j, k \in 1 .. Len(Seen) : j < k => Seen[j] < Seen[k]
<1> DEFINE n == Len(Primitive)
<1>1. n \in Nat /\ DOMAIN Primitive = 1 .. n
    BY SceneAssumption
<1>2. InView \in SUBSET (1 .. n)
    BY <1>1 DEF InView
<1>3. PICK V \in SUBSET (1 .. n) : V = InView
    BY <1>2
<1> HIDE DEF n
<1>4. /\ InOrder(V) \in Seq(V) /\ Len(InOrder(V)) = Cardinality(V)
      /\ Cardinality(V) \in Nat
      /\ \A j, k \in 1 .. Cardinality(V) : j < k => InOrder(V)[j] < InOrder(V)[k]
    BY <1>1, InOrderIs
<1>5. PICK s \in Seq(V) : s = Seen
    BY <1>3, <1>4 DEF Seen
<1> DEFINE P == 1 .. n
<1>a. \A i \in V : i \in P
    OBVIOUS
<1> HIDE DEF P
<1>b. /\ Len(s) \in Nat /\ s = [k \in 1 .. Len(s) |-> s[k]]
      /\ \A k \in 1 .. Len(s) : s[k] \in V
    OBVIOUS
<1>c. \A k \in 1 .. Len(s) : s[k] \in P
    BY <1>a, <1>b
<1>d. s \in Seq(P)
    BY <1>b, <1>c
<1>6. Len(s) \in Nat /\ \A k \in 1 .. Len(s) : s[k] \in 1 .. n
    BY <1>b, <1>c DEF P
<1>7. \A k \in 1 .. Len(s) : s[k] \in Nat
    BY <1>1, <1>6
<1>8. s \in Seq(1 .. n)
    BY <1>d DEF P
<1>9. \A j, k \in 1 .. Len(s) : j < k => s[j] < s[k]
    BY <1>3, <1>4, <1>5 DEF Seen
<1>10. VisibleRoom \in Nat /\ DrawRoom \in Nat
    BY SceneAssumption
<1>11. /\ Drawn \in Nat /\ Drawn <= Len(Seen) /\ Drawn <= VisibleRoom /\ Drawn <= DrawRoom
       /\ Drawn = Least(Least(Len(Seen), VisibleRoom), DrawRoom)
  <2>1. PICK l \in Nat : l = Len(Seen)
      BY <1>5, <1>6
  <2>2. QED
      BY <1>10, <2>1 DEF Drawn, Least
<1>12. QED
    BY <1>1, <1>5, <1>6, <1>7, <1>8, <1>9, <1>11

\* While neither the scene nor what is baked changes, what is to be drawn does not.
LEMMA SeenStays ==
    ASSUME UNCHANGED <<vars, objects>>
    PROVE  /\ ObjectsInv' <=> ObjectsInv
           /\ \A i \in DOMAIN Primitive : TrueDepth(i)' = TrueDepth(i)
           /\ InView' = InView /\ Seen' = Seen /\ Drawn' = Drawn
<1> USE DEF vars, cache
<1>1. \A n : Composed(n)' = Composed(n)
    BY DEF Composed
<1>2. \A o : Where(o)' = Where(o)
    BY <1>1 DEF Where
<1>3. \A i : TrueCenter(i)' = TrueCenter(i)
    BY <1>2 DEF TrueCenter
<1>4. \A i : TrueDepth(i)' = TrueDepth(i)
    BY <1>3 DEF TrueDepth
<1>5. InView' = InView
    BY <1>3 DEF InView
<1>6. Seen' = Seen
    BY <1>5 DEF Seen
<1>7. Drawn' = Drawn
    BY <1>6 DEF Drawn
<1>8. ObjectsInv' <=> ObjectsInv
    BY <1>2 DEF ObjectsInv
<1>9. QED
    BY <1>4, <1>5, <1>6, <1>7, <1>8

LEMMA RefStays ==
    ASSUME TypeOK, UNCHANGED <<vars, objects, depths>>
    PROVE  /\ \A i \in DOMAIN Primitive : Ref(i)' = Ref(i)
           /\ DepthsInv' <=> DepthsInv
<1>1. \A i : Ref(i)' = Ref(i)
    BY DEF Ref, Key
<1>2. Seen' = Seen /\ \A i \in DOMAIN Primitive : TrueDepth(i)' = TrueDepth(i)
    BY SeenStays
<1>3. PICK n \in Nat : n = Least(Len(Seen), VisibleRoom) /\ n <= Len(Seen)
  <2>1. Len(Seen) \in Nat /\ VisibleRoom \in Nat
      BY SeenIs, SceneAssumption
  <2>2. QED
      BY <2>1 DEF Least
<1>4. \A k \in 1 .. n : TrueDepth(Seen[k])' = TrueDepth(Seen[k])
  <2>1. SUFFICES ASSUME NEW k \in 1 .. n
                 PROVE  TrueDepth(Seen[k])' = TrueDepth(Seen[k])
      OBVIOUS
  <2>2. k \in 1 .. Len(Seen)
      BY <1>3, SeenIs
  <2>3. PICK i \in DOMAIN Primitive : i = Seen[k]
      BY <2>2, SeenIs
  <2>4. i = Seen'[k] /\ TrueDepth(i)' = TrueDepth(i)
      BY <1>2, <2>3
  <2>5. QED
      BY <2>3, <2>4
<1>5. Least(Len(Seen), VisibleRoom)' = n
    BY <1>2, <1>3 DEF Least
<1>6. QED
    BY <1>1, <1>2, <1>3, <1>4, <1>5 DEF DepthsInv

-----------------------------------------------------------------------------
(* Each stage *)

LEMMA BakeStage ==
    ASSUME CacheInv, Bake
    PROVE  StageInv'
<1>1. /\ stage' = "baked"
      /\ world' = world /\ local' = local /\ pending' = pending
    BY DEF Bake, vars, cache
<1>2. PICK behind \in [{i \in DOMAIN Object : i > ObjectRoom} -> Stray] :
        objects' = [i \in DOMAIN Object |->
                       IF i > ObjectRoom THEN behind[i] ELSE Baked(Object[i])]
    BY DEF Bake
<1>3. ASSUME NEW o \in DOMAIN Object
      PROVE  objects'[o].world = Where(o)' /\ Where(o)' \in Seq(Int)
  <2>1. PICK n \in Node : n = Object[o]
      BY SceneAssumption
  <2>2. CASE o > ObjectRoom
    <3>1. behind[o] \in Stray /\ objects'[o] = behind[o]
        BY <1>2, <2>2
    <3>2. objects'[o].world \in Seq(Int)
        BY <3>1, SceneAssumption
    <3>3. Where(o)' = objects'[o].world
        BY <2>2 DEF Where
    <3>4. QED
        BY <3>2, <3>3
  <2>3. CASE ~ (o > ObjectRoom)
    <3>1. objects'[o].world = world[n]
        BY <1>2, <2>1, <2>3 DEF Baked
    <3>2. Composed(n)' = Composed(n)
        BY <1>1 DEF Composed
    <3>3. Where(o)' = IF pending[n] = 0 /\ Len(path[n]) <= 2 THEN Composed(n) ELSE world[n]
        BY <1>1, <2>1, <2>3, <3>2 DEF Where
    <3>4. Where(o)' = world[n]
        BY <3>3, NothingPending
    <3>5. world[n] \in Seq(Int)
      <4>1. PICK s \in Seq(Local) : s = world[n]
          BY DEF CacheInv, TypeOK
      <4>a. \A x \in Local : x \in Int
          BY SceneAssumption
      <4>2. \A k \in DOMAIN s : s[k] \in Int
          BY <4>a
      <4>3. s \in Seq(Int)
          BY <4>2
      <4>4. QED
          BY <4>1, <4>3
    <3>6. QED
        BY <3>1, <3>4, <3>5
  <2>4. QED
      BY <2>2, <2>3
<1>4. ObjectsInv'
    BY <1>3 DEF ObjectsInv
<1>5. QED
    BY <1>1, <1>4 DEF StageInv

LEMMA CullStage ==
    ASSUME CacheInv, StageInv, Cull
    PROVE  StageInv'
<1>0. TypeOK
    BY DEF CacheInv
<1>1. /\ stage = "baked" /\ stage' = "culled" /\ UNCHANGED <<vars, objects>>
      /\ visible' = Pushed(<<>>, InOrder({i \in DOMAIN Primitive :
                        ~ Rejected(Center(Primitive[i]), Bounds[Primitive[i].bounds].radius)}),
                        VisibleRoom)
    BY DEF Cull
<1>a. ObjectsInv
    BY <1>1 DEF StageInv
<1>2. ASSUME NEW i \in DOMAIN Primitive
      PROVE  ~ Rejected(Center(Primitive[i]), Bounds[Primitive[i].bounds].radius) <=> i \in InView
  <2>1. Center(Primitive[i]) = TrueCenter(i)
      BY <1>a, CenterType
  <2>2. PICK c \in Int, r \in Nat : c = TrueCenter(i) /\ r = Bounds[Primitive[i].bounds].radius
      BY <1>a, CenterType
  <2>3. Near \in Int /\ Far \in Int
      BY SceneAssumption
  <2>4. Rejected(c, r) <=> ~ (c + r >= Near /\ c - r <= Far)
      BY <2>2, <2>3 DEF Rejected
  <2>5. i \in InView <=> c + r >= Near /\ c - r <= Far
      BY <2>2 DEF InView
  <2>6. QED
      BY <2>1, <2>2, <2>4, <2>5
<1>3. {i \in DOMAIN Primitive :
          ~ Rejected(Center(Primitive[i]), Bounds[Primitive[i].bounds].radius)} = InView
    BY <1>2 DEF InView
<1>4. visible' = Pushed(<<>>, Seen, VisibleRoom)
    BY <1>1, <1>3 DEF Seen
<1>5. visible' = [k \in 1 .. Least(Len(Seen), VisibleRoom) |-> Seen[k]]
  <2>1. PICK s \in Seq(DOMAIN Primitive) : s = Seen
      BY <1>0, SeenIs
  <2>2. VisibleRoom \in Nat
      BY SceneAssumption
  <2>3. QED
      BY <1>4, <2>1, <2>2, PushedIs
<1>6. Seen' = Seen /\ ObjectsInv'
    BY <1>1, <1>a, SeenStays
<1>7. QED
    BY <1>1, <1>5, <1>6 DEF StageInv

LEMMA ClassifyStage ==
    ASSUME CacheInv, StageInv, Classify
    PROVE  StageInv'
<1>0. TypeOK
    BY DEF CacheInv
<1>1. /\ stage = "culled" /\ stage' = "classified" /\ UNCHANGED <<vars, objects>>
      /\ draws' = Pushed(<<>>, [k \in DOMAIN visible |-> DrawRef(visible[k], depths')],
                         DrawRoom)
    BY DEF Classify
<1>a. ObjectsInv
    BY <1>1 DEF StageInv
<1>2. ASSUME NEW i \in DOMAIN Primitive
      PROVE  DrawRef(i, depths') = Ref(i)'
    BY DEF DrawRef, Ref, Key
<1>3. PICK v \in Nat : v = Least(Len(Seen), VisibleRoom) /\ v <= Len(Seen)
  <2>1. PICK l \in Nat : l = Len(Seen)
      BY <1>0, SeenIs
  <2>2. VisibleRoom \in Nat
      BY SceneAssumption
  <2>3. QED
      BY <2>1, <2>2 DEF Least
<1>4. visible = [k \in 1 .. v |-> Seen[k]]
    BY <1>1, <1>3 DEF StageInv
<1>5. \A k \in 1 .. v : Seen[k] \in DOMAIN Primitive
  <2>1. \A k \in 1 .. v : k \in 1 .. Len(Seen)
      BY <1>0, <1>3, SeenIs
  <2>2. QED
      BY <1>0, <2>1, SeenIs
<1> DEFINE ref(i) == DrawRef(i, depths')
           xs == [k \in 1 .. v |-> ref(Seen[k])]
           S == {ref(i) : i \in DOMAIN Primitive}
<1>6. [k \in DOMAIN visible |-> DrawRef(visible[k], depths')] = xs
    BY <1>4
<1>7. xs \in Seq(S) /\ Len(xs) = v
    BY <1>5
<1>8. draws' = [k \in 1 .. Least(v, DrawRoom) |-> xs[k]]
  <2>1. DrawRoom \in Nat
      BY SceneAssumption
  <2>2. draws' = Pushed(<<>>, xs, DrawRoom)
      BY <1>1, <1>6
  <2> HIDE DEF xs, S
  <2>3. QED
      BY <1>7, <2>1, <2>2, PushedIs
<1>9. Least(v, DrawRoom) = Drawn
    BY <1>0, <1>3, SeenIs
<1>10. Drawn \in Nat /\ Drawn <= v
  <2>1. DrawRoom \in Nat
      BY SceneAssumption
  <2>2. QED
      BY <1>0, <1>9, <2>1, SeenIs DEF Least
<1>11. draws' = [k \in 1 .. Drawn |-> ref(Seen[k])]
  <2>1. \A k \in 1 .. Drawn : k \in 1 .. v
      BY <1>3, <1>10
  <2>2. QED
      BY <1>8, <1>9, <2>1
<1> HIDE DEF xs, S
<1>b. Drawn' = Drawn /\ Seen' = Seen /\ ObjectsInv'
    BY <1>1, <1>a, SeenStays
<1>12. draws' = [k \in 1 .. Drawn' |-> Ref(Seen[k])']
  <2>1. ASSUME NEW k \in 1 .. Drawn
        PROVE  ref(Seen[k]) = Ref(Seen[k])'
    <3>1. k \in 1 .. v
        BY <1>3, <1>10
    <3>2. PICK i \in DOMAIN Primitive : i = Seen[k]
        BY <1>5, <3>1
    <3>3. i = Seen'[k] /\ ref(i) = Ref(i)'
        BY <1>2, <1>b, <3>2
    <3>4. QED
        BY <3>2, <3>3
  <2>2. QED
      BY <1>11, <1>b, <2>1
<1> HIDE DEF ref
<1>13. PICK word \in [TooFar -> 0 .. WordRange - 1] :
         depths' = [i \in Range(visible) |->
                       IF i \in TooFar THEN word[i] ELSE Depth(Center(Primitive[i]))]
    BY DEF Classify
<1>14. ASSUME NEW k \in 1 .. v
       PROVE  /\ depths'[Seen[k]] \in Nat
              /\ TrueDepth(Seen[k]) < WordRange => depths'[Seen[k]] = TrueDepth(Seen[k])
  <2>1. PICK i \in DOMAIN Primitive : i = Seen[k]
      BY <1>5
  <2>2. i \in Range(visible)
      BY <1>4, <2>1 DEF Range
  <2>3. PICK d \in Nat : d = TrueDepth(i) /\ d = Depth(Center(Primitive[i]))
      BY <1>a, CenterType
  <2>4. WordRange \in Nat
      BY SceneAssumption
  <2>5. i \in TooFar <=> ~ (d < WordRange)
      BY <2>2, <2>3, <2>4 DEF TooFar
  <2>6. CASE i \in TooFar
    <3>1. word[i] \in 0 .. WordRange - 1 /\ depths'[i] = word[i]
        BY <1>13, <2>2, <2>6
    <3>2. QED
        BY <2>1, <2>3, <2>5, <2>6, <3>1
  <2>7. CASE i \notin TooFar
    <3>1. depths'[i] = d
        BY <1>13, <2>2, <2>3, <2>7
    <3>2. QED
        BY <2>1, <2>3, <3>1
  <2>8. QED
      BY <2>6, <2>7
<1>15. DepthsInv'
  <2>1. \A k \in 1 .. v : TrueDepth(Seen[k])' = TrueDepth(Seen[k])
    <3>1. SUFFICES ASSUME NEW k \in 1 .. v
                   PROVE  TrueDepth(Seen[k])' = TrueDepth(Seen[k])
        OBVIOUS
    <3>2. PICK i \in DOMAIN Primitive : i = Seen[k]
        BY <1>5
    <3>3. i = Seen'[k] /\ TrueDepth(i)' = TrueDepth(i)
        BY <1>1, <1>b, <3>2, SeenStays
    <3>4. QED
        BY <3>2, <3>3
  <2>2. Least(Len(Seen), VisibleRoom)' = v
      BY <1>3, <1>b DEF Least
  <2>3. QED
      BY <1>14, <1>b, <2>1, <2>2 DEF DepthsInv
<1>16. QED
    BY <1>1, <1>12, <1>15, <1>b DEF StageInv

\* The key has room for three fields; each is cut to its own.
LEMMA KeyType ==
    ASSUME ObjectsInv, NEW i \in DOMAIN Primitive, depths[i] \in Nat
    PROVE  Key(i) \in Nat
<1>1. PICK p \in Nat, m \in Nat, d \in Nat :
        /\ p = Pipeline[Primitive[i].material] /\ m = Primitive[i].material
        /\ d = depths[i]
    BY CenterType
<1>2. /\ PipeRange \in Nat /\ PipeRange > 0 /\ MaterialRange \in Nat /\ MaterialRange > 0
      /\ DepthRange \in Nat /\ DepthRange > 0
  <2>1. /\ PipeRange \in Nat \ {0} /\ MaterialRange \in Nat \ {0}
        /\ DepthRange \in Nat \ {0}
      BY SceneAssumption
  <2>2. QED
      BY <2>1
<1>3. p % PipeRange \in Nat /\ m % MaterialRange \in Nat /\ d % DepthRange \in Nat
    BY <1>1, <1>2
<1>4. \A a, b, c, e, f \in Nat : (a * b + c) * e + f \in Nat
    OBVIOUS
<1>5. Key(i) = ((p % PipeRange) * MaterialRange + (m % MaterialRange)) * DepthRange
                   + (d % DepthRange)
    BY <1>1 DEF Key, make_sort_key
<1>6. QED
    BY <1>2, <1>3, <1>4, <1>5

LEMMA SortStage ==
    ASSUME CacheInv, StageInv, Sort
    PROVE  StageInv'
<1>0. TypeOK
    BY DEF CacheInv
<1>1. /\ stage = "classified" /\ stage' = "sorted" /\ UNCHANGED <<vars, objects, depths>>
      /\ draws' = [i \in DOMAIN draws |-> draws[CHOOSE k \in DOMAIN draws : Place(k) = i]]
    BY DEF Sort
<1>a. ObjectsInv /\ DepthsInv
    BY <1>1 DEF StageInv
<1>b. ObjectsInv' /\ DepthsInv'
    BY <1>0, <1>1, <1>a, SeenStays, RefStays
<1>2. PICK n \in Nat : n = Drawn
    BY <1>0, SeenIs
<1>3. draws = [k \in 1 .. n |-> Ref(Seen[k])]
    BY <1>1, <1>2 DEF StageInv
<1>4. \A k \in 1 .. n : Seen[k] \in DOMAIN Primitive /\ Seen[k] \in Nat
  <2>1. \A k \in 1 .. n : k \in 1 .. Len(Seen)
      BY <1>0, <1>2, SeenIs
  <2>2. QED
      BY <1>0, <2>1, SeenIs
<1>5. \A j, k \in 1 .. n : j < k => Seen[j] < Seen[k]
  <2>1. \A k \in 1 .. n : k \in 1 .. Len(Seen)
      BY <1>0, <1>2, SeenIs
  <2>2. QED
      BY <1>0, <2>1, SeenIs
<1>6. PICK key \in [1 .. n -> Nat] : \A k \in 1 .. n : key[k] = draws[k].sort_key
  <2> DEFINE w == [k \in 1 .. n |-> Key(Seen[k])]
  <2>1. \A k \in 1 .. n : depths[Seen[k]] \in Nat
    <3>1. n <= Len(Seen) /\ n <= VisibleRoom /\ Len(Seen) \in Nat /\ VisibleRoom \in Nat
        BY <1>0, <1>2, SeenIs, SceneAssumption
    <3>2. \A k \in 1 .. n : k \in 1 .. Least(Len(Seen), VisibleRoom)
        BY <3>1 DEF Least
    <3>3. QED
        BY <1>a, <3>2 DEF DepthsInv
  <2>a. \A k \in 1 .. n : Key(Seen[k]) \in Nat
      BY <1>4, <1>a, <2>1, KeyType
  <2>b. w \in [1 .. n -> Nat]
      BY <2>a
  <2>2. \A k \in 1 .. n : w[k] = draws[k].sort_key
      BY <1>3 DEF Ref
  <2>3. QED
      BY <2>b, <2>2
<1> DEFINE S == 1 .. n
           R == {q \in S \X S : \/ key[q[1]] < key[q[2]]
                                \/ key[q[1]] = key[q[2]] /\ q[1] < q[2]}
           At(i) == CHOOSE k \in S : Place(k) = i
<1>7. \A j, k \in S : <<j, k>> \in R <=> key[j] < key[k] \/ (key[j] = key[k] /\ j < k)
    OBVIOUS
<1>8. IsFiniteSet(S) /\ Cardinality(S) = n
    BY FS_Interval
<1>9. DOMAIN draws = S
    BY <1>3
<1>10. \A j \in S : j \in Nat /\ key[j] \in Nat
    OBVIOUS
<1> HIDE DEF R
<1>11. \A k \in S : Place(k) = 1 + Rank(k, S, R)
  <2>1. SUFFICES ASSUME NEW k \in S
                 PROVE  Place(k) = 1 + Rank(k, S, R)
      OBVIOUS
  <2> HIDE DEF S
  <2>2. {j \in DOMAIN draws : \/ draws[j].sort_key < draws[k].sort_key
                              \/ draws[j].sort_key = draws[k].sort_key /\ j < k}
        = Lower(k, S, R)
    <3>1. \A j \in S : draws[j].sort_key = key[j]
        BY <1>6 DEF S
    <3>2. QED
        BY <1>7, <1>9, <2>1, <3>1 DEF Lower
  <2>3. QED
      BY <2>2 DEF Place, Rank
<1>12. /\ \A i \in S : Rank(i, S, R) \in 0 .. n - 1
       /\ \A i, j \in S : <<i, j>> \in R <=> Rank(i, S, R) < Rank(j, S, R)
       /\ \A i, j \in S : Rank(i, S, R) = Rank(j, S, R) => i = j
       /\ \A k \in 0 .. n - 1 : \E i \in S : Rank(i, S, R) = k
  <2> HIDE DEF S
  <2>1. \A i \in S : <<i, i>> \notin R
      BY <1>7, <1>10
  <2>2. ASSUME NEW i \in S, NEW j \in S, NEW k \in S, <<i, j>> \in R, <<j, k>> \in R
        PROVE  <<i, k>> \in R
    <3>1. /\ i \in Nat /\ j \in Nat /\ k \in Nat
          /\ key[i] \in Nat /\ key[j] \in Nat /\ key[k] \in Nat
        BY <1>10
    <3>2. /\ key[i] < key[j] \/ (key[i] = key[j] /\ i < j)
          /\ key[j] < key[k] \/ (key[j] = key[k] /\ j < k)
        BY <1>7, <2>2
    <3>3. key[i] < key[k] \/ (key[i] = key[k] /\ i < k)
        BY <3>1, <3>2
    <3>4. QED
        BY <1>7, <3>3
  <2>3. ASSUME NEW i \in S, NEW j \in S, i # j
        PROVE  <<i, j>> \in R \/ <<j, i>> \in R
    <3>1. i \in Nat /\ j \in Nat /\ key[i] \in Nat /\ key[j] \in Nat
        BY <1>10
    <3>2. \/ key[i] < key[j] \/ (key[i] = key[j] /\ i < j)
          \/ key[j] < key[i] \/ (key[j] = key[i] /\ j < i)
        BY <2>3, <3>1
    <3>3. QED
        BY <1>7, <3>2
  <2>4. \A i, j, k \in S : <<i, j>> \in R /\ <<j, k>> \in R => <<i, k>> \in R
      BY <2>2
  <2>5. \A i, j \in S : i # j => <<i, j>> \in R \/ <<j, i>> \in R
      BY <2>3
  <2>6. QED
      BY <1>8, <2>1, <2>4, <2>5, RankFacts
<1>13. ASSUME NEW i \in S
       PROVE  At(i) \in S /\ Rank(At(i), S, R) = i - 1
  <2>1. i - 1 \in 0 .. n - 1
      OBVIOUS
  <2>2. PICK k \in S : Rank(k, S, R) = i - 1
      BY <1>12, <2>1
  <2>3. Place(k) = i
      BY <1>11, <2>2
  <2>4. At(i) \in S /\ Place(At(i)) = i
      BY <2>3
  <2> HIDE DEF At
  <2>5. Rank(At(i), S, R) \in Nat /\ Place(At(i)) = 1 + Rank(At(i), S, R)
      BY <1>11, <1>12, <2>4
  <2>6. QED
      BY <2>4, <2>5
<1>14. draws' = [i \in S |-> draws[At(i)]]
    BY <1>1, <1>9
<1> HIDE DEF At
<1>15. \A k \in S : draws'[k] = Ref(Seen[At(k)])
    BY <1>3, <1>13, <1>14
<1>16. ASSUME NEW i \in S
       PROVE  \E k \in S : draws'[k] = Ref(Seen[i])
  <2>1. PICK r \in 0 .. n - 1 : r = Rank(i, S, R)
      BY <1>12
  <2>2. r + 1 \in S /\ (r + 1) - 1 = r
      OBVIOUS
  <2>3. At(r + 1) = i
      BY <1>12, <1>13, <2>1, <2>2
  <2>4. QED
      BY <1>15, <2>2, <2>3
<1>17. ASSUME NEW j \in S, NEW k \in S, j < k
       PROVE  KeyBefore(draws', j, k)
  <2>1. PICK a \in S, b \in S : a = At(j) /\ b = At(k)
      BY <1>13
  <2>2. Rank(a, S, R) < Rank(b, S, R)
      BY <1>13, <1>17, <2>1
  <2>3. key[a] < key[b] \/ (key[a] = key[b] /\ a < b)
      BY <1>7, <1>12, <2>2
  <2>4. draws'[j] = draws[a] /\ draws'[k] = draws[b]
      BY <1>14, <2>1
  <2>5. /\ draws[a].sort_key = key[a] /\ draws[b].sort_key = key[b]
        /\ draws[a].primitive_id = Seen[a] /\ draws[b].primitive_id = Seen[b]
      BY <1>3, <1>6 DEF Ref
  <2>6. a < b => Seen[a] < Seen[b]
      BY <1>5
  <2>7. QED
      BY <2>3, <2>4, <2>5, <2>6 DEF KeyBefore
<1>18. DOMAIN draws' = S /\ Len(draws') = n
    BY <1>14
<1>19. Drawn' = n /\ Seen' = Seen /\ \A k \in S : Ref(Seen[k])' = Ref(Seen[k])
  <2>1. Drawn' = Drawn /\ Seen' = Seen /\ \A i \in DOMAIN Primitive : Ref(i)' = Ref(i)
      BY <1>0, <1>1, SeenStays, RefStays
  <2>2. ASSUME NEW k \in S
        PROVE  Ref(Seen[k])' = Ref(Seen[k])
    <3>1. PICK i \in DOMAIN Primitive : i = Seen[k]
        BY <1>4
    <3>2. i = Seen'[k] /\ Ref(i)' = Ref(i)
        BY <2>1, <3>1
    <3>3. QED
        BY <3>1, <3>2
  <2>3. QED
      BY <1>2, <2>1, <2>2
<1>20. Sorted(draws)'
  <2>1. \A k \in S : \E i \in S : draws'[k] = Ref(Seen[i])'
      BY <1>13, <1>15, <1>19
  <2>2. \A i \in S : \E k \in S : draws'[k] = Ref(Seen[i])'
      BY <1>16, <1>19
  <2>3. \A j, k \in S : j < k => KeyBefore(draws', j, k)
      BY <1>17
  <2>4. S = 1 .. Drawn'
      BY <1>19
  <2> HIDE DEF S
  <2>5. DOMAIN draws' = 1 .. Drawn' /\ Len(draws') = Drawn'
      BY <1>18, <1>19, <2>4
  <2>6. \A k \in 1 .. Drawn' : \E i \in 1 .. Drawn' : draws'[k] = Ref(Seen[i])'
      BY <2>1, <2>4
  <2>7. \A i \in 1 .. Drawn' : \E k \in 1 .. Drawn' : draws'[k] = Ref(Seen[i])'
      BY <2>2, <2>4
  <2>8. \A j, k \in 1 .. Drawn' : j < k => KeyBefore(draws', j, k)
      BY <2>3, <2>4
  <2>9. QED
      BY <2>5, <2>6, <2>7, <2>8, Zenon DEF Sorted, KeyBefore
<1>21. QED
    BY <1>1, <1>20, <1>b DEF StageInv

\* What Sorted says of one draw.
LEMMA SortedIs ==
    ASSUME TypeOK, NEW d, Sorted(d), NEW k \in DOMAIN d
    PROVE  /\ d[k].primitive_id \in DOMAIN Primitive
           /\ d[k].sort_key = Key(d[k].primitive_id)
           /\ d[k].pass_mask = 1
           /\ \E i \in 1 .. Drawn : d[k].primitive_id = Seen[i]
<1>1. PICK i \in 1 .. Drawn : d[k] = Ref(Seen[i])
    BY DEF Sorted
<1>2. i \in 1 .. Len(Seen)
    BY SeenIs
<1>3. Seen[i] \in DOMAIN Primitive
    BY <1>2, SeenIs
<1>4. QED
    BY <1>1, <1>3 DEF Ref

LEMMA SortedStays ==
    ASSUME TypeOK, UNCHANGED <<vars, objects, depths>>, draws' = draws, Sorted(draws)
    PROVE  Sorted(draws)'
<1>1. Drawn' = Drawn /\ Seen' = Seen /\ \A i \in DOMAIN Primitive : Ref(i)' = Ref(i)
    BY SeenStays, RefStays
<1>2. ASSUME NEW k \in 1 .. Drawn
      PROVE  Ref(Seen[k])' = Ref(Seen[k])
  <2>1. PICK i \in DOMAIN Primitive : i = Seen[k]
    <3>1. k \in 1 .. Len(Seen)
        BY SeenIs
    <3>2. QED
        BY <3>1, SeenIs
  <2>2. i = Seen'[k] /\ Ref(i)' = Ref(i)
      BY <1>1, <2>1
  <2>3. QED
      BY <2>1, <2>2
<1>3. PICK n : n = Drawn
    OBVIOUS
<1>4. Drawn' = n
    BY <1>1, <1>3
<1>5. \A k \in 1 .. n : Ref(Seen[k])' = Ref(Seen[k])
    BY <1>2, <1>3
<1>6. DOMAIN draws' = 1 .. n /\ Len(draws') = n
    BY <1>3 DEF Sorted
<1>7. \A k \in 1 .. n : \E i \in 1 .. n : draws'[k] = Ref(Seen[i])'
  <2>1. \A k \in 1 .. n : \E i \in 1 .. n : draws[k] = Ref(Seen[i])
      BY <1>3 DEF Sorted
  <2>2. SUFFICES ASSUME NEW k \in 1 .. n
                 PROVE  \E i \in 1 .. n : draws'[k] = Ref(Seen[i])'
      OBVIOUS
  <2>3. PICK i \in 1 .. n : draws[k] = Ref(Seen[i])
      BY <2>1
  <2>4. draws'[k] = Ref(Seen[i])'
      BY <1>5, <2>3
  <2>5. QED
      BY <2>4
<1>8. \A i \in 1 .. n : \E k \in 1 .. n : draws'[k] = Ref(Seen[i])'
  <2>1. \A i \in 1 .. n : \E k \in 1 .. n : draws[k] = Ref(Seen[i])
      BY <1>3 DEF Sorted
  <2>2. SUFFICES ASSUME NEW i \in 1 .. n
                 PROVE  \E k \in 1 .. n : draws'[k] = Ref(Seen[i])'
      OBVIOUS
  <2>3. PICK k \in 1 .. n : draws[k] = Ref(Seen[i])
      BY <2>1
  <2>4. draws'[k] = Ref(Seen[i])'
      BY <1>5, <2>3
  <2>5. QED
      BY <2>4
<1>9. \A j, k \in 1 .. n : j < k => KeyBefore(draws', j, k)
    BY <1>3 DEF Sorted, KeyBefore
<1>10. QED
  <2>1. DOMAIN draws' = 1 .. Drawn' /\ Len(draws') = Drawn'
      BY <1>4, <1>6
  <2>2. \A k \in 1 .. Drawn' : \E i \in 1 .. Drawn' : draws'[k] = Ref(Seen[i])'
      BY <1>4, <1>7
  <2>3. \A i \in 1 .. Drawn' : \E k \in 1 .. Drawn' : draws'[k] = Ref(Seen[i])'
      BY <1>4, <1>8
  <2>4. \A j, k \in 1 .. Drawn' : j < k => KeyBefore(draws', j, k)
      BY <1>4, <1>9
  <2>5. QED
      BY <2>1, <2>2, <2>3, <2>4, Zenon DEF Sorted, KeyBefore

LEMMA BinStage ==
    ASSUME CacheInv, StageInv, Bin, PassRoom > 0
    PROVE  StageInv'
<1>0. TypeOK
    BY DEF CacheInv
<1> DEFINE begins == {i \in DOMAIN draws :
                         i = 1 \/ draws[i].pass_mask # draws[i - 1].pass_mask}
           ends(i) == {j \in begins : j > i} \cup {Len(draws) + 1}
           from == InOrder(begins)
           node(i) == [draw_start |-> i, pass_bit |-> draws[i].pass_mask,
                       draw_count |-> (CHOOSE e \in ends(i) : \A f \in ends(i) : e <= f) - i]
<1>1. /\ stage = "sorted" /\ stage' = "built" /\ draws' = draws
      /\ UNCHANGED <<vars, objects, depths>>
      /\ passes' = Pushed(<<>>, [k \in DOMAIN from |-> node(from[k])], PassRoom)
    BY DEF Bin
<1>a. ObjectsInv' /\ DepthsInv'
    BY <1>0, <1>1, SeenStays, RefStays DEF StageInv
<1>2. Sorted(draws)
    BY <1>1 DEF StageInv
<1>3. PICK n \in Nat : n = Drawn
    BY <1>0, SeenIs
<1>4. DOMAIN draws = 1 .. n /\ Len(draws) = n
    BY <1>2, <1>3 DEF Sorted
<1>5. \A k \in 1 .. n : draws[k].pass_mask = 1
    BY <1>0, <1>2, <1>4, SortedIs
<1>6. begins = {i \in 1 .. n : i = 1}
  <2>1. \A i \in 1 .. n : i # 1 => i - 1 \in 1 .. n
      OBVIOUS
  <2>2. \A i \in 1 .. n : i # 1 => draws[i].pass_mask = draws[i - 1].pass_mask
      BY <1>5, <2>1
  <2>3. QED
      BY <1>4, <2>2
<1>7. PassRoom \in Nat
    BY SceneAssumption
<1>8. passes' = IF n = 0 THEN <<>> ELSE <<[draw_start |-> 1, pass_bit |-> 1, draw_count |-> n]>>
  <2>1. CASE n = 0
    <3>1. begins = {}
        BY <1>6, <2>1
    <3> HIDE DEF begins, node
    <3>2. Cardinality({}) = 0 /\ 1 .. 0 = {}
        BY FS_EmptySet
    <3>3. DOMAIN from = {}
        BY <3>1, <3>2 DEF InOrder
    <3> HIDE DEF from
    <3>a. <<>> \in Seq(Nat) /\ Len(<<>>) = 0
        OBVIOUS
    <3>4. PICK xs \in Seq(Nat) : xs = <<>> /\ Len(xs) = 0
        BY <3>a
    <3>5. [k \in DOMAIN from |-> node(from[k])] = xs
        BY <3>3, <3>4
    <3>b. passes' = Pushed(<<>>, xs, PassRoom)
        BY <1>1, <3>5
    <3>6. passes' = [k \in 1 .. Least(Len(xs), PassRoom) |-> xs[k]]
        BY <1>7, <3>b, PushedIs
    <3>7. Least(Len(xs), PassRoom) = 0
        BY <1>7, <3>4 DEF Least
    <3>8. QED
        BY <2>1, <3>2, <3>6, <3>7
  <2>2. CASE n # 0
    <3>1. begins = {1}
        BY <1>6, <2>2
    <3>2. node(1) = [draw_start |-> 1, pass_bit |-> 1, draw_count |-> n]
      <4>1. ends(1) = {n + 1}
          BY <1>4, <3>1
      <4>2. (CHOOSE e \in ends(1) : \A f \in ends(1) : e <= f) = n + 1
        <5>1. n + 1 <= n + 1
            OBVIOUS
        <5> HIDE DEF ends
        <5>2. \E e \in ends(1) : \A f \in ends(1) : e <= f
            BY <4>1, <5>1
        <5>3. QED
            BY <4>1, <5>2
      <4>3. draws[1].pass_mask = 1 /\ (n + 1) - 1 = n
          BY <1>5, <2>2
      <4>4. QED
          BY <4>2, <4>3
    <3> HIDE DEF begins, node
    <3>3. from \in Seq({1}) /\ Len(from) = 1
      <4>1. {1} \in SUBSET (1 .. 1) /\ Cardinality({1}) = 1
          BY FS_Singleton
      <4>2. QED
          BY <3>1, <4>1, InOrderIs
    <3>4. DOMAIN from = 1 .. 1 /\ from[1] = 1
        BY <3>3
    <3> HIDE DEF from
    <3> DEFINE one == [draw_start |-> 1, pass_bit |-> 1, draw_count |-> n]
    <3>5. PICK xs : xs = <<one>>
        OBVIOUS
    <3>6. xs \in Seq({one}) /\ Len(xs) = 1 /\ xs = [k \in 1 .. 1 |-> one]
        BY <3>5
    <3> HIDE DEF one
    <3>7. [k \in DOMAIN from |-> node(from[k])] = xs
      <4>1. \A k \in 1 .. 1 : k = 1
          OBVIOUS
      <4>2. QED
          BY <3>2, <3>4, <3>6, <4>1 DEF one
    <3>b. passes' = Pushed(<<>>, xs, PassRoom)
        BY <1>1, <3>7
    <3>c. PICK S : S = {one}
        OBVIOUS
    <3>d. PICK ys \in Seq(S) : ys = xs
        BY <3>6, <3>c
    <3>e. Pushed(<<>>, ys, PassRoom) = [k \in 1 .. Least(Len(ys), PassRoom) |-> ys[k]]
        BY <1>7, PushedIs
    <3>8. passes' = [k \in 1 .. Least(Len(xs), PassRoom) |-> xs[k]]
        BY <3>b, <3>d, <3>e
    <3>9. Least(Len(xs), PassRoom) = 1
        BY <1>7, <3>6 DEF Least
    <3>10. passes' = xs
        BY <3>6, <3>8, <3>9
    <3>11. QED
        BY <2>2, <3>5, <3>10 DEF one
  <2>3. QED
      BY <2>1, <2>2
<1>9. Drawn' = n
    BY <1>1, <1>3, SeenStays
<1>10. Sorted(draws)'
    BY <1>0, <1>1, <1>2, <1>3, SortedStays
<1>11. passes' = (IF Drawn = 0 THEN <<>> ELSE <<OnePass>>)'
    BY <1>8, <1>9 DEF OnePass
<1>12. QED
    BY <1>1, <1>10, <1>11, <1>a DEF StageInv

LEMMA StageNext ==
    ASSUME CacheInv, StageInv, [FrameNext]_frameVars, PassRoom > 0
    PROVE  StageInv'
<1>1. CASE stage = "edit" /\ Next /\ UNCHANGED <<stage, frame>>
    BY <1>1 DEF StageInv
<1>2. CASE BakeRoots \/ EndFrame
    BY <1>2 DEF BakeRoots, EndFrame, StageInv
<1>3. CASE UNCHANGED frameVars
  <2>1. /\ stage' = stage /\ visible' = visible /\ draws' = draws /\ passes' = passes
        /\ UNCHANGED <<vars, objects, depths>>
      BY <1>3 DEF frameVars, frame
  <2>2. TypeOK
      BY DEF CacheInv
  <2>3. /\ \A i \in DOMAIN Primitive : Ref(i)' = Ref(i)
        /\ Seen' = Seen /\ Drawn' = Drawn
      BY <2>1, <2>2, SeenStays, RefStays
  <2>4. (ObjectsInv' <=> ObjectsInv) /\ (DepthsInv' <=> DepthsInv)
      BY <2>1, <2>2, SeenStays, RefStays
  <2>5. \A k \in 1 .. Drawn : Ref(Seen[k])' = Ref(Seen[k])
    <3>1. SUFFICES ASSUME NEW k \in 1 .. Drawn
                   PROVE  Ref(Seen[k])' = Ref(Seen[k])
        OBVIOUS
    <3>2. k \in 1 .. Len(Seen)
        BY <2>2, SeenIs
    <3>3. PICK i \in DOMAIN Primitive : i = Seen[k]
        BY <2>2, <3>2, SeenIs
    <3>4. i = Seen'[k] /\ Ref(i)' = Ref(i)
        BY <2>3, <3>3
    <3>5. QED
        BY <3>3, <3>4
  <2>6. Sorted(draws) => Sorted(draws)'
      BY <2>1, <2>2, SortedStays
  <2>7. OnePass' = OnePass
      BY <2>3 DEF OnePass
  <2>8. /\ stage \in {"baked", "culled", "classified", "sorted", "built"} => ObjectsInv'
        /\ stage \in {"classified", "sorted", "built"} => DepthsInv'
      BY <2>4 DEF StageInv
  <2>9. stage = "culled" => visible' = [k \in 1 .. Least(Len(Seen), VisibleRoom) |-> Seen[k]]'
      BY <2>1, <2>3 DEF StageInv
  <2>10. stage = "classified" => draws' = [k \in 1 .. Drawn |-> Ref(Seen[k])]'
      BY <2>1, <2>3, <2>5 DEF StageInv
  <2>11. stage \in {"sorted", "built"} => Sorted(draws)'
      BY <2>6 DEF StageInv
  <2>12. stage = "built" => passes' = IF Drawn' = 0 THEN <<>> ELSE <<OnePass'>>
      BY <2>1, <2>3, <2>7 DEF StageInv
  <2>13. QED
      BY <2>1, <2>8, <2>9, <2>10, <2>11, <2>12 DEF StageInv
<1>4. QED
    BY <1>1, <1>2, <1>3, BakeStage, CullStage, ClassifyStage, SortStage, BinStage DEF FrameNext

-----------------------------------------------------------------------------
(* The order of the key *)

\* Two numbers put together from a high and a low part compare like the parts.
LEMMA Digits ==
    ASSUME NEW r \in Nat, NEW a \in Nat, NEW b \in Nat, NEW c \in Nat, NEW d \in Nat,
           b < r, d < r
    PROVE  /\ a * r + b < c * r + d => a < c \/ (a = c /\ b < d)
           /\ a * r + b = c * r + d => a = c /\ b = d
<1>1. a * r \in Nat /\ c * r \in Nat
    OBVIOUS
<1>2. ASSUME NEW x \in Nat, NEW y \in Nat, x < y
      PROVE  x * r \in Nat /\ y * r \in Nat /\ x * r + r <= y * r
  <2>1. PICK z \in Nat : y = x + 1 + z
    <3>1. y - x - 1 \in Nat /\ y = x + 1 + (y - x - 1)
        BY <1>2
    <3>2. QED
        BY <3>1
  <2>2. y * r = x * r + r + z * r /\ z * r \in Nat /\ x * r \in Nat
      BY <2>1
  <2>3. QED
      BY <2>2
<1>3. a < c => a * r + r <= c * r
    BY <1>2
<1>4. c < a => c * r + r <= a * r
    BY <1>2
<1>5. a < c \/ a = c \/ c < a
    OBVIOUS
<1>6. QED
  <2>1. PICK p \in Nat, q \in Nat : p = a * r /\ q = c * r
      BY <1>1
  <2>2. CASE a < c
      BY <1>3, <2>1, <2>2
  <2>3. CASE c < a
      BY <1>4, <2>1, <2>3
  <2>4. CASE a = c
      BY <2>1, <2>4
  <2>5. QED
      BY <1>5, <2>2, <2>3, <2>4

LEMMA KeyOrder ==
    ASSUME ObjectsInv, NEW a \in DOMAIN Primitive, NEW b \in DOMAIN Primitive,
           InRange(a), InRange(b), depths[a] = TrueDepth(a), depths[b] = TrueDepth(b),
           Key(a) < Key(b) \/ (Key(a) = Key(b) /\ a < b)
    PROVE  Before(a, b)
<1>1. PICK p \in Nat, m \in Nat, d \in Nat :
        /\ p = Pipeline[Primitive[a].material] /\ m = Primitive[a].material
        /\ d = TrueDepth(a)
    BY CenterType
<1>2. PICK q \in Nat, n \in Nat, e \in Nat :
        /\ q = Pipeline[Primitive[b].material] /\ n = Primitive[b].material
        /\ e = TrueDepth(b)
    BY CenterType
<1>3. /\ PipeRange \in Nat /\ PipeRange > 0 /\ MaterialRange \in Nat /\ MaterialRange > 0
      /\ DepthRange \in Nat /\ DepthRange > 0
  <2>1. /\ PipeRange \in Nat \ {0} /\ MaterialRange \in Nat \ {0}
        /\ DepthRange \in Nat \ {0}
      BY SceneAssumption
  <2>2. QED
      BY <2>1
<1>4. /\ p < PipeRange /\ m < MaterialRange /\ d < DepthRange
      /\ q < PipeRange /\ n < MaterialRange /\ e < DepthRange
    BY <1>1, <1>2 DEF InRange
<1>5. \A x, y \in Nat : x < y => x % y = x
    OBVIOUS
<1>6. /\ p % PipeRange = p /\ m % MaterialRange = m /\ d % DepthRange = d
      /\ q % PipeRange = q /\ n % MaterialRange = n /\ e % DepthRange = e
    BY <1>3, <1>4, <1>5
<1>7. PICK x \in Nat, y \in Nat : x = p * MaterialRange + m /\ y = q * MaterialRange + n
    BY <1>3
<1>8. Key(a) = x * DepthRange + d /\ Key(b) = y * DepthRange + e
    BY <1>1, <1>2, <1>6, <1>7 DEF Key, make_sort_key
<1>9. x < y \/ (x = y /\ d < e) \/ (x = y /\ d = e /\ a < b)
  <2>1. /\ x * DepthRange + d < y * DepthRange + e => x < y \/ (x = y /\ d < e)
        /\ x * DepthRange + d = y * DepthRange + e => x = y /\ d = e
      BY <1>3, <1>4, Digits
  <2>2. QED
      BY <1>8, <2>1
<1>10. /\ x < y => p < q \/ (p = q /\ m < n)
       /\ x = y => p = q /\ m = n
    BY <1>3, <1>4, <1>7, Digits
<1>11. \/ p < q
       \/ p = q /\ m < n
       \/ p = q /\ m = n /\ d < e
       \/ p = q /\ m = n /\ d = e /\ a < b
    BY <1>9, <1>10
<1> DEFINE ra == <<p, m, d, a>>
           rb == <<q, n, e, b>>
           differs == {k \in 1 .. 4 : ra[k] # rb[k]}
<1>12. a \in Nat /\ b \in Nat
  <2>1. DOMAIN Primitive = 1 .. Len(Primitive) /\ Len(Primitive) \in Nat
      BY SceneAssumption
  <2>2. QED
      BY <2>1
<1>13. /\ ra[1] = p /\ ra[2] = m /\ ra[3] = d /\ ra[4] = a
       /\ rb[1] = q /\ rb[2] = n /\ rb[3] = e /\ rb[4] = b
    OBVIOUS
<1>14. 1 .. 4 = {1, 2, 3, 4}
    OBVIOUS
<1>15. Before(a, b) <=> \E k \in differs : ra[k] < rb[k] /\ \A l \in differs : k <= l
    BY <1>1, <1>2 DEF Before
<1> HIDE DEF ra, rb
<1>16. CASE p < q
  <2>1. 1 \in differs /\ \A l \in differs : 1 <= l
      BY <1>13, <1>16
  <2>2. QED
      BY <1>13, <1>15, <1>16, <2>1
<1>17. CASE p = q /\ m < n
  <2>1. 2 \in differs /\ \A l \in differs : l \in {2, 3, 4}
      BY <1>13, <1>14, <1>17
  <2>2. \A l \in differs : 2 <= l
      BY <2>1
  <2>3. QED
      BY <1>13, <1>15, <1>17, <2>1, <2>2
<1>18. CASE p = q /\ m = n /\ d < e
  <2>1. 3 \in differs /\ \A l \in differs : l \in {3, 4}
      BY <1>13, <1>14, <1>18
  <2>2. \A l \in differs : 3 <= l
      BY <2>1
  <2>3. QED
      BY <1>13, <1>15, <1>18, <2>1, <2>2
<1>19. CASE p = q /\ m = n /\ d = e /\ a < b
  <2>1. 4 \in differs /\ \A l \in differs : l = 4
      BY <1>12, <1>13, <1>14, <1>19
  <2>2. \A l \in differs : 4 <= l
      BY <2>1
  <2>3. QED
      BY <1>13, <1>15, <1>19, <2>1, <2>2
<1>20. QED
    BY <1>11, <1>16, <1>17, <1>18, <1>19

-----------------------------------------------------------------------------
(* What a built frame draws *)

LEMMA BuiltIsRight ==
    ASSUME TypeOK, StageInv
    PROVE  DrawsAreRight
<1> SUFFICES ASSUME stage = "built"
             PROVE  DrawsAreRight
    BY DEF DrawsAreRight
<1> DEFINE id(k) == draws[k].primitive_id
           room == Least(VisibleRoom, DrawRoom)
           covers(p) == p.draw_start .. p.draw_start + p.draw_count - 1
<1>1. Sorted(draws) /\ passes = IF Drawn = 0 THEN <<>> ELSE <<OnePass>>
    BY DEF StageInv
<1>a. ObjectsInv /\ DepthsInv
    BY DEF StageInv
<1>2. PICK n \in Nat : n = Drawn
    BY SeenIs
<1>3. DOMAIN draws = 1 .. n /\ Len(draws) = n
    BY <1>1, <1>2 DEF Sorted
<1>4. PICK s \in Seq(DOMAIN Primitive) : s = Seen
    BY SeenIs
<1>5. PICK l \in Nat : l = Len(s) /\ DOMAIN s = 1 .. l
    BY <1>4
<1>6. n = (IF l < room THEN l ELSE room)
    BY <1>2, <1>4, <1>5 DEF Drawn, Least
<1>7. room \in Nat
    BY SceneAssumption DEF Least
<1>8. {id(k) : k \in DOMAIN draws} = {s[k] : k \in {j \in DOMAIN s : j <= room}}
  <2>1. {j \in DOMAIN s : j <= room} = 1 .. n
      BY <1>5, <1>6, <1>7
  <2>2. \A k \in 1 .. n : \E i \in 1 .. n : id(k) = s[i]
      BY <1>1, <1>2, <1>3, <1>4, SortedIs
  <2>3. \A i \in 1 .. n : \E k \in 1 .. n : id(k) = s[i]
    <3>1. SUFFICES ASSUME NEW i \in 1 .. n
                   PROVE  \E k \in 1 .. n : id(k) = s[i]
        OBVIOUS
    <3>2. PICK k \in 1 .. n : draws[k] = Ref(Seen[i])
        BY <1>1, <1>2 DEF Sorted
    <3>3. id(k) = s[i]
        BY <1>4, <3>2 DEF Ref
    <3>4. QED
        BY <3>3
  <2> HIDE DEF id
  <2>4. {id(k) : k \in DOMAIN draws} = {s[i] : i \in 1 .. n}
    <3>1. \A x : x \in {id(k) : k \in 1 .. n} <=> x \in {s[i] : i \in 1 .. n}
        BY <2>2, <2>3, Zenon
    <3>2. QED
        BY <1>3, <3>1
  <2>5. QED
      BY <2>1, <2>4
<1>9. ASSUME NEW j \in DOMAIN draws, NEW k \in DOMAIN draws, j < k,
             InRange(id(j)), InRange(id(k))
      PROVE  Before(id(j), id(k))
  <2>1. PICK a \in DOMAIN Primitive, b \in DOMAIN Primitive :
          /\ a = id(j) /\ draws[j].sort_key = Key(a)
          /\ b = id(k) /\ draws[k].sort_key = Key(b)
          /\ (\E i \in 1 .. Drawn : a = Seen[i]) /\ (\E i \in 1 .. Drawn : b = Seen[i])
      BY <1>1, SortedIs
  <2>2. KeyBefore(draws, j, k)
      BY <1>1, <1>2, <1>3, <1>9 DEF Sorted
  <2>3. Key(a) < Key(b) \/ (Key(a) = Key(b) /\ a < b)
      BY <2>1, <2>2 DEF KeyBefore
  <2> HIDE DEF id
  <2>4. InRange(a) /\ InRange(b)
      BY <1>9, <2>1
  <2>5. ASSUME NEW c \in DOMAIN Primitive, InRange(c), \E i \in 1 .. Drawn : c = Seen[i]
        PROVE  depths[c] = TrueDepth(c)
    <3>1. PICK i \in 1 .. n : c = Seen[i]
        BY <1>2, <2>5
    <3>2. n <= Len(Seen) /\ n <= VisibleRoom /\ Len(Seen) \in Nat /\ VisibleRoom \in Nat
        BY <1>2, SeenIs, SceneAssumption
    <3>3. i \in 1 .. Least(Len(Seen), VisibleRoom)
        BY <3>2 DEF Least
    <3>4. TrueDepth(c) \in Nat
        BY <1>a, CenterType
    <3>5. DepthRange \in Nat /\ WordRange \in Nat /\ DepthRange <= WordRange
        BY SceneAssumption
    <3>6. TrueDepth(c) < WordRange
        BY <2>5, <3>4, <3>5 DEF InRange
    <3>7. QED
        BY <1>a, <3>1, <3>3, <3>6 DEF DepthsInv
  <2>6. depths[a] = TrueDepth(a) /\ depths[b] = TrueDepth(b)
      BY <2>1, <2>4, <2>5
  <2>7. QED
      BY <1>a, <2>1, <2>3, <2>4, <2>6, KeyOrder
<1>10. ASSUME NEW k \in DOMAIN draws
       PROVE  Cardinality({p \in DOMAIN passes : k \in covers(passes[p])}) = 1
  <2>1. n # 0 /\ k \in 1 .. n
      BY <1>3
  <2>2. PICK w : w = OnePass
      OBVIOUS
  <2>3. PICK t : t = <<w>>
      OBVIOUS
  <2>4. passes = t /\ DOMAIN t = 1 .. 1 /\ t[1] = w
      BY <1>1, <1>2, <2>1, <2>2, <2>3
  <2>5. covers(w) = 1 .. n
    <3>1. w.draw_start = 1 /\ w.draw_count = n
        BY <1>2, <2>2 DEF OnePass
    <3>2. 1 + n - 1 = n
        OBVIOUS
    <3>3. QED
        BY <3>1, <3>2
  <2> HIDE DEF covers
  <2>6. {p \in DOMAIN passes : k \in covers(passes[p])} = {1}
      BY <2>1, <2>4, <2>5
  <2>7. QED
      BY <2>6, FS_Singleton
<1>11. s = InOrder({i \in DOMAIN Primitive :
                       LET b == Bounds[Primitive[i].bounds]
                       IN  TrueCenter(i) + b.radius >= Near /\ TrueCenter(i) - b.radius <= Far})
    BY <1>4 DEF Seen, InView
<1>12. \A j, k \in DOMAIN draws :
          j < k /\ InRange(id(j)) /\ InRange(id(k)) => Before(id(j), id(k))
    BY <1>9
<1>13. room = IF VisibleRoom < DrawRoom THEN VisibleRoom ELSE DrawRoom
    BY DEF Least
<1>14. Len(draws) = (IF Len(s) < room THEN Len(s) ELSE room)
    BY <1>3, <1>5, <1>6
<1> HIDE DEF room
<1>15. QED
    BY <1>8, <1>10, <1>11, <1>12, <1>13, <1>14 DEF DrawsAreRight

\* A frame draws exactly what is in view where its object is (Where), as many as the
\* buffers hold, in the order of the key with its depths cut to steps, each draw in
\* one pass: for any scene, updated or not, whatever lies behind the objects that
\* found room, and any frame that has room for a pass.
THEOREM FramesDrawTheScene ==
    ASSUME PassRoom > 0
    PROVE  FrameSpec => []FrameDrawsScene
<1>1. FrameInit => StageInv
    BY DEF FrameInit, StageInv
<1>2. CacheInv /\ StageInv /\ [FrameNext]_frameVars => StageInv'
    BY StageNext
<1>3. FrameSpec => []CacheInv
    BY FramesKeepTheScene, CacheInvariant, PTL
<1>4. CacheInv /\ StageInv => DrawsAreRight
    BY BuiltIsRight DEF CacheInv
<1>5. BakedIsTrue /\ DrawsAreRight => FrameDrawsScene
    BY DEF FrameDrawsScene
<1>6. FrameSpec => []StageInv
    BY <1>1, <1>2, <1>3, PTL DEF FrameSpec
<1>7. QED
    BY <1>3, <1>4, <1>5, <1>6, BakesAreTrue, PTL
=============================================================================
