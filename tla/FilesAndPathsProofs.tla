------------------------ MODULE FilesAndPathsProofs ------------------------
(***************************************************************************)
(* Machine-checked proofs about Filesystem: what reads, writes, listings,  *)
(* creations and removals by any number of threads keep true of the disk,  *)
(* for every tree and whichever calls to Win32 the device may fail; and    *)
(* about Paths: what its functions keep of a path, for every text.         *)
(*                                                                         *)
(* The sections: prefixes, defined by recursion along Up, is a function    *)
(* because the paths are well founded, and what it says of the way to a    *)
(* path; the inductive invariant FilesInd, in its three parts (the locals  *)
(* of a thread, the disk and the open files, the asynchronous calls), each *)
(* with its own account of a step; what a read finds; and AloneOK, which   *)
(* says how far a call that nothing disturbs has come from the disk it     *)
(* began on, operation by operation, up to what it returns.  Then, for the *)
(* text of a path: Collapsed is determined one character at a time; what   *)
(* it makes of two paths put together; and from that what normalize, join, *)
(* the parent and the parts of a path do.                                  *)
(***************************************************************************)
EXTENDS FilesAndPaths, WellFoundedInduction, SequenceTheorems, TLAPS

-----------------------------------------------------------------------------
(* Numbers *)

LEMMA LeastNumber ==
    ASSUME NEW S \in SUBSET Nat, S # {}
    PROVE  \E m \in S : \A x \in S : m <= x
<1> DEFINE R == OpToRel(<, Nat)
<1>1. IsWellFoundedOn(R, Nat)
    BY NatLessThanWellFounded
<1>2. \A x, y \in Nat : y < x => <<y, x>> \in R
    BY DEF OpToRel
<1> HIDE DEF R
<1>3. PICK m \in S : \A y \in S : ~ (<<y, m>> \in R)
    BY <1>1, WFMin
<1>4. \A x \in S : m <= x
  <2> SUFFICES ASSUME NEW x \in S, ~ (m <= x)
               PROVE  FALSE
      OBVIOUS
  <2>1. x \in Nat /\ m \in Nat
      OBVIOUS
  <2>2. x < m
      BY <2>1
  <2>3. QED
      BY <1>2, <1>3, <2>1, <2>2
<1>5. QED
    BY <1>4

LEMMA NoLoops ==
    ASSUME NEW S \in SUBSET Path, S # {}
    PROVE  \E m \in S : Up[m] \notin S
<1>1. S \in SUBSET Nat
    BY PathAssumption
<1>2. PICK m \in S : \A x \in S : m <= x
    BY <1>1, LeastNumber
<1>3. m \in Nat /\ Up[m] \in Nat /\ Up[m] < m
  <2>1. m \in Path /\ Up[m] \in Path \cup {Cwd} /\ Up[m] < m
      BY PathAssumption
  <2>2. Path \subseteq Nat /\ Cwd \in Nat
      BY PathAssumption
  <2>3. QED
      BY <2>1, <2>2
<1>4. Up[m] \notin S
    BY <1>2, <1>3
<1>5. QED
    BY <1>4

-----------------------------------------------------------------------------
(* The way to a path *)

IsTop(p) == Up[p] = Cwd

\* The directories on the way to p, and p.
Way(p) == {prefixes[p][i] : i \in DOMAIN prefixes[p]}

\* A function on part of the tree that satisfies the equation of prefixes.
PrefixesOn(D, f) ==
    /\ D \subseteq Path
    /\ \A n \in D : ~ IsTop(n) => Up[n] \in D
    /\ f = [n \in D |-> IF IsTop(n) THEN <<n>> ELSE Append(f[Up[n]], n)]

LEMMA UpIs ==
    ASSUME NEW n \in Path
    PROVE  (IsTop(n) <=> Up[n] \notin Path) /\ (~ IsTop(n) => Up[n] \in Path)
BY PathAssumption DEF IsTop

LEMMA PrefixesAgree ==
    ASSUME NEW D, NEW f, PrefixesOn(D, f), NEW E, NEW g, PrefixesOn(E, g), NEW n \in D \cap E
    PROVE  f[n] = g[n]
<1> DEFINE Bad == {m \in D \cap E : f[m] # g[m]}
<1>1. SUFFICES ASSUME Bad # {}
               PROVE  FALSE
    OBVIOUS
<1>2. Bad \in SUBSET Path
    BY DEF PrefixesOn
<1>3. PICK m \in Bad : Up[m] \notin Bad
  <2> HIDE DEF Bad
  <2> QED
      BY <1>1, <1>2, NoLoops
<1>4. m \in D /\ m \in E /\ f[m] # g[m]
    OBVIOUS
<1>5. /\ f[m] = IF IsTop(m) THEN <<m>> ELSE Append(f[Up[m]], m)
      /\ g[m] = IF IsTop(m) THEN <<m>> ELSE Append(g[Up[m]], m)
    BY <1>4 DEF PrefixesOn
<1>6. ~ IsTop(m) => Up[m] \in D \cap E
    BY <1>4 DEF PrefixesOn
<1>7. ~ IsTop(m) => f[Up[m]] = g[Up[m]]
    BY <1>3, <1>6
<1>8. QED
    BY <1>4, <1>5, <1>7

LEMMA PrefixesOnExists ==
    ASSUME NEW n \in Path
    PROVE  \E D, f : PrefixesOn(D, f) /\ n \in D
<1> DEFINE Bad == {m \in Path : ~ \E D, f : PrefixesOn(D, f) /\ m \in D}
<1>1. SUFFICES ASSUME Bad # {}
               PROVE  FALSE
    OBVIOUS
<1>2. Bad \in SUBSET Path
    OBVIOUS
<1>3. PICK m \in Bad : Up[m] \notin Bad
  <2> HIDE DEF Bad
  <2> QED
      BY <1>1, <1>2, NoLoops
<1>4. CASE IsTop(m)
  <2> DEFINE g == [k \in {m} |-> <<m>>]
  <2>1. g = [k \in {m} |-> IF IsTop(k) THEN <<k>> ELSE Append(g[Up[k]], k)]
      BY <1>4
  <2> HIDE DEF g
  <2>2. PrefixesOn({m}, g)
      BY <1>4, <2>1 DEF PrefixesOn
  <2>3. QED
      BY <2>2
<1>5. CASE ~ IsTop(m)
  <2>1. Up[m] \in Path
      BY <1>5, UpIs
  <2>2. PICK D, f : PrefixesOn(D, f) /\ Up[m] \in D
      BY <1>3, <2>1
  <2>3. m \notin D
      BY <2>2
  <2> DEFINE E == D \cup {m}
             g == [k \in E |-> IF k = m THEN Append(f[Up[m]], m) ELSE f[k]]
  <2>4. \A k \in D : g[k] = f[k] /\ k # m
      BY <2>3
  <2>5. \A k \in E : ~ IsTop(k) => Up[k] \in D
      BY <2>2 DEF PrefixesOn
  <2>6. ASSUME NEW k \in E
        PROVE  g[k] = IF IsTop(k) THEN <<k>> ELSE Append(g[Up[k]], k)
    <3>1. CASE k = m
      <4>1. g[k] = Append(f[Up[m]], m)
          BY <3>1
      <4>2. g[Up[m]] = f[Up[m]]
          BY <2>2, <2>4
      <4> HIDE DEF g
      <4>3. QED
          BY <1>5, <3>1, <4>1, <4>2
    <3>2. CASE k \in D
      <4>1. f[k] = IF IsTop(k) THEN <<k>> ELSE Append(f[Up[k]], k)
          BY <2>2, <3>2 DEF PrefixesOn
      <4>2. g[k] = f[k] /\ (~ IsTop(k) => g[Up[k]] = f[Up[k]])
          BY <2>4, <2>5, <3>2
      <4> HIDE DEF g
      <4>3. QED
          BY <4>1, <4>2
    <3>3. QED
        BY <3>1, <3>2
  <2>7. g = [k \in E |-> g[k]]
      OBVIOUS
  <2>8. E \subseteq Path
      BY <2>2 DEF PrefixesOn
  <2> HIDE DEF g
  <2>9. g = [k \in E |-> IF IsTop(k) THEN <<k>> ELSE Append(g[Up[k]], k)]
      BY <2>6, <2>7
  <2>10. PrefixesOn(E, g)
      BY <2>5, <2>8, <2>9 DEF PrefixesOn
  <2>11. QED
      BY <2>10
<1>6. QED
    BY <1>4, <1>5

\* The recursion of prefixes is well founded.
LEMMA PrefixesIs ==
    prefixes = [n \in Path |-> IF IsTop(n) THEN <<n>> ELSE Append(prefixes[Up[n]], n)]
<1> DEFINE Is(v, n) == \E D, f : PrefixesOn(D, f) /\ n \in D /\ v = f[n]
           F == [n \in Path |-> CHOOSE v : Is(v, n)]
<1>1. ASSUME NEW D, NEW f, PrefixesOn(D, f), NEW n \in D
      PROVE  F[n] = f[n]
  <2>1. n \in Path
      BY <1>1 DEF PrefixesOn
  <2>2. Is(f[n], n)
      BY <1>1
  <2>3. \A v : Is(v, n) => v = f[n]
      BY <1>1, PrefixesAgree
  <2> HIDE DEF Is
  <2>4. (CHOOSE v : Is(v, n)) = f[n]
      BY <2>2, <2>3
  <2>5. QED
      BY <2>1, <2>4
<1>2. ASSUME NEW n \in Path
      PROVE  F[n] = IF IsTop(n) THEN <<n>> ELSE Append(F[Up[n]], n)
  <2>1. PICK D, f : PrefixesOn(D, f) /\ n \in D
      BY PrefixesOnExists
  <2>2. f[n] = IF IsTop(n) THEN <<n>> ELSE Append(f[Up[n]], n)
      BY <2>1 DEF PrefixesOn
  <2>3. ~ IsTop(n) => Up[n] \in D
      BY <2>1 DEF PrefixesOn
  <2> HIDE DEF F
  <2>4. F[n] = f[n] /\ (~ IsTop(n) => F[Up[n]] = f[Up[n]])
    <3>1. \A k \in D : F[k] = f[k]
        BY <1>1, <2>1
    <3>2. QED
        BY <2>1, <2>3, <3>1
  <2>5. QED
      BY <2>2, <2>4
<1>3. F = [n \in Path |-> F[n]]
    OBVIOUS
<1> HIDE DEF F
<1>4. F = [n \in Path |-> IF IsTop(n) THEN <<n>> ELSE Append(F[Up[n]], n)]
    BY <1>2, <1>3
<1>5. QED
    BY <1>4 DEF prefixes, IsTop

\* A prefixes ends at its node, starts at a root, and each node on it is the parent
\* of the next, whose own prefixes is the part up to it.
LEMMA PrefixesFacts ==
    ASSUME NEW n \in Path
    PROVE  /\ prefixes[n] \in Seq(Path) /\ Len(prefixes[n]) \in Nat /\ Len(prefixes[n]) >= 1
           /\ prefixes[n][Len(prefixes[n])] = n
           /\ \A k \in 1 .. Len(prefixes[n]) : Len(prefixes[prefixes[n][k]]) = k
           /\ \A k \in 1 .. Len(prefixes[n]) : k = 1 <=> IsTop(prefixes[n][k])
           /\ \A k \in 1 .. Len(prefixes[n]) - 1 : Up[prefixes[n][k + 1]] = prefixes[n][k]
<1> DEFINE Ok(m) ==
              /\ prefixes[m] \in Seq(Path) /\ Len(prefixes[m]) \in Nat /\ Len(prefixes[m]) >= 1
              /\ prefixes[m][Len(prefixes[m])] = m
              /\ \A k \in 1 .. Len(prefixes[m]) : Len(prefixes[prefixes[m][k]]) = k
              /\ \A k \in 1 .. Len(prefixes[m]) : k = 1 <=> IsTop(prefixes[m][k])
              /\ \A k \in 1 .. Len(prefixes[m]) - 1 : Up[prefixes[m][k + 1]] = prefixes[m][k]
           Bad == {m \in Path : ~ Ok(m)}
<1>1. SUFFICES ASSUME Bad # {}
               PROVE  FALSE
    OBVIOUS
<1>2. PICK m \in Bad : Up[m] \notin Bad
  <2>1. Bad \in SUBSET Path
      OBVIOUS
  <2> HIDE DEF Bad
  <2>2. QED
      BY <1>1, <2>1, NoLoops
<1>3. m \in Path /\ ~ Ok(m)
    OBVIOUS
<1>4. CASE IsTop(m)
  <2>1. prefixes[m] = <<m>>
      BY <1>3, <1>4, PrefixesIs
  <2>2. PICK t : t = <<m>>
      OBVIOUS
  <2>3. t \in Seq(Path) /\ Len(t) = 1 /\ t[1] = m
      BY <1>3, <2>2
  <2>4. \A k \in 1 .. Len(t) : k = 1
      BY <2>3
  <2>5. \A k \in 1 .. Len(t) - 1 : FALSE
      BY <2>3
  <2>6. Len(prefixes[m]) = 1
      BY <2>1, <2>2, <2>3
  <2>7. \A k \in 1 .. Len(t) : Len(prefixes[t[k]]) = k /\ (k = 1 <=> IsTop(t[k]))
      BY <1>4, <2>3, <2>4, <2>6
  <2>8. prefixes[m] = t /\ Len(t) \in Nat /\ Len(t) >= 1 /\ t[Len(t)] = m
      BY <2>1, <2>2, <2>3
  <2>9. Ok(m)
      BY <2>3, <2>5, <2>7, <2>8
  <2>10. QED
      BY <1>3, <2>9
<1>5. CASE ~ IsTop(m)
  <2>1. Up[m] \in Path
      BY <1>3, <1>5, UpIs
  <2>2. Ok(Up[m])
      BY <1>2, <2>1
  <2>3. PICK s \in Seq(Path) : s = prefixes[Up[m]]
      BY <2>2
  <2>4. PICK t : t = Append(s, m)
      OBVIOUS
  <2>5. prefixes[m] = t
      BY <1>3, <1>5, <2>3, <2>4, PrefixesIs
  <2>6. /\ t \in Seq(Path) /\ Len(t) = Len(s) + 1 /\ Len(s) \in Nat
        /\ t[Len(s) + 1] = m /\ \A k \in 1 .. Len(s) : t[k] = s[k]
      BY <1>3, <2>4
  <2>7. /\ Len(s) >= 1 /\ s[Len(s)] = Up[m]
        /\ \A k \in 1 .. Len(s) : Len(prefixes[s[k]]) = k
        /\ \A k \in 1 .. Len(s) : k = 1 <=> IsTop(s[k])
        /\ \A k \in 1 .. Len(s) - 1 : Up[s[k + 1]] = s[k]
      BY <2>2, <2>3
  <2>8. \A k \in 1 .. Len(t) : k = Len(s) + 1 \/ k \in 1 .. Len(s)
      BY <2>6
  <2>9. ASSUME NEW k \in 1 .. Len(t)
        PROVE  Len(prefixes[t[k]]) = k /\ (k = 1 <=> IsTop(t[k]))
    <3>1. CASE k = Len(s) + 1
      <4>1. t[k] = m /\ Len(prefixes[m]) = k /\ k # 1
          BY <2>5, <2>6, <2>7, <3>1
      <4>2. QED
          BY <1>5, <4>1
    <3>2. CASE k \in 1 .. Len(s)
        BY <2>6, <2>7, <3>2
    <3>3. QED
        BY <2>8, <3>1, <3>2
  <2>10. ASSUME NEW k \in 1 .. Len(t) - 1
         PROVE  Up[t[k + 1]] = t[k]
    <3>1. CASE k = Len(s)
      <4>1. t[k + 1] = m /\ t[k] = s[k] /\ s[k] = Up[m]
          BY <2>6, <2>7, <3>1
      <4>2. QED
          BY <4>1
    <3>2. CASE k # Len(s)
      <4>1. k \in 1 .. Len(s) - 1 /\ k \in 1 .. Len(s) /\ k + 1 \in 1 .. Len(s)
          BY <2>6, <3>2
      <4>2. QED
          BY <2>6, <2>7, <4>1
    <3>3. QED
        BY <3>1, <3>2
  <2>11. Len(t) \in Nat /\ Len(t) >= 1 /\ t[Len(t)] = m
      BY <2>6
  <2>12. Ok(m)
      BY <2>5, <2>6, <2>9, <2>10, <2>11
  <2>13. QED
      BY <1>3, <2>12
<1>6. QED
    BY <1>4, <1>5

LEMMA PrefixesStep ==
    ASSUME NEW n \in Path
    PROVE  /\ IsTop(n) => prefixes[n] = <<n>> /\ Len(prefixes[n]) = 1 /\ prefixes[n][1] = n
           /\ ~ IsTop(n) =>
                 /\ Up[n] \in Path
                 /\ Len(prefixes[n]) = Len(prefixes[Up[n]]) + 1
                 /\ prefixes[n][Len(prefixes[n])] = n
                 /\ \A i \in 1 .. Len(prefixes[Up[n]]) : prefixes[n][i] = prefixes[Up[n]][i]
<1>1. prefixes[n] = IF IsTop(n) THEN <<n>> ELSE Append(prefixes[Up[n]], n)
    BY PrefixesIs
<1>2. CASE IsTop(n)
    BY <1>1, <1>2
<1>3. CASE ~ IsTop(n)
  <2>1. Up[n] \in Path
      BY <1>3, UpIs
  <2>2. PICK s \in Seq(Path) : s = prefixes[Up[n]]
      BY <2>1, PrefixesFacts
  <2>3. /\ prefixes[n] = Append(s, n) /\ Len(Append(s, n)) = Len(s) + 1
        /\ Append(s, n)[Len(s) + 1] = n
        /\ \A i \in 1 .. Len(s) : Append(s, n)[i] = s[i]
      BY <1>1, <1>3, <2>2
  <2>4. QED
      BY <1>3, <2>1, <2>2, <2>3
<1>4. QED
    BY <1>2, <1>3

LEMMA WayFacts ==
    ASSUME NEW n \in Path
    PROVE  /\ Way(n) \subseteq Path /\ n \in Way(n)
           /\ \A i \in 1 .. Len(prefixes[n]) : prefixes[n][i] \in Way(n)
           /\ \A i, j \in 1 .. Len(prefixes[n]) : prefixes[n][i] = prefixes[n][j] => i = j
           /\ IsTop(n) => Way(n) = {n}
           /\ ~ IsTop(n) => /\ Way(n) = Way(Up[n]) \cup {n}
                             /\ n \notin Way(Up[n]) /\ Up[n] # n
                             /\ Up[n] \in Way(n)
<1>1. /\ prefixes[n] \in Seq(Path) /\ DOMAIN prefixes[n] = 1 .. Len(prefixes[n])
      /\ Len(prefixes[n]) \in Nat /\ Len(prefixes[n]) >= 1
      /\ prefixes[n][Len(prefixes[n])] = n
      /\ \A k \in 1 .. Len(prefixes[n]) : Len(prefixes[prefixes[n][k]]) = k
  <2>1. PICK s \in Seq(Path) : s = prefixes[n]
      BY PrefixesFacts
  <2>2. DOMAIN s = 1 .. Len(s)
      OBVIOUS
  <2>3. QED
      BY <2>1, <2>2, PrefixesFacts
<1>2. Way(n) \subseteq Path /\ n \in Way(n)
  <2>1. \A k \in 1 .. Len(prefixes[n]) : prefixes[n][k] \in Path
      BY <1>1
  <2>2. Len(prefixes[n]) \in 1 .. Len(prefixes[n])
      BY <1>1
  <2>3. QED
      BY <1>1, <2>1, <2>2 DEF Way
<1>3. \A i, j \in 1 .. Len(prefixes[n]) : prefixes[n][i] = prefixes[n][j] => i = j
    BY <1>1
<1>4. CASE IsTop(n)
  <2>1. Len(prefixes[n]) = 1 /\ prefixes[n][1] = n
      BY <1>4, PrefixesStep
  <2>2. \A k \in 1 .. Len(prefixes[n]) : k = 1
      BY <2>1
  <2>3. Way(n) = {n}
      BY <1>1, <1>2, <2>1, <2>2 DEF Way
  <2>4. QED
      BY <1>1, <1>2, <1>3, <1>4, <2>3 DEF Way
<1>5. CASE ~ IsTop(n)
  <2>1. PICK p \in Path : p = Up[n]
      BY <1>5, UpIs
  <2>2. /\ Len(prefixes[n]) = Len(prefixes[p]) + 1
        /\ \A i \in 1 .. Len(prefixes[p]) : prefixes[n][i] = prefixes[p][i]
      BY <1>5, <2>1, PrefixesStep
  <2>3. PICK s \in Seq(Path) : s = prefixes[p]
      BY PrefixesFacts
  <2>4. DOMAIN prefixes[p] = 1 .. Len(prefixes[p]) /\ Len(prefixes[p]) \in Nat /\ Len(prefixes[p]) >= 1
        /\ prefixes[p][Len(prefixes[p])] = p
    <3>1. DOMAIN s = 1 .. Len(s)
        OBVIOUS
    <3>2. QED
        BY <2>3, <3>1, PrefixesFacts
  <2>5. \A k \in 1 .. Len(prefixes[n]) : k = Len(prefixes[n]) \/ k \in 1 .. Len(prefixes[p])
      BY <2>2, <2>4
  <2>6. \A k \in 1 .. Len(prefixes[p]) : k \in 1 .. Len(prefixes[n]) /\ k # Len(prefixes[n])
      BY <2>2, <2>4
  <2>7. Way(n) = Way(p) \cup {n}
    <3>1. \A k \in DOMAIN prefixes[n] : prefixes[n][k] \in Way(p) \cup {n}
        BY <1>1, <2>2, <2>4, <2>5 DEF Way
    <3>2. \A k \in DOMAIN prefixes[p] : prefixes[p][k] \in Way(n)
        BY <1>1, <2>2, <2>4, <2>6 DEF Way
    <3>3. QED
        BY <1>2, <3>1, <3>2 DEF Way
  <2>8. n \notin Way(p)
    <3>1. SUFFICES ASSUME NEW k \in 1 .. Len(prefixes[p]), prefixes[p][k] = n
                   PROVE  FALSE
        BY <2>4 DEF Way
    <3>2. k \in 1 .. Len(prefixes[n]) /\ prefixes[n][k] = n /\ k # Len(prefixes[n])
        BY <2>2, <2>6, <3>1
    <3>3. Len(prefixes[n]) \in 1 .. Len(prefixes[n])
        BY <1>1
    <3>4. QED
        BY <1>1, <1>3, <3>2, <3>3
  <2>9. p \in Way(p)
    <3>1. Len(prefixes[p]) \in 1 .. Len(prefixes[p])
        BY <2>4
    <3>2. QED
        BY <2>4, <3>1 DEF Way
  <2>10. p # n /\ p \in Way(n)
      BY <2>7, <2>8, <2>9
  <2>11. \A i \in 1 .. Len(prefixes[n]) : prefixes[n][i] \in Way(n)
      BY <1>1 DEF Way
  <2>12. QED
      BY <1>2, <1>3, <1>5, <2>1, <2>7, <2>8, <2>10, <2>11
<1>6. QED
    BY <1>4, <1>5

-----------------------------------------------------------------------------
(* Trees *)

LEMMA UnderFacts ==
    ASSUME NEW p \in Path
    PROVE  /\ Under(p) = {c \in Path : p \in Way(c)}
           /\ p \in Under(p)
           /\ \A c \in Path : Up[c] \in Under(p) => c \in Under(p)
           /\ \A c \in Under(p) : c = p \/ Up[c] \in Under(p)
<1>1. Under(p) = {c \in Path : p \in Way(c)}
    BY DEF Under, Way
<1>2. p \in Under(p)
    BY <1>1, WayFacts
<1>3. ASSUME NEW c \in Path, Up[c] \in Under(p)
      PROVE  c \in Under(p)
  <2>1. Up[c] \in Path /\ p \in Way(Up[c])
      BY <1>1, <1>3
  <2>2. ~ IsTop(c)
      BY <2>1, UpIs
  <2>3. QED
      BY <1>1, <2>1, <2>2, WayFacts
<1>4. ASSUME NEW c \in Under(p), c # p
      PROVE  Up[c] \in Under(p)
  <2>1. c \in Path /\ p \in Way(c)
      BY <1>1
  <2>2. ~ IsTop(c)
      BY <1>4, <2>1, WayFacts
  <2>3. Up[c] \in Path /\ p \in Way(Up[c])
      BY <1>4, <2>1, <2>2, UpIs, WayFacts
  <2>4. QED
      BY <1>1, <2>3
<1>5. QED
    BY <1>1, <1>2, <1>3, <1>4

\* Everything on the way to what exists is a directory.
LEMMA AncestorsAreDirs ==
    ASSUME NEW n, WellFormed(n), NEW q \in Path, n[q] # Absent, NEW d \in Way(q), d # q
    PROVE  n[d] = Dir
<1> DEFINE Bad == {c \in Path : n[c] # Absent /\ \E e \in Way(c) : e # c /\ n[e] # Dir}
<1>1. SUFFICES ASSUME Bad # {}
               PROVE  FALSE
    OBVIOUS
<1>2. PICK m \in Bad : Up[m] \notin Bad
  <2>1. Bad \in SUBSET Path
      OBVIOUS
  <2> HIDE DEF Bad
  <2>2. QED
      BY <1>1, <2>1, NoLoops
<1>3. PICK e \in Way(m) : e # m /\ n[e] # Dir
    OBVIOUS
<1>4. m \in Path /\ n[m] # Absent
    OBVIOUS
<1>5. ~ IsTop(m)
    BY <1>3, <1>4, WayFacts
<1>6. Up[m] \in Path /\ n[Up[m]] = Dir /\ e \in Way(Up[m])
    BY <1>3, <1>4, <1>5, UpIs, WayFacts DEF WellFormed, IsTop
<1>7. Dir # Absent
    BY DEF Dir, Absent
<1>8. e # Up[m]
    BY <1>3, <1>6
<1>9. Up[m] \in Bad
    BY <1>3, <1>6, <1>7, <1>8
<1>10. QED
    BY <1>2, <1>9

\* What is not a directory has nothing below it.
LEMMA NothingUnder ==
    ASSUME NEW n, WellFormed(n), NEW p \in Path, n[p] # Dir
    PROVE  \A q \in Under(p) : q # p => n[q] = Absent
<1>1. SUFFICES ASSUME NEW q \in Under(p), q # p, n[q] # Absent
               PROVE  FALSE
    OBVIOUS
<1>2. q \in Path /\ p \in Way(q)
    BY UnderFacts
<1>3. QED
    BY <1>1, <1>2, AncestorsAreDirs

LEMMA Kinds ==
    ASSUME NEW x \in Node
    PROVE  /\ x.kind = "absent" <=> x = Absent
           /\ x.kind = "dir" <=> x = Dir
           /\ x.kind = "file" <=> x # Absent /\ x # Dir
           /\ x.kind \in {"absent", "dir", "file"}
           /\ x.data \in Contents
           /\ Absent # Dir
           /\ x = [kind |-> x.kind, data |-> x.data]
<1>1. <<>> \in Contents
    BY DEF Contents
<1>2. CASE x = Absent
    BY <1>1, <1>2 DEF Absent, Dir
<1>3. CASE x = Dir
    BY <1>1, <1>3 DEF Absent, Dir
<1>4. CASE x \in {File(bytes) : bytes \in Contents}
  <2>1. PICK bytes \in Contents : x = File(bytes)
      BY <1>4
  <2>2. QED
      BY <2>1 DEF File, Absent, Dir
<1>5. QED
    BY <1>2, <1>3, <1>4 DEF Node

LEMMA FileFacts ==
    ASSUME NEW bytes \in Contents
    PROVE  File(bytes) \in Node /\ File(bytes).kind = "file" /\ File(bytes).data = bytes
           /\ File(bytes) # Absent /\ File(bytes) # Dir
BY DEF File, Node, Absent, Dir

LEMMA NodeFacts == Absent \in Node /\ Dir \in Node /\ Absent # Dir
                   /\ Absent.kind = "absent" /\ Dir.kind = "dir"
BY DEF Absent, Dir, Node

\* A change at one path keeps the tree a tree.
LEMMA SetNode ==
    ASSUME NEW n \in [Path -> Node], WellFormed(n), NEW p \in Path, NEW x \in Node,
           x # Absent => Up[p] = Cwd \/ n[Up[p]] = Dir,
           x # Dir => \A c \in Children(p) : n[c] = Absent
    PROVE  [n EXCEPT ![p] = x] \in [Path -> Node] /\ WellFormed([n EXCEPT ![p] = x])
<1>1. PICK m : m = [n EXCEPT ![p] = x]
    OBVIOUS
<1>2. m \in [Path -> Node] /\ m[p] = x /\ \A q \in Path : q # p => m[q] = n[q]
    BY <1>1
<1>3. ASSUME NEW q \in Path, m[q] # Absent, Up[q] # Cwd
      PROVE  m[Up[q]] = Dir
  <2>1. Up[q] \in Path
      BY <1>3, UpIs DEF IsTop
  <2>2. CASE q = p
    <3>1. Up[p] # p
      <4>1. p \in Nat /\ Up[p] < p
          BY PathAssumption
      <4>2. QED
          BY <4>1
    <3>2. QED
        BY <1>2, <1>3, <2>1, <2>2, <3>1
  <2>3. CASE q # p
    <3>1. n[q] # Absent /\ n[Up[q]] = Dir
        BY <1>2, <1>3, <2>3 DEF WellFormed
    <3>2. Up[q] = p => x = Dir
      <4>1. Up[q] = p => q \in Children(p)
          BY DEF Children
      <4>2. QED
          BY <3>1, <4>1
    <3>3. QED
        BY <1>2, <2>1, <3>1, <3>2
  <2>4. QED
      BY <2>2, <2>3
<1>4. WellFormed(m)
    BY <1>3 DEF WellFormed
<1>5. QED
    BY <1>1, <1>2, <1>4

-----------------------------------------------------------------------------
(* The inductive invariant *)

Reading == {"readSize", "readFile", "sizeGet"}   \* with the file open to read
Removing == {"rmNext", "rmDir", "rmFile", "rmSelf"}
PCs == {"idle", "readOpen", "writeOpen", "writeFile", "sizeOpen", "remove", "listFirst", "listNext",
        "mkdir", "rmPlain", "rmFirst"} \cup Reading \cup Removing

OpenFile == [path : Path, access : {"read", "write"}]
Entries == [dir : Path, at : Path \cup {Cwd}]
Errors == {"None", "NotFound", "PermissionDenied", "AlreadyExists", "IOError"}

\* What the place w of a thread says of its request r, its handle h and its
\* directories s.
ThreadOK(w, r, h, s) ==
    /\ w = "idle" <=> r = NoRequest
    /\ w \in {"readOpen", "readSize", "readFile"} => r.op = "read"
    /\ w \in {"sizeOpen", "sizeGet"} => r.op = "size"
    /\ w \in {"writeOpen", "writeFile"} => r.op = "write"
    /\ w \in {"listFirst", "listNext"} => r.op = "list"
    /\ w = "mkdir" => r.op = "mkdirs"
    /\ w = "remove" => r.op = "remove"
    /\ w = "rmPlain" => r.op = "rmdir" /\ ~ r.flag
    /\ w \in {"rmFirst"} \cup Removing => r.op = "rmdir" /\ r.flag
    /\ w \in Reading => h = [path |-> r.path, access |-> "read"]
    /\ w = "writeFile" => h = [path |-> r.path, access |-> "write"]
    /\ w \notin Reading \cup {"writeFile"} => h = NoHandle
    /\ w \notin {"listNext", "mkdir"} \cup Removing => s = <<>>
    /\ w = "listNext" => Len(s) = 1 /\ s[1].dir = r.path
    /\ w = "mkdir" => Len(s) < Len(prefixes[r.path])
    /\ w \in Removing => Len(s) >= 1
    /\ w \in {"rmDir", "rmFile"} => s[Len(s)].at \in Path

LocalsOK ==
    /\ pc \in [Thread -> PCs]
    /\ arg \in [Thread -> Requests \cup {NoRequest}]
    /\ handle \in [Thread -> {NoHandle} \cup OpenFile]
    /\ stack \in [Thread -> Seq(Entries)]
    /\ got \in [Thread -> Contents] /\ entries \in [Thread -> SUBSET Path]
    /\ ret \in [Thread -> Errors]
    /\ \A t \in Thread : ThreadOK(pc[t], arg[t], handle[t], stack[t])

\* Only a file is open, and a file that is written is open once.
HandlesOK ==
    /\ \A u \in Thread : handle[u] # NoHandle => node[handle[u].path].kind = "file"
    /\ \A u, v \in Thread : /\ u # v /\ handle[u] # NoHandle /\ handle[v] # NoHandle
                            /\ handle[u].path = handle[v].path
                            => handle[u].access = "read" /\ handle[v].access = "read"

\* What a file has that nobody is writing.
Whole(p) ==
    \/ node[p].data \in {Bytes(Old), Bytes(New)}
    \/ p \in torn
    \/ \E u \in Thread : handle[u] = [path |-> p, access |-> "write"]

DiskOK ==
    /\ node \in [Path -> Node] /\ WellFormed(node)
    /\ torn \subseteq {p \in Path : node[p].kind = "file"}
    /\ HandlesOK
    /\ \A p \in Path : node[p].kind = "file" => Whole(p)

Jobs == [id : JobId, request : AsyncRequests]

\* An asynchronous call that was made has been answered, or its job is waiting or
\* under way; never two of these.
Pending(j) == (\E x \in jobs : x.id = j) \/ (job # NoJob /\ job.id = j)
CallsOK ==
    /\ calls \in [Client -> 0 .. MaxCalls]
    /\ executor \in BOOLEAN
    /\ asked \subseteq {j \in JobId : j[2] <= calls[j[1]]}
    /\ jobs \subseteq Jobs /\ job \in Jobs \cup {NoJob}
    /\ called \in [JobId -> 0 .. 1]
    /\ \A j \in JobId : called[j] = 1 <=> j \in asked /\ ~ Pending(j)
    /\ \A j \in JobId : Pending(j) => j \in asked
    /\ \A x, y \in jobs : x.id = y.id => x = y
    /\ \A x \in jobs : job # NoJob => job.id # x.id
    /\ pc[Worker] # "idle" => job # NoJob

FilesInd == LocalsOK /\ DiskOK /\ CallsOK

-----------------------------------------------------------------------------
(* What a step changes of the threads *)

TypedLocals ==
    /\ pc \in [Thread -> PCs]
    /\ arg \in [Thread -> Requests \cup {NoRequest}]
    /\ handle \in [Thread -> {NoHandle} \cup OpenFile]
    /\ stack \in [Thread -> Seq(Entries)]
    /\ got \in [Thread -> Contents] /\ entries \in [Thread -> SUBSET Path]
    /\ ret \in [Thread -> Errors]

OthersKeep(t) ==
    \A u \in Thread : u # t => /\ pc'[u] = pc[u] /\ arg'[u] = arg[u] /\ handle'[u] = handle[u]
                               /\ stack'[u] = stack[u] /\ got'[u] = got[u]
                               /\ entries'[u] = entries[u] /\ ret'[u] = ret[u]

LEMMA LocalStep ==
    ASSUME LocalsOK, NEW t \in Thread, TypedLocals', OthersKeep(t),
           ThreadOK(pc'[t], arg'[t], handle'[t], stack'[t])
    PROVE  LocalsOK'
<1>1. \A u \in Thread : ThreadOK(pc'[u], arg'[u], handle'[u], stack'[u])
    BY DEF LocalsOK, OthersKeep
<1>2. QED
    BY <1>1 DEF LocalsOK, TypedLocals

LEMMA RequestFacts ==
    ASSUME NEW r \in Requests
    PROVE  /\ r.path \in Path /\ r # NoRequest
           /\ r.op \in {"read", "size", "list", "mkdirs", "remove", "write", "rmdir"}
<1>1. /\ r.path \in Path
      /\ r.op \in {"read", "size", "list", "mkdirs", "remove", "write", "rmdir"}
    BY DEF Requests
<1>2. NoRequest.op = "none"
    BY DEF NoRequest
<1>3. QED
    BY <1>1, <1>2

LEMMA EntryFacts ==
    ASSUME NEW r \in Requests
    PROVE  /\ Entry(r) \in {"readOpen", "sizeOpen", "writeOpen", "listFirst", "mkdir", "remove",
                            "rmFirst", "rmPlain"}
           /\ Entry(r) = "readOpen" => r.op = "read"
           /\ Entry(r) = "sizeOpen" => r.op = "size"
           /\ Entry(r) = "writeOpen" => r.op = "write"
           /\ Entry(r) = "listFirst" => r.op = "list"
           /\ Entry(r) = "mkdir" => r.op = "mkdirs"
           /\ Entry(r) = "remove" => r.op = "remove"
           /\ Entry(r) = "rmFirst" => r.op = "rmdir" /\ r.flag
           /\ Entry(r) = "rmPlain" => r.op = "rmdir" /\ ~ r.flag
<1>1. r.op \in {"read", "size", "list", "mkdirs", "remove", "write", "rmdir"}
    BY RequestFacts
<1>2. r.op # "rmdir" => Entry(r) = CASE r.op = "read" -> "readOpen"
                                     [] r.op = "size" -> "sizeOpen"
                                     [] r.op = "write" -> "writeOpen"
                                     [] r.op = "list" -> "listFirst"
                                     [] r.op = "mkdirs" -> "mkdir"
                                     [] r.op = "remove" -> "remove"
    BY <1>1 DEF Entry
<1>3. r.op = "rmdir" /\ r.flag => Entry(r) = "rmFirst"
    BY DEF Entry
<1>4. r.op = "rmdir" /\ ~ r.flag => Entry(r) = "rmPlain"
    BY DEF Entry
<1>5. QED
    BY <1>1, <1>2, <1>3, <1>4

LEMMA ErrorFacts ==
    ASSUME NEW code
    PROVE  from_win32(code) \in Errors /\ (code # "ok" <=> from_win32(code) # "None")
BY DEF from_win32, Errors

LEMMA BeginLocals ==
    ASSUME LocalsOK, NEW t \in Thread, NEW r \in Requests, Begin(t, r)
    PROVE  LocalsOK'
<1>1. TypedLocals
    BY DEF LocalsOK, TypedLocals
<1>2. Entry(r) \in PCs /\ Entry(r) # "idle"
    BY EntryFacts DEF PCs
<1>3. <<>> \in Contents /\ {} \in SUBSET Path
    BY DEF Contents
<1>4. TypedLocals'
    BY <1>1, <1>2, <1>3 DEF TypedLocals, Begin, disk
<1>5. OthersKeep(t)
    BY <1>1 DEF TypedLocals, OthersKeep, Begin
<1>6. pc'[t] = Entry(r) /\ arg'[t] = r /\ handle'[t] = handle[t] /\ stack'[t] = stack[t]
    BY <1>1 DEF TypedLocals, Begin
<1>7. handle[t] = NoHandle /\ stack[t] = <<>>
    BY DEF LocalsOK, ThreadOK, Begin, Reading, Removing
<1>8. r # NoRequest /\ r.path \in Path
    BY RequestFacts
<1>9. Len(<<>>) < Len(prefixes[r.path])
    BY <1>8, PrefixesFacts
<1>10. ThreadOK(Entry(r), r, NoHandle, <<>>)
    BY <1>8, <1>9, EntryFacts DEF ThreadOK, Reading, Removing
<1>11. QED
    BY <1>4, <1>5, <1>6, <1>7, <1>10, LocalStep

\* What is known of a thread on its way.
LEMMA AtWork ==
    ASSUME LocalsOK, NEW t \in Thread, pc[t] # "idle"
    PROVE  /\ arg[t] \in Requests /\ arg[t].path \in Path
           /\ ThreadOK(pc[t], arg[t], handle[t], stack[t])
           /\ stack[t] \in Seq(Entries) /\ Len(stack[t]) \in Nat
           /\ handle[t] \in {NoHandle} \cup OpenFile
           /\ TypedLocals
<1>1. ThreadOK(pc[t], arg[t], handle[t], stack[t]) /\ TypedLocals
    BY DEF LocalsOK, TypedLocals
<1>2. arg[t] \in Requests
    BY <1>1 DEF ThreadOK, TypedLocals
<1>3. stack[t] \in Seq(Entries) /\ handle[t] \in {NoHandle} \cup OpenFile
    BY <1>1 DEF TypedLocals
<1>4. QED
    BY <1>1, <1>2, <1>3, RequestFacts

LEMMA HandleFacts ==
    ASSUME NEW p \in Path, NEW access \in {"read", "write"}
    PROVE  /\ [path |-> p, access |-> access] \in OpenFile
           /\ [path |-> p, access |-> access] # NoHandle
BY DEF OpenFile, NoHandle

LEMMA IdleOK == \A s : s = <<>> => ThreadOK("idle", NoRequest, NoHandle, s)
<1>1. NoRequest.op = "none"
    BY DEF NoRequest
<1>2. QED
    BY <1>1 DEF ThreadOK, Reading, Removing

\* A call that returns leaves its thread idle.
LEMMA ReturnLocals ==
    ASSUME LocalsOK, NEW t \in Thread, NEW err \in Errors, Return(t, err),
           \/ CloseHandle(t) /\ stack' = stack /\ stack[t] = <<>>
           \/ handle' = handle /\ handle[t] = NoHandle /\ (FindClose(t) \/ (stack' = stack /\ stack[t] = <<>>)),
           \/ got' = got
           \/ \E g \in Contents : got' = [got EXCEPT ![t] = g],
           entries' = entries
    PROVE  LocalsOK'
<1>1. TypedLocals /\ <<>> \in Seq(Entries)
    BY DEF LocalsOK, TypedLocals
<1>2. "idle" \in PCs
    BY DEF PCs
<1>3. pc' \in [Thread -> PCs] /\ pc'[t] = "idle" /\ \A u \in Thread : u # t => pc'[u] = pc[u]
    BY <1>1, <1>2 DEF TypedLocals, Return
<1>4. /\ arg' \in [Thread -> Requests \cup {NoRequest}] /\ arg'[t] = NoRequest
      /\ \A u \in Thread : u # t => arg'[u] = arg[u]
    BY <1>1 DEF TypedLocals, Return
<1>5. /\ handle' \in [Thread -> {NoHandle} \cup OpenFile] /\ handle'[t] = NoHandle
      /\ \A u \in Thread : u # t => handle'[u] = handle[u]
    BY <1>1 DEF TypedLocals, CloseHandle
<1>6. /\ stack' \in [Thread -> Seq(Entries)] /\ stack'[t] = <<>>
      /\ \A u \in Thread : u # t => stack'[u] = stack[u]
    BY <1>1 DEF TypedLocals, FindClose
<1>7. got' \in [Thread -> Contents] /\ \A u \in Thread : u # t => got'[u] = got[u]
    BY <1>1 DEF TypedLocals
<1>8. ret' \in [Thread -> Errors] /\ \A u \in Thread : u # t => ret'[u] = ret[u]
    BY <1>1 DEF TypedLocals, Return
<1>9. TypedLocals'
    BY <1>1, <1>3, <1>4, <1>5, <1>6, <1>7, <1>8 DEF TypedLocals
<1>10. OthersKeep(t)
    BY <1>3, <1>4, <1>5, <1>6, <1>7, <1>8 DEF OthersKeep
<1>11. ThreadOK(pc'[t], arg'[t], handle'[t], stack'[t])
    BY <1>3, <1>4, <1>5, <1>6, IdleOK
<1>12. QED
    BY <1>9, <1>10, <1>11, LocalStep

\* A call that goes on.
LEMMA GotoLocals ==
    ASSUME LocalsOK, NEW t \in Thread, NEW w \in PCs, Goto(t, w),
           NEW h \in {NoHandle} \cup OpenFile, NEW s \in Seq(Entries), NEW e \in SUBSET Path,
           handle' = [handle EXCEPT ![t] = h], stack' = [stack EXCEPT ![t] = s],
           entries' = [entries EXCEPT ![t] = e], got' = got,
           ThreadOK(w, arg[t], h, s)
    PROVE  LocalsOK'
<1>1. TypedLocals
    BY DEF LocalsOK, TypedLocals
<1>2. TypedLocals'
    BY <1>1 DEF TypedLocals, Goto
<1>3. OthersKeep(t)
    BY <1>1 DEF TypedLocals, OthersKeep, Goto
<1>4. pc'[t] = w /\ arg'[t] = arg[t] /\ handle'[t] = h /\ stack'[t] = s
    BY <1>1 DEF TypedLocals, Goto
<1>5. QED
    BY <1>2, <1>3, <1>4, LocalStep

LEMMA Same ==
    ASSUME LocalsOK, NEW t \in Thread
    PROVE  /\ handle = [handle EXCEPT ![t] = handle[t]]
           /\ stack = [stack EXCEPT ![t] = stack[t]]
           /\ entries = [entries EXCEPT ![t] = entries[t]]
           /\ entries[t] \in SUBSET Path
BY DEF LocalsOK

\* What a thread has between its steps.
LEMMA AtRest ==
    ASSUME LocalsOK, NEW t \in Thread, pc[t] # "idle"
    PROVE  /\ pc[t] \notin Reading \cup {"writeFile"} => handle[t] = NoHandle
           /\ pc[t] \in Reading => handle[t] = [path |-> arg[t].path, access |-> "read"]
           /\ pc[t] = "writeFile" => handle[t] = [path |-> arg[t].path, access |-> "write"]
           /\ pc[t] \notin {"listNext", "mkdir"} \cup Removing => stack[t] = <<>>
           /\ pc[t] \in {"readOpen", "readSize", "readFile"} => arg[t].op = "read"
           /\ pc[t] \in {"sizeOpen", "sizeGet"} => arg[t].op = "size"
           /\ pc[t] \in {"writeOpen", "writeFile"} => arg[t].op = "write"
           /\ pc[t] \in {"listFirst", "listNext"} => arg[t].op = "list"
           /\ pc[t] = "mkdir" => arg[t].op = "mkdirs" /\ Len(stack[t]) < Len(prefixes[arg[t].path])
           /\ pc[t] = "remove" => arg[t].op = "remove"
           /\ pc[t] \in {"rmPlain", "rmFirst"} \cup Removing => arg[t].op = "rmdir"
           /\ pc[t] = "rmPlain" <=> (pc[t] \in {"rmPlain", "rmFirst"} \cup Removing /\ ~ arg[t].flag)
           /\ pc[t] = "listNext" => Len(stack[t]) = 1 /\ stack[t][1].dir = arg[t].path
           /\ pc[t] \in Removing => Len(stack[t]) >= 1
           /\ pc[t] \in {"rmDir", "rmFile"} => Top(t).at \in Path
BY AtWork DEF ThreadOK, Top, Reading, Removing

LEMMA TopFacts ==
    ASSUME LocalsOK, NEW t \in Thread, pc[t] # "idle", Len(stack[t]) >= 1
    PROVE  /\ Top(t) \in Entries /\ Top(t).dir \in Path /\ Top(t).at \in Path \cup {Cwd}
           /\ Rest(t) \in Seq(Entries) /\ Len(Rest(t)) = Len(stack[t]) - 1
           /\ \A i \in 1 .. Len(Rest(t)) : Rest(t)[i] = stack[t][i]
<1>1. PICK s \in Seq(Entries) : s = stack[t]
    BY AtWork
<1>2. Len(s) \in 1 .. Len(s) /\ Len(s) \in Nat
    BY <1>1
<1>3. s[Len(s)] \in Entries
    BY <1>2
<1>4. /\ SubSeq(s, 1, Len(s) - 1) \in Seq(Entries) /\ Len(SubSeq(s, 1, Len(s) - 1)) = Len(s) - 1
      /\ \A i \in 1 .. Len(s) - 1 : SubSeq(s, 1, Len(s) - 1)[i] = s[i]
  <2>1. 1 \in 1 .. Len(s) + 1 /\ Len(s) - 1 \in 1 - 1 .. Len(s) /\ Len(s) - 1 - 1 + 1 = Len(s) - 1
      BY <1>2
  <2>2. QED
      BY <1>2, <2>1, SubSeqProperties
<1>5. Top(t).dir \in Path /\ Top(t).at \in Path \cup {Cwd}
    BY <1>1, <1>3 DEF Top, Entries
<1>6. QED
    BY <1>1, <1>3, <1>4, <1>5 DEF Top, Rest

LEMMA OneEntry ==
    ASSUME NEW p \in Path, NEW c \in Path \cup {Cwd}
    PROVE  /\ InDir(p, c) \in Entries /\ <<InDir(p, c)>> \in Seq(Entries)
           /\ InDir(p, c).dir = p /\ InDir(p, c).at = c
           /\ Len(<<InDir(p, c)>>) = 1 /\ <<InDir(p, c)>>[1] = InDir(p, c)
<1>1. InDir(p, c) \in Entries /\ InDir(p, c).dir = p /\ InDir(p, c).at = c
    BY DEF InDir, Entries
<1>2. PICK x \in Entries : x = InDir(p, c)
    BY <1>1
<1>3. <<x>> \in Seq(Entries) /\ Len(<<x>>) = 1 /\ <<x>>[1] = x
    OBVIOUS
<1>4. QED
    BY <1>1, <1>2, <1>3

\* The end of a stack that grows by one.
LEMMA AppendEntry ==
    ASSUME NEW s \in Seq(Entries), NEW p \in Path, NEW c \in Path \cup {Cwd}
    PROVE  /\ Append(s, InDir(p, c)) \in Seq(Entries)
           /\ Len(s) \in Nat /\ Len(Append(s, InDir(p, c))) = Len(s) + 1
           /\ Append(s, InDir(p, c))[Len(s) + 1] = InDir(p, c)
           /\ \A i \in 1 .. Len(s) : Append(s, InDir(p, c))[i] = s[i]
<1>1. PICK x \in Entries : x = InDir(p, c)
    BY OneEntry
<1>2. QED
    BY <1>1, AppendProperties

LEMMA NextsFacts ==
    ASSUME NEW p, NEW c, NEW d \in Nexts(p, c)
    PROVE  d \in Path /\ Up[d] = p /\ Exists(d) /\ d > c
BY DEF Nexts, Children

LEMMA ReadOpenLocals ==
    ASSUME LocalsOK, NEW t \in Thread, NEW where \in PCs, NEW code,
           \/ pc[t] = "readOpen" /\ where = "readSize"
           \/ pc[t] = "sizeOpen" /\ where = "sizeGet",
           Open(t, "read", code) /\ (code = "ok" => Goto(t, where)), UNCHANGED locals
    PROVE  LocalsOK'
<1>1. handle[t] = NoHandle /\ stack[t] = <<>> /\ arg[t] \in Requests /\ arg[t].path \in Path
    BY AtWork, AtRest DEF Reading, Removing
<1>2. stack' = stack /\ got' = got /\ entries' = entries
    BY DEF locals
<1>3. CASE code = "ok"
  <2>1. PICK h \in {NoHandle} \cup OpenFile : h = [path |-> arg[t].path, access |-> "read"]
      BY <1>1, HandleFacts
  <2>2. handle' = [handle EXCEPT ![t] = h] /\ Goto(t, where)
      BY <1>3, <2>1 DEF Open
  <2>3. ThreadOK(where, arg[t], h, stack[t])
      BY <1>1, <2>1, RequestFacts, AtRest DEF ThreadOK, Reading, Removing
  <2>4. stack[t] \in Seq(Entries)
      BY AtWork
  <2>5. QED
      BY <1>2, <2>2, <2>3, <2>4, Same, GotoLocals
<1>4. CASE code # "ok"
  <2>1. PICK err \in Errors : err = from_win32(code)
      BY ErrorFacts
  <2>2. Return(t, err) /\ handle' = handle
      BY <1>4, <2>1 DEF Open
  <2>3. QED
      BY <1>1, <1>2, <2>2, ReturnLocals
<1>5. QED
    BY <1>3, <1>4

LEMMA FileStepLocals ==
    ASSUME LocalsOK, node \in [Path -> Node], NEW t \in Thread,
           \/ ReadOpen(t) \/ ReadSize(t) \/ ReadFile(t) \/ WriteOpen(t) \/ WriteFile(t)
           \/ SizeOpen(t) \/ SizeGet(t) \/ Remove(t)
    PROVE  LocalsOK'
<1>1. pc[t] \in {"readOpen", "readSize", "readFile", "writeOpen", "writeFile", "sizeOpen", "sizeGet", "remove"}
    BY DEF ReadOpen, ReadSize, ReadFile, WriteOpen, WriteFile, SizeOpen, SizeGet, Remove
<1>2. /\ stack[t] = <<>> /\ arg[t] \in Requests /\ arg[t].path \in Path /\ stack[t] \in Seq(Entries)
      /\ handle[t] \in {NoHandle} \cup OpenFile
    BY <1>1, AtWork, AtRest DEF Removing
<1>3. "IOError" \in Errors /\ "None" \in Errors
    BY DEF Errors
<1>4. CASE ReadOpen(t)
  <2>1. "readSize" \in PCs
      BY DEF PCs, Reading
  <2>2. QED
      BY <1>4, <2>1, ReadOpenLocals DEF ReadOpen
<1>5. CASE SizeOpen(t)
  <2>1. "sizeGet" \in PCs
      BY DEF PCs, Reading
  <2>2. QED
      BY <1>5, <2>1, ReadOpenLocals DEF SizeOpen
<1>6. CASE ReadSize(t)
  <2>1. stack' = stack /\ got' = got /\ entries' = entries /\ pc[t] = "readSize"
      BY <1>6 DEF ReadSize, locals
  <2>2. CASE Goto(t, "readFile") /\ handle' = handle
    <3>1. ThreadOK("readFile", arg[t], handle[t], stack[t])
        BY <1>2, <2>1, RequestFacts, AtRest DEF ThreadOK, Reading, Removing
    <3>2. "readFile" \in PCs
        BY DEF PCs, Reading
    <3>3. PICK h \in {NoHandle} \cup OpenFile : h = handle[t]
        BY <1>2
    <3>4. handle' = [handle EXCEPT ![t] = h] /\ ThreadOK("readFile", arg[t], h, stack[t])
        BY <2>2, <3>1, <3>3, Same
    <3>5. Goto(t, "readFile")
        BY <2>2
    <3>6. QED
        BY <1>2, <2>1, <3>2, <3>4, <3>5, Same, GotoLocals
  <2>3. CASE CloseHandle(t) /\ Return(t, "IOError")
      BY <1>2, <1>3, <2>1, <2>3, ReturnLocals
  <2>4. QED
      BY <1>6, <2>2, <2>3 DEF ReadSize
<1>7. CASE ReadFile(t)
  <2>1. stack' = stack /\ entries' = entries /\ CloseHandle(t) /\ pc[t] = "readFile"
      BY <1>7 DEF ReadFile
  <2>2. PICK g \in Contents : g = node[arg[t].path].data
      BY <1>2, Kinds
  <2>3. (got' = [got EXCEPT ![t] = g] /\ Return(t, "None")) \/ (got' = got /\ Return(t, "IOError"))
      BY <1>7, <2>2 DEF ReadFile
  <2>4. QED
      BY <1>2, <1>3, <2>1, <2>3, ReturnLocals
<1>8. CASE WriteOpen(t)
  <2>1. PICK code : code = IF arg[t].flag THEN CreateAlways(arg[t].path) ELSE CreateNew(arg[t].path)
      OBVIOUS
  <2>2. /\ stack' = stack /\ got' = got /\ entries' = entries /\ pc[t] = "writeOpen"
        /\ Open(t, "write", code) /\ (code = "ok" => Goto(t, "writeFile"))
      BY <1>8, <2>1 DEF WriteOpen, locals
  <2>3. handle[t] = NoHandle
      BY <2>2, AtRest DEF Reading
  <2>4. CASE code = "ok"
    <3>1. PICK h \in {NoHandle} \cup OpenFile : h = [path |-> arg[t].path, access |-> "write"]
        BY <1>2, HandleFacts
    <3>2. handle' = [handle EXCEPT ![t] = h] /\ Goto(t, "writeFile")
        BY <2>2, <2>4, <3>1 DEF Open
    <3>3. ThreadOK("writeFile", arg[t], h, stack[t])
        BY <1>2, <2>2, <3>1, RequestFacts, AtRest DEF ThreadOK, Reading, Removing
    <3>4. "writeFile" \in PCs
        BY DEF PCs
    <3>5. QED
        BY <1>2, <2>2, <3>2, <3>3, <3>4, Same, GotoLocals
  <2>5. CASE code # "ok"
    <3>1. PICK err \in Errors : err = from_win32(code)
        BY ErrorFacts
    <3>2. Return(t, err) /\ handle' = handle
        BY <2>2, <2>5, <3>1 DEF Open
    <3>3. QED
        BY <1>2, <2>2, <2>3, <3>2, ReturnLocals
  <2>6. QED
      BY <2>4, <2>5
<1>9. CASE WriteFile(t)
  <2>1. /\ stack' = stack /\ got' = got /\ entries' = entries /\ CloseHandle(t)
        /\ Return(t, "None") \/ Return(t, "IOError")
      BY <1>9 DEF WriteFile, locals
  <2>2. QED
      BY <1>2, <1>3, <2>1, ReturnLocals
<1>10. CASE SizeGet(t)
  <2>1. /\ stack' = stack /\ got' = got /\ entries' = entries /\ CloseHandle(t)
        /\ Return(t, "None") \/ Return(t, "IOError")
      BY <1>10 DEF SizeGet, locals
  <2>2. QED
      BY <1>2, <1>3, <2>1, ReturnLocals
<1>11. CASE Remove(t)
  <2>1. PICK err \in Errors : err = from_win32(DeleteFile(arg[t].path))
      BY ErrorFacts
  <2>2. /\ stack' = stack /\ got' = got /\ entries' = entries /\ handle' = handle
        /\ Return(t, err) /\ pc[t] = "remove"
      BY <1>11, <2>1 DEF Remove, locals
  <2>3. handle[t] = NoHandle
      BY <2>2, AtRest DEF Reading
  <2>4. QED
      BY <1>2, <2>2, <2>3, ReturnLocals
<1>12. QED
    BY <1>4, <1>5, <1>6, <1>7, <1>8, <1>9, <1>10, <1>11

\* A step that moves only in the directories of its thread.
LEMMA StackLocals ==
    ASSUME LocalsOK, NEW t \in Thread, pc[t] # "idle", NEW w \in PCs, Goto(t, w), NEW s \in Seq(Entries),
           handle[t] = NoHandle, handle' = handle, got' = got, stack' = [stack EXCEPT ![t] = s],
           entries' = entries \/ \E c \in Path : entries' = [entries EXCEPT ![t] = @ \cup {c}],
           ThreadOK(w, arg[t], NoHandle, s)
    PROVE  LocalsOK'
<1>1. PICK e \in SUBSET Path : entries' = [entries EXCEPT ![t] = e]
  <2>1. CASE entries' = entries
      BY <2>1, Same
  <2>2. CASE \E c \in Path : entries' = [entries EXCEPT ![t] = @ \cup {c}]
    <3>1. PICK c \in Path : entries' = [entries EXCEPT ![t] = @ \cup {c}]
        BY <2>2
    <3>2. entries[t] \cup {c} \in SUBSET Path
        BY Same
    <3>3. QED
        BY <3>1, <3>2
  <2>3. QED
      BY <2>1, <2>2
<1>2. handle' = [handle EXCEPT ![t] = NoHandle]
    BY Same
<1>3. QED
    BY <1>1, <1>2, GotoLocals

\* What the removal of a subtree asks of the directories it is in.
LEMMA RemovingOK ==
    ASSUME LocalsOK, NEW t \in Thread, pc[t] \in {"rmFirst"} \cup Removing,
           NEW w \in Removing, NEW s, Len(s) >= 1,
           w \in {"rmDir", "rmFile"} => s[Len(s)].at \in Path
    PROVE  w \in PCs /\ ThreadOK(w, arg[t], NoHandle, s)
<1>1. arg[t] # NoRequest /\ arg[t].op = "rmdir" /\ arg[t].flag
    BY AtWork, RequestFacts DEF ThreadOK, Removing
<1>2. w \in PCs /\ w # "idle"
    BY DEF PCs, Removing
<1>3. QED
    BY <1>1, <1>2 DEF ThreadOK, Reading, Removing

LEMMA RmEnterLocals ==
    ASSUME LocalsOK, NEW t \in Thread, pc[t] \in {"rmFirst", "rmDir"}, NEW p \in Path, RmEnter(t, p),
           handle' = handle, got' = got, entries' = entries
    PROVE  LocalsOK'
<1>1. handle[t] = NoHandle /\ stack[t] \in Seq(Entries) /\ Len(stack[t]) \in Nat
    BY AtWork, AtRest DEF Reading
<1>2. CASE FindFirst(p) = "ok"
  <2>0. PICK s : s = Append(stack[t], InDir(p, Cwd))
      OBVIOUS
  <2>1. s \in Seq(Entries) /\ s = Append(stack[t], InDir(p, Cwd)) /\ Len(s) = Len(stack[t]) + 1
      BY <1>1, <2>0, AppendEntry
  <2>2. stack' = [stack EXCEPT ![t] = s] /\ Goto(t, "rmNext")
      BY <1>2, <2>1 DEF RmEnter
  <2>a. Len(s) >= 1 /\ "rmNext" \in Removing /\ pc[t] \in {"rmFirst"} \cup Removing
      BY <1>1, <2>1 DEF Removing
  <2>3. "rmNext" \in PCs /\ ThreadOK("rmNext", arg[t], NoHandle, s)
      BY <2>a, RemovingOK
  <2>4. pc[t] # "idle"
      OBVIOUS
  <2>5. QED
      BY <1>1, <2>1, <2>2, <2>3, <2>4, StackLocals
<1>3. CASE FindFirst(p) # "ok"
  <2>1. PICK err \in Errors : err = from_win32(FindFirst(p))
      BY ErrorFacts
  <2>2. FindClose(t) /\ Return(t, err)
      BY <1>3, <2>1 DEF RmEnter, RmFail
  <2>3. QED
      BY <1>1, <2>2, ReturnLocals
<1>4. QED
    BY <1>2, <1>3

LEMMA RmFailLocals ==
    ASSUME LocalsOK, NEW t \in Thread, handle[t] = NoHandle, NEW code, RmFail(t, code),
           handle' = handle, got' = got, entries' = entries
    PROVE  LocalsOK'
<1>1. PICK err \in Errors : err = from_win32(code)
    BY ErrorFacts
<1>2. FindClose(t) /\ Return(t, err)
    BY <1>1 DEF RmFail
<1>3. QED
    BY <1>2, ReturnLocals

LEMMA ListLocals ==
    ASSUME LocalsOK, NEW t \in Thread, ListFirst(t) \/ ListNext(t) \/ MkDir(t) \/ RmPlain(t)
    PROVE  LocalsOK'
<1>1. pc[t] \in {"listFirst", "listNext", "mkdir", "rmPlain"}
    BY DEF ListFirst, ListNext, MkDir, RmPlain
<1>2. /\ handle[t] = NoHandle /\ arg[t] \in Requests /\ arg[t].path \in Path /\ stack[t] \in Seq(Entries)
      /\ Len(stack[t]) \in Nat
    BY <1>1, AtWork, AtRest DEF Reading
<1>3. "None" \in Errors
    BY DEF Errors
<1>4. /\ arg[t].op = "list" => ThreadOK("listFirst", arg[t], NoHandle, <<>>)
      /\ "listNext" \in PCs /\ "mkdir" \in PCs
    BY <1>2, RequestFacts DEF ThreadOK, PCs, Reading, Removing
<1>5. ASSUME NEW s, arg[t].op = "list", Len(s) = 1, s[1].dir = arg[t].path
      PROVE  ThreadOK("listNext", arg[t], NoHandle, s)
    BY <1>2, <1>5, RequestFacts DEF ThreadOK, Reading, Removing
<1>6. CASE ListFirst(t)
  <2>1. handle' = handle /\ got' = got /\ entries' = entries /\ arg[t].op = "list" /\ stack[t] = <<>>
      BY <1>6, AtRest DEF ListFirst, Removing
  <2>2. CASE FindFirst(arg[t].path) = "ok"
    <3>1. PICK s \in Seq(Entries) : s = <<InDir(arg[t].path, Cwd)>> /\ Len(s) = 1 /\ s[1].dir = arg[t].path
      <4>1. PICK s : s = <<InDir(arg[t].path, Cwd)>>
          OBVIOUS
      <4>2. s \in Seq(Entries) /\ Len(s) = 1 /\ s[1].dir = arg[t].path
          BY <1>2, <4>1, OneEntry
      <4>3. QED
          BY <4>1, <4>2
    <3>2. stack' = [stack EXCEPT ![t] = s] /\ Goto(t, "listNext")
        BY <1>6, <2>2, <3>1 DEF ListFirst
    <3>3. QED
        BY <1>1, <1>2, <1>4, <1>5, <2>1, <3>1, <3>2, StackLocals
  <2>3. CASE FindFirst(arg[t].path) # "ok"
    <3>1. PICK err \in Errors : err = from_win32(FindFirst(arg[t].path))
        BY ErrorFacts
    <3>2. stack' = stack /\ Return(t, err)
        BY <1>6, <2>3, <3>1 DEF ListFirst
    <3>3. QED
        BY <1>2, <2>1, <3>2, ReturnLocals
  <2>4. QED
      BY <2>2, <2>3
<1>7. CASE ListNext(t)
  <2>1. /\ handle' = handle /\ got' = got /\ arg[t].op = "list" /\ pc[t] = "listNext"
        /\ Len(stack[t]) = 1 /\ stack[t][1].dir = arg[t].path
      BY <1>7, AtRest DEF ListNext
  <2>2. Top(t).dir = arg[t].path
      BY <2>1 DEF Top
  <2>3. ASSUME NEW c \in Nexts(Top(t).dir, Top(t).at),
               stack' = [stack EXCEPT ![t] = <<InDir(Top(t).dir, c)>>],
               entries' = [entries EXCEPT ![t] = @ \cup {c}], Goto(t, "listNext")
        PROVE  LocalsOK'
    <3>1. c \in Path
        BY NextsFacts
    <3>2. PICK s \in Seq(Entries) : s = <<InDir(arg[t].path, c)>> /\ Len(s) = 1 /\ s[1].dir = arg[t].path
      <4>1. PICK s : s = <<InDir(arg[t].path, c)>>
          OBVIOUS
      <4>2. s \in Seq(Entries) /\ Len(s) = 1 /\ s[1].dir = arg[t].path
          BY <1>2, <3>1, <4>1, OneEntry
      <4>3. QED
          BY <4>1, <4>2
    <3>3. stack' = [stack EXCEPT ![t] = s]
        BY <2>2, <2>3, <3>2
    <3>4. ThreadOK("listNext", arg[t], NoHandle, s)
        BY <1>5, <2>1, <3>2
    <3>5. QED
        BY <1>1, <1>2, <1>4, <2>1, <2>3, <3>1, <3>3, <3>4, StackLocals
  <2>4. CASE FindClose(t) /\ Return(t, "None") /\ entries' = entries
      BY <1>2, <1>3, <2>1, <2>4, ReturnLocals
  <2>5. QED
      BY <1>7, <2>3, <2>4 DEF ListNext
<1>8. CASE MkDir(t)
  <2>1. /\ handle' = handle /\ got' = got /\ entries' = entries /\ arg[t].op = "mkdirs" /\ pc[t] = "mkdir"
        /\ Len(stack[t]) < Len(prefixes[arg[t].path])
      BY <1>8, AtRest DEF MkDir
  <2>2. PICK p : p = prefixes[arg[t].path][Len(stack[t]) + 1]
      OBVIOUS
  <2>3. /\ p \in Path
        /\ p # arg[t].path => Len(stack[t]) + 1 < Len(prefixes[arg[t].path])
    <3>1. Len(stack[t]) + 1 \in 1 .. Len(prefixes[arg[t].path])
        BY <1>2, <2>1, PrefixesFacts
    <3>2. prefixes[arg[t].path] \in Seq(Path)
        BY <1>2, PrefixesFacts
    <3>3. prefixes[arg[t].path][Len(prefixes[arg[t].path])] = arg[t].path
        BY <1>2, PrefixesFacts
    <3>4. QED
        BY <1>2, <2>1, <2>2, <3>1, <3>2, <3>3
  <2>4. CASE p # arg[t].path
    <3>1. PICK s \in Seq(Entries) : s = Append(stack[t], InDir(p, Cwd)) /\ Len(s) = Len(stack[t]) + 1
      <4>1. stack[t] \in Seq(Entries) /\ Cwd \in Path \cup {Cwd}
          BY <1>2
      <4>2. /\ Append(stack[t], InDir(p, Cwd)) \in Seq(Entries)
            /\ Len(Append(stack[t], InDir(p, Cwd))) = Len(stack[t]) + 1
          BY ONLY <2>3, <4>1, AppendEntry
      <4>3. QED
          BY ONLY <4>2
    <3>2. stack' = [stack EXCEPT ![t] = Append(@, InDir(p, Cwd))] /\ Goto(t, "mkdir")
        BY <1>8, <2>2, <2>4 DEF MkDir
    <3>3. stack' = [stack EXCEPT ![t] = s]
        BY <3>1, <3>2
    <3>4. ThreadOK("mkdir", arg[t], NoHandle, s)
        BY <1>2, <2>1, <2>3, <2>4, <3>1, RequestFacts DEF ThreadOK, Reading, Removing
    <3>5. QED
        BY <1>1, <1>2, <1>4, <2>1, <3>2, <3>3, <3>4, StackLocals
  <2>5. CASE p = arg[t].path
    <3>1. PICK err \in Errors :
             err = IF CreateDirectory(p) = "ALREADY_EXISTS" THEN "None" ELSE from_win32(CreateDirectory(p))
        BY <1>3, ErrorFacts
    <3>2. FindClose(t) /\ Return(t, err)
        BY <1>8, <2>2, <2>5, <3>1 DEF MkDir
    <3>3. QED
        BY <1>2, <2>1, <3>2, ReturnLocals
  <2>6. QED
      BY <2>4, <2>5
<1>9. CASE RmPlain(t)
  <2>1. PICK err \in Errors : err = from_win32(RemoveDirectory(arg[t].path))
      BY ErrorFacts
  <2>2. /\ stack' = stack /\ got' = got /\ entries' = entries /\ handle' = handle
        /\ Return(t, err) /\ pc[t] = "rmPlain"
      BY <1>9, <2>1 DEF RmPlain, locals
  <2>3. stack[t] = <<>>
      BY <2>2, AtRest DEF Removing
  <2>4. QED
      BY <1>2, <2>2, <2>3, ReturnLocals
<1>10. QED
    BY <1>6, <1>7, <1>8, <1>9

LEMMA RemovingLocals ==
    ASSUME LocalsOK, NEW t \in Thread, RmFirst(t) \/ RmNext(t) \/ RmDir(t) \/ RmFile(t) \/ RmSelf(t)
    PROVE  LocalsOK'
<1>1. pc[t] \in {"rmFirst"} \cup Removing
    BY DEF RmFirst, RmNext, RmDir, RmFile, RmSelf, Removing
<1>2. /\ handle[t] = NoHandle /\ arg[t] \in Requests /\ arg[t].path \in Path /\ stack[t] \in Seq(Entries)
      /\ Len(stack[t]) \in Nat
    BY <1>1, AtWork, AtRest DEF Reading, Removing
<1>3. handle' = handle /\ got' = got /\ entries' = entries
    BY DEF RmFirst, RmNext, RmDir, RmFile, RmSelf, locals
<1>4. pc[t] # "rmFirst" => Len(stack[t]) >= 1
    BY <1>1, AtRest DEF Removing
<1>5. pc[t] # "idle"
    BY <1>1 DEF Removing
<1>6. CASE RmFirst(t)
    BY <1>2, <1>3, <1>6, RmEnterLocals DEF RmFirst
<1>7. CASE RmDir(t)
  <2>1. Top(t).at \in Path
      BY <1>7, AtRest DEF RmDir
  <2>2. QED
      BY <1>3, <1>7, <2>1, RmEnterLocals DEF RmDir
<1>8. CASE RmNext(t)
  <2>1. Len(stack[t]) >= 1
      BY <1>4, <1>8 DEF RmNext
  <2>2. ASSUME NEW c \in Nexts(Top(t).dir, Top(t).at), NEW w \in {"rmDir", "rmFile"},
               stack' = [stack EXCEPT ![t] = Append(Rest(t), InDir(Top(t).dir, c))], Goto(t, w)
        PROVE  LocalsOK'
    <3>1. c \in Path
        BY NextsFacts
    <3>2. Top(t).dir \in Path /\ Rest(t) \in Seq(Entries)
        BY <1>5, <2>1, TopFacts
    <3>3. PICK s \in Seq(Entries) : /\ s = Append(Rest(t), InDir(Top(t).dir, c))
                                    /\ Len(s) = Len(Rest(t)) + 1 /\ s[Len(s)] = InDir(Top(t).dir, c)
                                    /\ Len(Rest(t)) \in Nat
        BY <3>1, <3>2, AppendEntry
    <3>4. s[Len(s)].at \in Path /\ Len(s) >= 1
        BY <3>1, <3>2, <3>3, OneEntry
    <3>5. w \in Removing
        BY DEF Removing
    <3>6. w \in PCs /\ ThreadOK(w, arg[t], NoHandle, s)
        BY <1>1, <3>4, <3>5, RemovingOK
    <3>7. stack' = [stack EXCEPT ![t] = s]
        BY <2>2, <3>3
    <3>8. QED
        BY <1>2, <1>3, <1>5, <2>2, <3>6, <3>7, StackLocals
  <2>3. CASE Goto(t, "rmSelf") /\ stack' = stack
    <3>1. PICK s \in Seq(Entries) : s = stack[t]
        BY <1>2
    <3>2. stack' = [stack EXCEPT ![t] = s]
        BY <2>3, <3>1, Same
    <3>3. "rmSelf" \in PCs /\ ThreadOK("rmSelf", arg[t], NoHandle, s)
        BY <1>1, <2>1, <3>1, RemovingOK DEF Removing
    <3>4. Goto(t, "rmSelf")
        BY <2>3
    <3>5. QED
        BY <1>2, <1>3, <1>5, <3>2, <3>3, <3>4, StackLocals
  <2>4. QED
      BY <1>8, <2>2, <2>3 DEF RmNext
<1>9. CASE RmFile(t)
  <2>1. Len(stack[t]) >= 1
      BY <1>4, <1>9 DEF RmFile
  <2>2. CASE Goto(t, "rmNext") /\ stack' = stack
    <3>1. PICK s \in Seq(Entries) : s = stack[t]
        BY <1>2
    <3>2. stack' = [stack EXCEPT ![t] = s]
        BY <2>2, <3>1, Same
    <3>3. "rmNext" \in PCs /\ ThreadOK("rmNext", arg[t], NoHandle, s)
        BY <1>1, <2>1, <3>1, RemovingOK DEF Removing
    <3>4. Goto(t, "rmNext")
        BY <2>2
    <3>5. QED
        BY <1>2, <1>3, <1>5, <3>2, <3>3, <3>4, StackLocals
  <2>3. CASE RmFail(t, DeleteFile(Top(t).at))
      BY <1>2, <1>3, <2>3, RmFailLocals
  <2>4. QED
      BY <1>9, <2>2, <2>3 DEF RmFile
<1>10. CASE RmSelf(t)
  <2>1. Len(stack[t]) >= 1
      BY <1>4, <1>10 DEF RmSelf
  <2>2. Rest(t) \in Seq(Entries)
      BY <1>5, <2>1, TopFacts
  <2>3. CASE RmFail(t, RemoveDirectory(Top(t).dir))
      BY <1>2, <1>3, <2>3, RmFailLocals
  <2>4. CASE stack' = [stack EXCEPT ![t] = Rest(t)] /\ Rest(t) = <<>> /\ Return(t, "None")
    <3>1. FindClose(t)
        BY <2>4 DEF FindClose
    <3>2. Return(t, "None") /\ "None" \in Errors
        BY <2>4 DEF Errors
    <3>3. QED
        BY <1>2, <1>3, <3>1, <3>2, ReturnLocals
  <2>5. CASE stack' = [stack EXCEPT ![t] = Rest(t)] /\ Rest(t) # <<>> /\ Goto(t, "rmNext")
    <3>1. PICK s \in Seq(Entries) : s = Rest(t)
        BY <2>2
    <3>2. Len(s) >= 1
        BY <2>5, <3>1
    <3>3. "rmNext" \in PCs /\ ThreadOK("rmNext", arg[t], NoHandle, s)
        BY <1>1, <3>2, RemovingOK DEF Removing
    <3>4. Goto(t, "rmNext") /\ stack' = [stack EXCEPT ![t] = s]
        BY <2>5, <3>1
    <3>5. QED
        BY <1>2, <1>3, <1>5, <3>3, <3>4, StackLocals
  <2>6. QED
      BY <1>10, <2>3, <2>4, <2>5 DEF RmSelf
<1>11. QED
    BY <1>6, <1>7, <1>8, <1>9, <1>10

LEMMA StepLocals ==
    ASSUME LocalsOK, node \in [Path -> Node], NEW t \in Thread, Step(t)
    PROVE  LocalsOK'
BY FileStepLocals, ListLocals, RemovingLocals DEF Step

-----------------------------------------------------------------------------
(* What the calls to Win32 answer *)

LEMMA NotCwd ==
    ASSUME NEW p \in Path
    PROVE  p # Cwd /\ Up[p] \in Path \cup {Cwd} /\ Up[p] # p
<1>1. p \in Nat \ {0} /\ Up[p] < p /\ Up[p] \in Path \cup {Cwd} /\ Cwd = 0
    BY PathAssumption
<1>2. QED
    BY <1>1

LEMMA KindOf ==
    ASSUME node \in [Path -> Node], NEW p \in Path
    PROVE  /\ Exists(p) <=> node[p] # Absent
           /\ IsDir(p) <=> node[p] = Dir
           /\ node[p].kind = "file" <=> Exists(p) /\ ~ IsDir(p)
           /\ node[p] \in Node
           /\ IsDir(Up[p]) <=> Up[p] = Cwd \/ node[Up[p]] = Dir
<1>1. node[p] \in Node
    OBVIOUS
<1>2. Up[p] = Cwd \/ node[Up[p]] \in Node
    BY NotCwd
<1>3. QED
    BY <1>1, <1>2, NotCwd, Kinds DEF Exists, IsDir

LEMMA Codes ==
    ASSUME NEW p, NEW access
    PROVE  /\ OpenExisting(p, access) = "ok" <=> Exists(p) /\ ~ IsDir(p) /\ ~ Refused(p, access)
           /\ CreateAlways(p) = "ok" <=> \/ ~ Exists(p) /\ IsDir(Up[p])
                                         \/ Exists(p) /\ ~ IsDir(p) /\ ~ Refused(p, "write")
           /\ CreateNew(p) = "ok" <=> ~ Exists(p) /\ IsDir(Up[p])
           /\ DeleteFile(p) = "ok" <=> Exists(p) /\ ~ IsDir(p) /\ ~ InUse(p)
           /\ CreateDirectory(p) = "ok" <=> ~ Exists(p) /\ IsDir(Up[p])
           /\ CreateDirectory(p) = "ALREADY_EXISTS" <=> Exists(p)
           /\ RemoveDirectory(p) = "ok" <=> Exists(p) /\ IsDir(p) /\ Empty(p)
           /\ FindFirst(p) = "ok" <=> Exists(p) /\ IsDir(p)
<1>1. Missing(p) # "ok"
    BY DEF Missing
<1>2. OpenExisting(p, access) = "ok" <=> Exists(p) /\ ~ IsDir(p) /\ ~ Refused(p, access)
    BY <1>1 DEF OpenExisting
<1>3. OpenExisting(p, "write") = "ok" <=> Exists(p) /\ ~ IsDir(p) /\ ~ Refused(p, "write")
    BY <1>1 DEF OpenExisting
<1>4. CreateAlways(p) = "ok" <=> \/ ~ Exists(p) /\ IsDir(Up[p])
                                 \/ Exists(p) /\ ~ IsDir(p) /\ ~ Refused(p, "write")
    BY <1>3 DEF CreateAlways
<1>5. CreateNew(p) = "ok" <=> ~ Exists(p) /\ IsDir(Up[p])
    BY DEF CreateNew
<1>6. DeleteFile(p) = "ok" <=> Exists(p) /\ ~ IsDir(p) /\ ~ InUse(p)
    BY <1>1 DEF DeleteFile
<1>7. /\ CreateDirectory(p) = "ok" <=> ~ Exists(p) /\ IsDir(Up[p])
      /\ CreateDirectory(p) = "ALREADY_EXISTS" <=> Exists(p)
    BY DEF CreateDirectory
<1>8. RemoveDirectory(p) = "ok" <=> Exists(p) /\ IsDir(p) /\ Empty(p)
    BY <1>1 DEF RemoveDirectory
<1>9. FindFirst(p) = "ok" <=> Exists(p) /\ IsDir(p)
    BY DEF FindFirst
<1>10. QED
    BY <1>2, <1>4, <1>5, <1>6, <1>7, <1>8, <1>9

LEMMA EmptyIs ==
    ASSUME node \in [Path -> Node], NEW p
    PROVE  Empty(p) <=> \A c \in Children(p) : node[c] = Absent
BY KindOf DEF Empty, Children

\* Below what is not a directory there is nothing.
LEMMA EmptyWhen ==
    ASSUME node \in [Path -> Node], WellFormed(node), NEW p \in Path, node[p] # Dir
    PROVE  \A c \in Children(p) : node[c] = Absent
BY NotCwd DEF WellFormed, Children

-----------------------------------------------------------------------------
(* What a step changes of the disk *)

LEMMA DiskSame ==
    ASSUME DiskOK, UNCHANGED disk, UNCHANGED handle
    PROVE  DiskOK'
BY DEF DiskOK, HandlesOK, Whole, disk

\* A file opened to read, or closed after reading.
LEMMA DiskRead ==
    ASSUME LocalsOK, DiskOK, UNCHANGED disk, NEW t \in Thread, handle[t].access # "write",
           \/ handle' = [handle EXCEPT ![t] = NoHandle]
           \/ \E p \in Path : /\ handle' = [handle EXCEPT ![t] = [path |-> p, access |-> "read"]]
                              /\ node[p].kind = "file" /\ ~ Refused(p, "read")
    PROVE  DiskOK'
<1>1. node' = node /\ torn' = torn
    BY DEF disk
<1>2. handle \in [Thread -> {NoHandle} \cup OpenFile]
    BY DEF LocalsOK
<1>3. \A u \in Thread : u # t => handle'[u] = handle[u]
    BY <1>2
<1>4. handle'[t] = NoHandle
      \/ \E p \in Path : /\ handle'[t] = [path |-> p, access |-> "read"]
                         /\ node[p].kind = "file" /\ ~ Refused(p, "read")
    BY <1>2
<1>5. ASSUME NEW u \in Thread, NEW p \in Path, handle[u] = [path |-> p, access |-> "write"]
      PROVE  handle'[u] = [path |-> p, access |-> "write"]
  <2>1. u # t
      BY <1>5
  <2>2. QED
      BY <1>3, <1>5, <2>1
<1>6. ASSUME NEW p \in Path, NEW u \in Thread, ~ Refused(p, "read"), handle[u] # NoHandle, handle[u].path = p
      PROVE  handle[u].access = "read"
  <2>1. "read" \in ShareMode(handle[u].access)
      BY <1>6 DEF Refused
  <2>2. QED
      BY <2>1 DEF ShareMode
<1>7. HandlesOK'
  <2>1. ASSUME NEW u \in Thread, handle'[u] # NoHandle
        PROVE  node'[handle'[u].path].kind = "file"
    <3>1. CASE u = t
      <4>1. PICK p \in Path : handle'[t] = [path |-> p, access |-> "read"] /\ node[p].kind = "file"
          BY <1>4, <2>1, <3>1
      <4>2. handle'[u].path = p
          BY <3>1, <4>1
      <4>3. QED
          BY <1>1, <4>1, <4>2
    <3>2. CASE u # t
        BY <1>1, <1>3, <2>1, <3>2 DEF DiskOK, HandlesOK
    <3>3. QED
        BY <3>1, <3>2
  <2>2. ASSUME NEW u \in Thread, NEW v \in Thread, u # v, handle'[u] # NoHandle, handle'[v] # NoHandle,
               handle'[u].path = handle'[v].path
        PROVE  handle'[u].access = "read" /\ handle'[v].access = "read"
    <3>1. CASE u # t /\ v # t
        BY <1>3, <2>2, <3>1 DEF DiskOK, HandlesOK
    <3>2. CASE u = t \/ v = t
      <4>1. PICK p \in Path : /\ handle'[t] = [path |-> p, access |-> "read"] /\ ~ Refused(p, "read")
          BY <1>4, <2>2, <3>2
      <4>2. QED
          BY <1>3, <1>6, <2>2, <3>2, <4>1
    <3>3. QED
        BY <3>1, <3>2
  <2>3. QED
      BY <2>1, <2>2 DEF HandlesOK
<1>8. ASSUME NEW p \in Path, node'[p].kind = "file"
      PROVE  Whole(p)'
  <2>1. Whole(p)
      BY <1>1, <1>8 DEF DiskOK
  <2>2. QED
      BY <1>1, <1>5, <2>1 DEF Whole
<1>9. QED
    BY <1>1, <1>7, <1>8 DEF DiskOK

\* A directory made or removed.
LEMMA DiskDir ==
    ASSUME LocalsOK, DiskOK, UNCHANGED <<handle, torn>>, NEW p \in Path,
           \/ node' = [node EXCEPT ![p] = Dir] /\ CreateDirectory(p) = "ok"
           \/ node' = [node EXCEPT ![p] = Absent] /\ RemoveDirectory(p) = "ok"
    PROVE  DiskOK'
<1>1. node \in [Path -> Node] /\ WellFormed(node)
    BY DEF DiskOK
<1>2. PICK x \in {Absent, Dir} : node' = [node EXCEPT ![p] = x] /\ node[p] \in {Absent, Dir}
                                 /\ (x # Absent => Up[p] = Cwd \/ node[Up[p]] = Dir)
                                 /\ (x # Dir => \A c \in Children(p) : node[c] = Absent)
    BY <1>1, Codes, KindOf, EmptyIs
<1>3. node' \in [Path -> Node] /\ WellFormed(node')
    BY <1>1, <1>2, SetNode, NodeFacts
<1>4. /\ node'[p].kind # "file" /\ node[p].kind # "file"
      /\ \A q \in Path : q # p => node'[q] = node[q]
    BY <1>1, <1>2, NodeFacts
<1>5. torn' \subseteq {q \in Path : node'[q].kind = "file"}
    BY <1>4 DEF DiskOK
<1>6. HandlesOK'
  <2>1. ASSUME NEW u \in Thread, handle[u] # NoHandle
        PROVE  node'[handle[u].path].kind = "file"
    <3>1. node[handle[u].path].kind = "file"
        BY <2>1 DEF DiskOK, HandlesOK
    <3>2. handle[u].path \in Path
        BY <2>1 DEF LocalsOK, OpenFile
    <3>3. QED
        BY <1>4, <3>1, <3>2
  <2>2. QED
      BY <2>1 DEF DiskOK, HandlesOK
<1>7. \A q \in Path : node'[q].kind = "file" => Whole(q)'
    BY <1>4 DEF DiskOK, Whole
<1>8. QED
    BY <1>3, <1>5, <1>6, <1>7 DEF DiskOK

LEMMA DiskDelete ==
    ASSUME LocalsOK, DiskOK, UNCHANGED handle, NEW p \in Path, DeleteFile(p) = "ok",
           node' = [node EXCEPT ![p] = Absent], torn' = torn \ {p}
    PROVE  DiskOK'
<1>1. node \in [Path -> Node] /\ WellFormed(node)
    BY DEF DiskOK
<1>2. node[p] # Dir /\ ~ InUse(p)
    BY <1>1, Codes, KindOf
<1>3. node' \in [Path -> Node] /\ WellFormed(node')
    BY <1>1, <1>2, SetNode, NodeFacts, EmptyWhen
<1>4. node'[p].kind # "file" /\ \A q \in Path : q # p => node'[q] = node[q]
    BY <1>1, NodeFacts
<1>5. torn' \subseteq {q \in Path : node'[q].kind = "file"}
    BY <1>4 DEF DiskOK
<1>6. HandlesOK'
  <2>1. ASSUME NEW u \in Thread, handle[u] # NoHandle
        PROVE  node'[handle[u].path].kind = "file"
    <3>1. node[handle[u].path].kind = "file"
        BY <2>1 DEF DiskOK, HandlesOK
    <3>2. handle[u].path \in Path /\ handle[u].path # p
        BY <1>2, <2>1 DEF LocalsOK, OpenFile, InUse
    <3>3. QED
        BY <1>4, <3>1, <3>2
  <2>2. QED
      BY <2>1 DEF DiskOK, HandlesOK
<1>7. \A q \in Path : node'[q].kind = "file" => Whole(q)'
    BY <1>4 DEF DiskOK, Whole
<1>8. QED
    BY <1>3, <1>5, <1>6, <1>7 DEF DiskOK

LEMMA DiskWriteOpen ==
    ASSUME LocalsOK, DiskOK, NEW t \in Thread, NEW p \in Path, handle[t] = NoHandle,
           CreateAlways(p) = "ok" \/ CreateNew(p) = "ok",
           handle' = [handle EXCEPT ![t] = [path |-> p, access |-> "write"]],
           node' = [node EXCEPT ![p] = File(<<>>)], torn' = torn \ {p}
    PROVE  DiskOK'
<1>1. node \in [Path -> Node] /\ WellFormed(node) /\ handle \in [Thread -> {NoHandle} \cup OpenFile]
    BY DEF DiskOK, LocalsOK
<1>2. /\ node[p] # Dir
      /\ Up[p] = Cwd \/ node[Up[p]] = Dir
      /\ node[p] = Absent \/ ~ Refused(p, "write")
    BY <1>1, Codes, KindOf, NodeFacts DEF WellFormed
<1>3. \A u \in Thread : handle[u] # NoHandle => handle[u].path # p
  <2>1. CASE node[p] = Absent
      BY <1>1, <2>1, KindOf DEF DiskOK, HandlesOK
  <2>2. CASE ~ Refused(p, "write")
    <3>1. ShareMode("write") = {}
        BY DEF ShareMode
    <3>2. QED
        BY <1>1, <2>2, <3>1 DEF Refused, OpenFile
  <2>3. QED
      BY <1>2, <2>1, <2>2
<1>4. <<>> \in Contents
    BY DEF Contents
<1>5. node' \in [Path -> Node] /\ WellFormed(node')
    BY <1>1, <1>2, <1>4, SetNode, FileFacts, EmptyWhen
<1>6. node'[p].kind = "file" /\ \A q \in Path : q # p => node'[q] = node[q]
    BY <1>1, <1>4, FileFacts
<1>7. torn' \subseteq {q \in Path : node'[q].kind = "file"}
    BY <1>6 DEF DiskOK
<1>8. /\ handle'[t] = [path |-> p, access |-> "write"]
      /\ \A u \in Thread : u # t => handle'[u] = handle[u]
    BY <1>1
<1>9. HandlesOK'
  <2>1. ASSUME NEW u \in Thread, handle'[u] # NoHandle
        PROVE  node'[handle'[u].path].kind = "file"
    <3>1. CASE u = t
        BY <1>6, <1>8, <3>1
    <3>2. CASE u # t
      <4>1. handle[u].path \in Path /\ node[handle[u].path].kind = "file" /\ handle[u].path # p
          BY <1>1, <1>3, <1>8, <2>1, <3>2 DEF DiskOK, HandlesOK, OpenFile
      <4>2. QED
          BY <1>6, <1>8, <3>2, <4>1
    <3>3. QED
        BY <3>1, <3>2
  <2>2. ASSUME NEW u \in Thread, NEW v \in Thread, u # v, handle'[u] # NoHandle, handle'[v] # NoHandle,
               handle'[u].path = handle'[v].path
        PROVE  handle'[u].access = "read" /\ handle'[v].access = "read"
    <3>1. u # t /\ v # t
        BY <1>3, <1>8, <2>2
    <3>2. QED
        BY <1>8, <2>2, <3>1 DEF DiskOK, HandlesOK
  <2>3. QED
      BY <2>1, <2>2 DEF HandlesOK
<1>10. ASSUME NEW q \in Path, node'[q].kind = "file"
       PROVE  Whole(q)'
  <2>1. CASE q = p
      BY <1>8, <2>1 DEF Whole
  <2>2. CASE q # p
    <3>1. Whole(q) /\ node'[q] = node[q]
        BY <1>6, <1>10, <2>2 DEF DiskOK
    <3>2. \A u \in Thread : handle[u] = [path |-> q, access |-> "write"] => u # t
        BY HandleFacts
    <3>3. QED
        BY <1>8, <2>2, <3>1, <3>2 DEF Whole
  <2>3. QED
      BY <2>1, <2>2
<1>11. QED
    BY <1>5, <1>7, <1>9, <1>10 DEF DiskOK

LEMMA DiskWriteFile ==
    ASSUME LocalsOK, DiskOK, NEW t \in Thread, NEW p \in Path, handle[t] = [path |-> p, access |-> "write"],
           handle' = [handle EXCEPT ![t] = NoHandle],
           NEW bytes \in Contents, node' = [node EXCEPT ![p] = File(bytes)],
           \/ bytes = Bytes(New) /\ torn' = torn
           \/ torn' = torn \cup {p}
    PROVE  DiskOK'
<1>1. node \in [Path -> Node] /\ WellFormed(node) /\ handle \in [Thread -> {NoHandle} \cup OpenFile]
    BY DEF DiskOK, LocalsOK
<1>2. node[p].kind = "file"
  <2>1. handle[t] # NoHandle /\ handle[t].path = p
    <3>1. handle[t].path = p /\ handle[t].access = "write"
        OBVIOUS
    <3>2. NoHandle.access = "none"
        BY DEF NoHandle
    <3>3. QED
        BY <3>1, <3>2
  <2>2. QED
      BY <2>1 DEF DiskOK, HandlesOK
<1>3. node[p] # Dir /\ node[p] # Absent
    BY <1>1, <1>2, Kinds
<1>4. node' \in [Path -> Node] /\ WellFormed(node')
    BY <1>1, <1>3, SetNode, FileFacts, EmptyWhen DEF WellFormed
<1>5. node'[p] = File(bytes) /\ node'[p].kind = "file" /\ \A q \in Path : q # p => node'[q] = node[q]
    BY <1>1, FileFacts
<1>6. torn' \subseteq {q \in Path : node'[q].kind = "file"}
    BY <1>5 DEF DiskOK
<1>7. /\ handle'[t] = NoHandle
      /\ \A u \in Thread : u # t => handle'[u] = handle[u]
    BY <1>1
<1>8. HandlesOK'
  <2>1. ASSUME NEW u \in Thread, handle'[u] # NoHandle
        PROVE  node'[handle'[u].path].kind = "file"
    <3>1. handle'[u] = handle[u] /\ handle[u].path \in Path /\ node[handle[u].path].kind = "file"
        BY <1>1, <1>7, <2>1 DEF DiskOK, HandlesOK, OpenFile
    <3>2. QED
        BY <1>5, <3>1
  <2>2. QED
      BY <1>7, <2>1 DEF DiskOK, HandlesOK
<1>9. ASSUME NEW q \in Path, node'[q].kind = "file"
      PROVE  Whole(q)'
  <2>1. CASE q = p
      BY <1>5, <2>1, FileFacts DEF Whole
  <2>2. CASE q # p
    <3>1. Whole(q) /\ node'[q] = node[q]
        BY <1>5, <1>9, <2>2 DEF DiskOK
    <3>2. \A u \in Thread : handle[u] = [path |-> q, access |-> "write"] => u # t
        BY <2>2
    <3>3. QED
        BY <1>7, <3>1, <3>2 DEF Whole
  <2>3. QED
      BY <2>1, <2>2
<1>10. QED
    BY <1>4, <1>6, <1>8, <1>9 DEF DiskOK

\* A write that fails has written a part.
LEMMA PartsOfNew ==
    ASSUME NEW n \in 0 .. 1
    PROVE  SubSeq(Bytes(New), 1, n) \in Contents
<1>1. PICK S : S = {New}
    OBVIOUS
<1>2. PICK s : s = Bytes(New)
    OBVIOUS
<1>3. s \in Seq(S) /\ Len(s) = 2 /\ s[1] = New
    BY <1>1, <1>2 DEF Bytes
<1>4. CASE n = 0
  <2>1. SubSeq(s, 1, n) = <<>>
      BY <1>3, <1>4, SubSeqEmpty
  <2>2. QED
      BY <1>2, <2>1 DEF Contents
<1>5. CASE n = 1
  <2>0. \A i \in 1 .. 1 : s[i] \in S
      BY <1>1, <1>3
  <2>1. PICK u : u = SubSeq(s, 1, 1)
      OBVIOUS
  <2>2. u \in Seq(S) /\ Len(u) = 1 /\ u[1] = New
      BY <1>3, <2>0, <2>1, SubSeqProperties
  <2>a. PICK v : v = <<New>>
      OBVIOUS
  <2>b. v \in Seq(S) /\ Len(v) = 1 /\ v[1] = New
      BY <1>1, <2>a
  <2>3. u = <<New>>
      BY <2>2, <2>a, <2>b, SeqEqual
  <2>4. QED
      BY <1>2, <1>5, <2>1, <2>3 DEF Contents
<1>6. QED
    BY <1>4, <1>5

LEMMA StepDisk ==
    ASSUME LocalsOK, DiskOK, NEW t \in Thread, Step(t)
    PROVE  DiskOK'
<1>1. pc[t] # "idle"
    BY DEF Step, ReadOpen, ReadSize, ReadFile, WriteOpen, WriteFile, SizeOpen, SizeGet, Remove,
           ListFirst, ListNext, MkDir, RmPlain, RmFirst, RmNext, RmDir, RmFile, RmSelf
<1>2. arg[t].path \in Path /\ node \in [Path -> Node]
    BY <1>1, AtWork DEF DiskOK
<1>3. NoHandle.access = "none"
    BY DEF NoHandle
<1>4. CASE ReadOpen(t) \/ SizeOpen(t)
  <2>1. /\ UNCHANGED disk /\ handle[t] = NoHandle
        /\ Open(t, "read", OpenExisting(arg[t].path, "read"))
      BY <1>4, AtRest DEF ReadOpen, SizeOpen, Reading
  <2>2. CASE OpenExisting(arg[t].path, "read") = "ok"
    <3>1. /\ handle' = [handle EXCEPT ![t] = [path |-> arg[t].path, access |-> "read"]]
          /\ node[arg[t].path].kind = "file" /\ ~ Refused(arg[t].path, "read")
        BY <1>2, <2>1, <2>2, Codes, KindOf DEF Open
    <3>2. QED
        BY <1>2, <1>3, <2>1, <3>1, DiskRead
  <2>3. CASE OpenExisting(arg[t].path, "read") # "ok"
      BY <2>1, <2>3, DiskSame DEF Open
  <2>4. QED
      BY <2>2, <2>3
<1>5. CASE ReadSize(t) \/ ReadFile(t) \/ SizeGet(t)
  <2>1. UNCHANGED disk /\ (handle' = handle \/ CloseHandle(t)) /\ pc[t] \in Reading
      BY <1>5 DEF ReadSize, ReadFile, SizeGet, Reading
  <2>2. handle[t] = [path |-> arg[t].path, access |-> "read"]
      BY <1>1, <2>1, AtRest
  <2>3. handle[t].access = "read"
      BY <2>2
  <2>4. QED
      BY <2>1, <2>3, DiskRead, DiskSame DEF CloseHandle
<1>6. CASE WriteOpen(t)
  <2>1. handle[t] = NoHandle
      BY <1>6, AtRest DEF WriteOpen, Reading
  <2>2. PICK code : code = IF arg[t].flag THEN CreateAlways(arg[t].path) ELSE CreateNew(arg[t].path)
      OBVIOUS
  <2>3. /\ Open(t, "write", code)
        /\ code = "ok" => /\ node' = [node EXCEPT ![arg[t].path] = File(<<>>)]
                          /\ torn' = torn \ {arg[t].path}
        /\ code # "ok" => UNCHANGED disk
      BY <1>6, <2>2 DEF WriteOpen
  <2>4. CASE code = "ok"
    <3>1. /\ handle' = [handle EXCEPT ![t] = [path |-> arg[t].path, access |-> "write"]]
          /\ CreateAlways(arg[t].path) = "ok" \/ CreateNew(arg[t].path) = "ok"
        BY <2>2, <2>3, <2>4 DEF Open
    <3>2. QED
        BY <1>2, <2>1, <2>3, <2>4, <3>1, DiskWriteOpen
  <2>5. CASE code # "ok"
      BY <2>3, <2>5, DiskSame DEF Open
  <2>6. QED
      BY <2>4, <2>5
<1>7. CASE WriteFile(t)
  <2>1. handle[t] = [path |-> arg[t].path, access |-> "write"]
        /\ handle' = [handle EXCEPT ![t] = NoHandle]
      BY <1>7, AtRest DEF WriteFile, CloseHandle
  <2>2. \E bytes \in Contents : /\ node' = [node EXCEPT ![arg[t].path] = File(bytes)]
                                /\ \/ bytes = Bytes(New) /\ torn' = torn
                                   \/ torn' = torn \cup {arg[t].path}
    <3>1. CASE node' = [node EXCEPT ![arg[t].path] = File(Bytes(New))] /\ torn' = torn
      <4>1. Bytes(New) \in Contents
          BY DEF Contents
      <4>2. QED
          BY <3>1, <4>1
    <3>2. CASE \E n \in 0 .. 1 : /\ node' = [node EXCEPT ![arg[t].path] = File(SubSeq(Bytes(New), 1, n))]
                                 /\ torn' = torn \cup {arg[t].path}
      <4>1. PICK n \in 0 .. 1 : /\ node' = [node EXCEPT ![arg[t].path] = File(SubSeq(Bytes(New), 1, n))]
                                /\ torn' = torn \cup {arg[t].path}
          BY <3>2
      <4>2. SubSeq(Bytes(New), 1, n) \in Contents
          BY PartsOfNew
      <4>3. QED
          BY <4>1, <4>2
    <3>3. QED
        BY <1>7, <3>1, <3>2 DEF WriteFile
  <2>3. QED
      BY <1>2, <2>1, <2>2, DiskWriteFile
<1>8. CASE Remove(t)
  <2>1. CASE DeleteFile(arg[t].path) = "ok"
    <3>1. /\ UNCHANGED handle /\ node' = [node EXCEPT ![arg[t].path] = Absent]
          /\ torn' = torn \ {arg[t].path}
        BY <1>8, <2>1 DEF Remove
    <3>2. QED
        BY <1>2, <2>1, <3>1, DiskDelete
  <2>2. CASE DeleteFile(arg[t].path) # "ok"
      BY <1>8, <2>2, DiskSame DEF Remove, disk
  <2>3. QED
      BY <2>1, <2>2
<1>9. CASE ListFirst(t) \/ ListNext(t) \/ RmFirst(t) \/ RmNext(t) \/ RmDir(t)
    BY <1>9, DiskSame DEF ListFirst, ListNext, RmFirst, RmNext, RmDir
<1>10. CASE MkDir(t)
  <2>1. PICK p : p = prefixes[arg[t].path][Len(stack[t]) + 1]
      OBVIOUS
  <2>2. p \in Path
    <3>1. Len(stack[t]) < Len(prefixes[arg[t].path]) /\ Len(stack[t]) \in Nat
        BY <1>1, <1>10, AtRest, AtWork DEF MkDir
    <3>2. Len(stack[t]) + 1 \in 1 .. Len(prefixes[arg[t].path])
        BY <1>2, <3>1, PrefixesFacts
    <3>3. prefixes[arg[t].path] \in Seq(Path)
        BY <1>2, PrefixesFacts
    <3>4. QED
        BY <2>1, <3>2, <3>3
  <2>3. UNCHANGED <<handle, torn>>
        /\ node' = IF CreateDirectory(p) = "ok" THEN [node EXCEPT ![p] = Dir] ELSE node
      BY <1>10, <2>1 DEF MkDir
  <2>4. QED
      BY <2>2, <2>3, DiskDir, DiskSame DEF disk
<1>11. CASE RmPlain(t)
  <2>1. UNCHANGED <<handle, torn>>
        /\ node' = IF RemoveDirectory(arg[t].path) = "ok" THEN [node EXCEPT ![arg[t].path] = Absent] ELSE node
      BY <1>11 DEF RmPlain
  <2>2. QED
      BY <1>2, <2>1, DiskDir, DiskSame DEF disk
<1>12. CASE RmFile(t)
  <2>1. PICK p : p = Top(t).at
      OBVIOUS
  <2>2. p \in Path
      BY <1>1, <1>12, <2>1, AtRest DEF RmFile
  <2>3. handle' = handle /\ IF DeleteFile(p) = "ok"
                            THEN node' = [node EXCEPT ![p] = Absent] /\ torn' = torn \ {p}
                            ELSE UNCHANGED disk
      BY <1>12, <2>1 DEF RmFile
  <2>4. QED
      BY <2>2, <2>3, DiskDelete, DiskSame
<1>13. CASE RmSelf(t)
  <2>1. PICK p : p = Top(t).dir
      OBVIOUS
  <2>2. p \in Path
    <3>1. Len(stack[t]) >= 1
        BY <1>1, <1>13, AtRest DEF RmSelf, Removing
    <3>2. QED
        BY <1>1, <2>1, <3>1, TopFacts
  <2>3. UNCHANGED <<handle, torn>>
        /\ node' = IF RemoveDirectory(p) = "ok" THEN [node EXCEPT ![p] = Absent] ELSE node
      BY <1>13, <2>1 DEF RmSelf
  <2>4. QED
      BY <2>2, <2>3, DiskDir, DiskSame DEF disk
<1>14. QED
    BY <1>4, <1>5, <1>6, <1>7, <1>8, <1>9, <1>10, <1>11, <1>12, <1>13 DEF Step

-----------------------------------------------------------------------------
(* The asynchronous calls *)

LEMMA StepMoves ==
    ASSUME LocalsOK, NEW t \in Thread, Step(t)
    PROVE  pc[t] # "idle" /\ \A u \in Thread : u # t => pc'[u] = pc[u]
<1>1. pc[t] # "idle"
    BY DEF Step, ReadOpen, ReadSize, ReadFile, WriteOpen, WriteFile, SizeOpen, SizeGet, Remove,
           ListFirst, ListNext, MkDir, RmPlain, RmFirst, RmNext, RmDir, RmFile, RmSelf
<1>2. \E w : pc' = [pc EXCEPT ![t] = w]
  <2>1. ASSUME (\E w : Goto(t, w)) \/ (\E err : Return(t, err))
        PROVE  \E w : pc' = [pc EXCEPT ![t] = w]
      BY <2>1 DEF Goto, Return
  <2>2. (\E w : Goto(t, w)) \/ (\E err : Return(t, err))
    <3>1. CASE ReadOpen(t) \/ ReadSize(t) \/ ReadFile(t) \/ WriteOpen(t) \/ WriteFile(t)
               \/ SizeOpen(t) \/ SizeGet(t) \/ Remove(t)
        BY <3>1 DEF ReadOpen, ReadSize, ReadFile, WriteOpen, WriteFile, SizeOpen, SizeGet, Remove, Open
    <3>2. CASE ListFirst(t) \/ ListNext(t) \/ MkDir(t) \/ RmPlain(t)
        BY <3>2 DEF ListFirst, ListNext, MkDir, RmPlain
    <3>3. CASE RmFirst(t) \/ RmNext(t) \/ RmDir(t) \/ RmFile(t) \/ RmSelf(t)
        BY <3>3 DEF RmFirst, RmNext, RmDir, RmFile, RmSelf, RmEnter, RmFail
    <3>4. QED
        BY <3>1, <3>2, <3>3 DEF Step
  <2>3. QED
      BY <2>1, <2>2
<1>3. pc \in [Thread -> PCs]
    BY DEF LocalsOK
<1>4. QED
    BY <1>1, <1>2, <1>3

LEMMA CallsSame ==
    ASSUME CallsOK, UNCHANGED <<calls, async>>, pc'[Worker] # "idle" => pc[Worker] # "idle"
    PROVE  CallsOK'
BY DEF CallsOK, Pending, async

LEMMA JobFacts ==
    ASSUME CallsOK
    PROVE  /\ \A x \in Jobs : x.id \in JobId /\ x.request \in Requests /\ x # NoJob
           /\ jobs \subseteq Jobs /\ job \in Jobs \cup {NoJob}
<1>1. ASSUME NEW x \in Jobs
      PROVE  x.id \in JobId /\ x.request \in Requests /\ x # NoJob
  <2>1. x.id \in JobId /\ x.request \in Requests
      BY DEF Jobs, AsyncRequests
  <2>2. NoJob.request = NoRequest
      BY DEF NoJob
  <2>3. QED
      BY <2>1, <2>2, RequestFacts
<1>2. QED
    BY <1>1 DEF CallsOK

LEMMA CallCalls ==
    ASSUME CallsOK, NEW t \in Client, NEW r \in Requests, LocalsOK, Call(t, r)
    PROVE  CallsOK'
<1>1. calls' = [calls EXCEPT ![t] = @ + 1] /\ calls[t] < MaxCalls /\ calls \in [Client -> 0 .. MaxCalls]
    BY DEF Call, CallsOK
<1>2. calls' \in [Client -> 0 .. MaxCalls] /\ \A c \in Client : calls'[c] >= calls[c]
    BY <1>1, CallsAssumption
<1>3. UNCHANGED async
    BY DEF Call
<1>4. pc'[Worker] = pc[Worker]
    BY WorkerAssumption DEF Call, Begin, LocalsOK, Thread
<1>5. asked' \subseteq {j \in JobId : j[2] <= calls'[j[1]]}
  <2>1. ASSUME NEW j \in asked
        PROVE  j \in JobId /\ j[2] <= calls'[j[1]]
    <3>1. j \in JobId /\ j[2] <= calls[j[1]]
        BY DEF CallsOK
    <3>2. j[1] \in Client /\ j[2] \in Int
        BY <3>1 DEF JobId
    <3>3. calls[j[1]] \in Int /\ calls'[j[1]] \in Int /\ calls'[j[1]] >= calls[j[1]]
        BY <1>1, <1>2, <3>2, CallsAssumption
    <3>4. QED
        BY <3>1, <3>2, <3>3
  <2>2. QED
      BY <1>3, <2>1 DEF async
<1>6. QED
    BY <1>2, <1>3, <1>4, <1>5 DEF CallsOK, Pending, async

LEMMA AsyncCallCalls ==
    ASSUME CallsOK, NEW t \in Client, NEW r \in AsyncRequests, AsyncCall(t, r)
    PROVE  CallsOK'
<1>1. /\ calls' = [calls EXCEPT ![t] = @ + 1] /\ calls[t] < MaxCalls /\ calls \in [Client -> 0 .. MaxCalls]
      /\ UNCHANGED <<executor, job, pc>>
    BY DEF AsyncCall, CallsOK
<1>2. /\ calls' \in [Client -> 0 .. MaxCalls] /\ \A c \in Client : calls'[c] >= calls[c]
      /\ calls'[t] = calls[t] + 1 /\ calls[t] + 1 \in 1 .. MaxCalls /\ calls[t] \in Nat
    BY <1>1, CallsAssumption
<1>3. PICK id : id = <<t, calls[t] + 1>>
    OBVIOUS
<1>4. id \in JobId /\ id[1] = t /\ id[2] = calls[t] + 1
    BY <1>2, <1>3 DEF JobId
<1>5. asked' = asked \cup {id}
    BY <1>3 DEF AsyncCall
<1>6. id \notin asked
  <2>1. id \in asked => id[2] <= calls[id[1]]
      BY DEF CallsOK
  <2>2. QED
      BY <1>2, <1>4, <2>1
<1>7. asked' \subseteq {j \in JobId : j[2] <= calls'[j[1]]}
  <2>1. ASSUME NEW j \in asked
        PROVE  j \in JobId /\ j[2] <= calls'[j[1]]
    <3>1. j \in JobId /\ j[2] <= calls[j[1]]
        BY DEF CallsOK
    <3>2. j[1] \in Client /\ j[2] \in Int
        BY <3>1 DEF JobId
    <3>3. calls[j[1]] \in Int /\ calls'[j[1]] \in Int /\ calls'[j[1]] >= calls[j[1]]
        BY <1>1, <1>2, <3>2, CallsAssumption
    <3>4. QED
        BY <3>1, <3>2, <3>3
  <2>2. id[2] <= calls'[id[1]]
      BY <1>2, <1>4
  <2>3. QED
      BY <1>4, <1>5, <2>1, <2>2
<1>8. ~ Pending(id) /\ called[id] = 0
    BY <1>4, <1>6 DEF CallsOK
<1>9. called \in [JobId -> 0 .. 1]
    BY DEF CallsOK
<1>10. CASE executor
  <2>1. PICK x : x = [id |-> id, request |-> r]
      OBVIOUS
  <2>2. x \in Jobs /\ x.id = id
      BY <1>4, <2>1 DEF Jobs
  <2>3. jobs' = jobs \cup {x} /\ called' = called
      BY <1>3, <1>10, <2>1 DEF AsyncCall
  <2>4. \A j \in JobId : Pending(j)' <=> Pending(j) \/ j = id
      BY <1>1, <2>2, <2>3 DEF Pending
  <2>5. \A y \in jobs : y.id # id
      BY <1>8 DEF Pending
  <2>6. job # NoJob => job.id # id
      BY <1>8 DEF Pending
  <2>7. \A j \in JobId : called'[j] = 1 <=> j \in asked' /\ ~ Pending(j)'
      BY <1>5, <1>8, <2>3, <2>4 DEF CallsOK
  <2>8. \A j \in JobId : Pending(j)' => j \in asked'
      BY <1>5, <2>4 DEF CallsOK
  <2>9. /\ \A y, z \in jobs' : y.id = z.id => y = z
        /\ \A y \in jobs' : job' # NoJob => job'.id # y.id
      BY <1>1, <2>2, <2>3, <2>5, <2>6 DEF CallsOK
  <2>10. QED
      BY <1>1, <1>2, <1>7, <1>9, <2>2, <2>3, <2>7, <2>8, <2>9 DEF CallsOK
<1>11. CASE ~ executor
  <2>1. jobs' = jobs /\ called' = [called EXCEPT ![id] = @ + 1]
      BY <1>3, <1>11 DEF AsyncCall
  <2>2. called'[id] = 1 /\ called' \in [JobId -> 0 .. 1] /\ \A j \in JobId : j # id => called'[j] = called[j]
      BY <1>4, <1>8, <1>9, <2>1
  <2>3. \A j \in JobId : Pending(j)' <=> Pending(j)
      BY <1>1, <2>1 DEF Pending
  <2>4. \A j \in JobId : called'[j] = 1 <=> j \in asked' /\ ~ Pending(j)'
      BY <1>5, <1>8, <2>2, <2>3 DEF CallsOK
  <2>5. \A j \in JobId : Pending(j)' => j \in asked'
      BY <1>5, <2>3 DEF CallsOK
  <2>6. QED
      BY <1>1, <1>2, <1>7, <2>1, <2>2, <2>4, <2>5 DEF CallsOK
<1>12. QED
    BY <1>10, <1>11

LEMMA TakeJobCalls ==
    ASSUME CallsOK, NEW x \in jobs, TakeJob(x)
    PROVE  CallsOK'
<1>1. /\ job = NoJob /\ jobs' = jobs \ {x} /\ job' = x
      /\ UNCHANGED <<calls, executor, called, asked>>
    BY DEF TakeJob
<1>2. x \in Jobs /\ x # NoJob
    BY JobFacts
<1>3. \A j \in JobId : Pending(j)' <=> Pending(j)
    BY <1>1, <1>2 DEF Pending, CallsOK
<1>4. \A y \in jobs' : job'.id # y.id
    BY <1>1 DEF CallsOK
<1>5. QED
    BY <1>1, <1>2, <1>3, <1>4 DEF CallsOK

LEMMA RunCallbackCalls ==
    ASSUME CallsOK, RunCallback
    PROVE  CallsOK'
<1>1. /\ job # NoJob /\ called' = [called EXCEPT ![job.id] = @ + 1] /\ job' = NoJob /\ pc[Worker] = "idle"
      /\ UNCHANGED <<calls, executor, jobs, asked, pc>>
    BY DEF RunCallback
<1>2. PICK id \in JobId : id = job.id
    BY <1>1, JobFacts
<1>3. Pending(id) /\ id \in asked /\ called \in [JobId -> 0 .. 1]
    BY <1>1, <1>2 DEF CallsOK, Pending
<1>4. called[id] = 0
    BY <1>3 DEF CallsOK
<1>5. called'[id] = 1 /\ called' \in [JobId -> 0 .. 1] /\ \A j \in JobId : j # id => called'[j] = called[j]
    BY <1>1, <1>2, <1>3, <1>4
<1>6. \A j \in JobId : Pending(j)' <=> Pending(j) /\ j # id
    BY <1>1, <1>2 DEF Pending, CallsOK
<1>7. \A j \in JobId : called'[j] = 1 <=> j \in asked' /\ ~ Pending(j)'
    BY <1>1, <1>3, <1>5, <1>6 DEF CallsOK
<1>8. QED
    BY <1>1, <1>5, <1>6, <1>7 DEF CallsOK

-----------------------------------------------------------------------------
(* FilesInd is inductive *)

LEMMA LocalsSame ==
    ASSUME LocalsOK, UNCHANGED <<pc, arg, handle, stack, got, entries, ret>>
    PROVE  LocalsOK'
BY DEF LocalsOK

LEMMA FilesInit ==
    ASSUME Init
    PROVE  FilesInd
<1>1. LocalsOK
  <2>1. <<>> \in Seq(Entries) /\ <<>> \in Contents /\ {} \in SUBSET Path /\ "None" \in Errors /\ "idle" \in PCs
      BY DEF Contents, Errors, PCs
  <2>2. TypedLocals
      BY <2>1 DEF Init, TypedLocals
  <2>3. ThreadOK("idle", NoRequest, NoHandle, <<>>)
      BY IdleOK
  <2>4. QED
      BY <2>2, <2>3 DEF Init, LocalsOK, TypedLocals
<1>2. DiskOK
  <2>1. Bytes(Old) \in Contents
      BY DEF Contents
  <2>2. node \in [Path -> {Absent, Dir, File(Bytes(Old))}] /\ WellFormed(node)
      BY DEF Init
  <2>3. File(Bytes(Old)) \in Node /\ Absent \in Node /\ Dir \in Node
      BY <2>1, FileFacts, NodeFacts
  <2>4. node \in [Path -> Node]
      BY <2>2, <2>3
  <2>5. \A p \in Path : node[p].kind = "file" => node[p].data = Bytes(Old)
      BY <2>1, <2>2, FileFacts, NodeFacts
  <2>6. QED
      BY <2>2, <2>4, <2>5 DEF Init, DiskOK, HandlesOK, Whole
<1>3. CallsOK
  <2>1. calls \in [Client -> 0 .. MaxCalls]
      BY CallsAssumption DEF Init
  <2>2. \A j \in JobId : ~ Pending(j) /\ called[j] = 0
      BY DEF Init, Pending
  <2>3. called \in [JobId -> 0 .. 1]
      BY DEF Init
  <2>4. pc[Worker] = "idle"
      BY DEF Init, Thread
  <2>5. executor = FALSE /\ jobs = {} /\ job = NoJob /\ asked = {}
      BY DEF Init
  <2>6. executor \in BOOLEAN
      BY <2>5
  <2>7. QED
      BY <2>1, <2>2, <2>3, <2>4, <2>5, <2>6 DEF CallsOK
<1>4. QED
    BY <1>1, <1>2, <1>3 DEF FilesInd

LEMMA FilesNext ==
    ASSUME FilesInd, Next
    PROVE  FilesInd'
<1>1. LocalsOK /\ DiskOK /\ CallsOK /\ Client \subseteq Thread /\ Worker \in Thread
    BY DEF FilesInd, Thread
<1>2. ASSUME NEW t \in Client, NEW r \in Requests, Call(t, r)
      PROVE  FilesInd'
  <2>1. Begin(t, r) /\ UNCHANGED disk /\ UNCHANGED handle
      BY <1>2 DEF Call, Begin
  <2>2. LocalsOK'
      BY <1>1, <2>1, BeginLocals
  <2>3. DiskOK'
      BY <1>1, <2>1, DiskSame
  <2>4. CallsOK'
      BY <1>1, <1>2, CallCalls
  <2>5. QED
      BY <2>2, <2>3, <2>4 DEF FilesInd
<1>3. ASSUME NEW t \in Client, NEW r \in AsyncRequests, AsyncCall(t, r)
      PROVE  FilesInd'
  <2>1. UNCHANGED disk /\ UNCHANGED handle /\ UNCHANGED <<pc, arg, handle, stack, got, entries, ret>>
      BY <1>3 DEF AsyncCall, locals
  <2>2. QED
      BY <1>1, <1>3, <2>1, LocalsSame, DiskSame, AsyncCallCalls DEF FilesInd
<1>4. ASSUME NEW t \in Thread, Step(t), UNCHANGED <<calls, async>>
      PROVE  FilesInd'
  <2>1. node \in [Path -> Node]
      BY <1>1 DEF DiskOK
  <2>2. pc'[Worker] # "idle" => pc[Worker] # "idle"
      BY <1>1, <1>4, StepMoves
  <2>3. CallsOK'
      BY <1>1, <1>4, <2>2, CallsSame
  <2>4. LocalsOK' /\ DiskOK'
      BY <1>1, <1>4, <2>1, StepLocals, StepDisk
  <2>5. QED
      BY <2>3, <2>4 DEF FilesInd
<1>5. ASSUME NEW e \in BOOLEAN, SetExecutor(e)
      PROVE  FilesInd'
  <2>1. UNCHANGED disk /\ UNCHANGED handle /\ UNCHANGED <<pc, arg, handle, stack, got, entries, ret>>
      BY <1>5 DEF SetExecutor, locals
  <2>2. CallsOK'
      BY <1>1, <1>5 DEF SetExecutor, CallsOK, Pending
  <2>3. QED
      BY <1>1, <2>1, <2>2, LocalsSame, DiskSame DEF FilesInd
<1>6. ASSUME NEW x \in jobs, TakeJob(x)
      PROVE  FilesInd'
  <2>1. Begin(Worker, x.request) /\ UNCHANGED disk /\ UNCHANGED handle
      BY <1>6 DEF TakeJob, Begin
  <2>2. x.request \in Requests
      BY <1>1, JobFacts
  <2>3. LocalsOK'
      BY <1>1, <2>1, <2>2, BeginLocals
  <2>4. QED
      BY <1>1, <1>6, <2>1, <2>3, DiskSame, TakeJobCalls DEF FilesInd
<1>7. CASE RunCallback
  <2>1. UNCHANGED disk /\ UNCHANGED handle /\ UNCHANGED <<pc, arg, handle, stack, got, entries, ret>>
      BY <1>7 DEF RunCallback, locals
  <2>2. QED
      BY <1>1, <1>7, <2>1, LocalsSame, DiskSame, RunCallbackCalls DEF FilesInd
<1>8. QED
    BY <1>2, <1>3, <1>4, <1>5, <1>6, <1>7 DEF Next

LEMMA FilesStutter ==
    ASSUME FilesInd, UNCHANGED vars
    PROVE  FilesInd'
<1>1. /\ UNCHANGED disk /\ UNCHANGED handle /\ UNCHANGED <<pc, arg, handle, stack, got, entries, ret>>
      /\ UNCHANGED <<calls, async>>
    BY DEF vars, locals
<1>2. QED
    BY <1>1, LocalsSame, DiskSame, CallsSame DEF FilesInd

LEMMA FilesKeep == FilesInd /\ [AllNext]_AllVars => FilesInd' /\ [Next]_vars
<1> SUFFICES ASSUME FilesInd, [AllNext]_AllVars
             PROVE  FilesInd' /\ [Next]_vars
    OBVIOUS
<1>1. Next \/ UNCHANGED vars
    BY DEF AllNext, AllVars
<1>2. QED
    BY <1>1, FilesNext, FilesStutter

LEMMA FilesHold == AllSpec => []FilesInd
<1>1. AllInit => FilesInd
    BY FilesInit DEF AllInit
<1>2. QED
    BY <1>1, FilesKeep, PTL DEF AllSpec

\* The disk is a tree at every moment, whatever the threads do to it, and a thread
\* that is in no call has nothing open: for every tree, every number of threads
\* and calls, and whichever calls of Win32 the device may fail.
THEOREM FilesSafe == AllSpec => []FilesInv
<1>1. FilesInd => FilesInv
  <2> SUFFICES ASSUME FilesInd
               PROVE  FilesInv
      OBVIOUS
  <2>1. LocalsOK /\ DiskOK /\ CallsOK
      BY DEF FilesInd
  <2>2. \A t \in Thread : \A i \in DOMAIN stack[t] : stack[t][i] \in [dir : Path, at : Path \cup {Cwd}]
    <3>1. \A t \in Thread : stack[t] \in Seq(Entries)
        BY <2>1 DEF LocalsOK
    <3>2. \A s \in Seq(Entries) : \A i \in DOMAIN s : s[i] \in Entries
        OBVIOUS
    <3>3. QED
        BY <3>1, <3>2 DEF Entries
  <2>3. called \in [JobId -> Nat] /\ asked \subseteq JobId
      BY <2>1 DEF CallsOK
  <2>4. TypeOK
      BY <2>1, <2>2, <2>3 DEF LocalsOK, DiskOK, CallsOK, TypeOK, OpenFile, Errors
  <2>5. NoHandleLeak
      BY <2>1 DEF LocalsOK, ThreadOK, NoHandleLeak, Reading, Removing
  <2>6. QED
      BY <2>4, <2>5 DEF FilesInv
<1>2. QED
    BY <1>1, FilesHold, PTL

\* What has become of each asynchronous call.
AnsweredOnce == \A j \in JobId : /\ called[j] \in 0 .. 1
                                 /\ called[j] = 1 <=> j \in asked /\ ~ Pending(j)
                                 /\ Pending(j) => j \in asked

\* The callback of async_read_file and async_write_file runs at most once, and as
\* long as it has not run the call's job is waiting or under way: nothing is
\* answered twice or forgotten, with an executor or without.
THEOREM CallsAnsweredOnce == AllSpec => []AnsweredOnce
<1>1. FilesInd => AnsweredOnce
    BY DEF FilesInd, CallsOK, AnsweredOnce
<1>2. QED
    BY <1>1, FilesHold, PTL

-----------------------------------------------------------------------------
(* A read that succeeds *)

LEMMA WhoReturns ==
    ASSUME FilesInd, Next, NEW t \in Thread, Returns(t)
    PROVE  Step(t)
<1>1. LocalsOK /\ pc[t] # "idle" /\ pc'[t] = "idle" /\ pc \in [Thread -> PCs]
    BY DEF FilesInd, Returns, LocalsOK
<1>2. ASSUME NEW u \in Thread, NEW r, Begin(u, r)
      PROVE  FALSE
  <2>1. u # t /\ pc' = [pc EXCEPT ![u] = Entry(r)]
      BY <1>1, <1>2 DEF Begin
  <2>2. QED
      BY <1>1, <2>1
<1>3. ASSUME NEW u \in Thread, Step(u)
      PROVE  u = t
    BY <1>1, <1>3, StepMoves
<1>4. pc' # pc
    BY <1>1
<1>5. (\E u \in Thread : \E r : Begin(u, r)) \/ (\E u \in Thread : Step(u))
    BY <1>4 DEF Next, Call, AsyncCall, SetExecutor, TakeJob, RunCallback, Thread
<1>6. QED
    BY <1>2, <1>3, <1>5

LEMMA ReadStep ==
    ASSUME FilesInd, NEW t \in Thread, Step(t), arg[t].op = "read", pc'[t] = "idle", ret'[t] = "None"
    PROVE  got'[t] \in {Bytes(Old), Bytes(New)} \/ arg[t].path \in torn
<1>1. LocalsOK /\ DiskOK /\ pc[t] # "idle"
    BY StepMoves DEF FilesInd
<1>2. TypedLocals /\ arg[t].path \in Path
    BY <1>1, AtWork
<1>3. pc[t] \in {"readOpen", "readSize", "readFile"}
  <2>1. pc[t] \in PCs
      BY <1>2 DEF TypedLocals
  <2>2. QED
      BY <1>1, <2>1, AtRest DEF PCs, Reading, Removing
<1>4. ReadOpen(t) \/ ReadSize(t) \/ ReadFile(t)
    BY <1>3 DEF Step, WriteOpen, WriteFile, SizeOpen, SizeGet, Remove,
           ListFirst, ListNext, MkDir, RmPlain, RmFirst, RmNext, RmDir, RmFile, RmSelf
<1>5. ASSUME NEW err, Return(t, err)
      PROVE  err = "None"
    BY <1>2, <1>5 DEF TypedLocals, Return
<1>6. ASSUME NEW w, Goto(t, w)
      PROVE  w = "idle"
    BY <1>2, <1>6 DEF TypedLocals, Goto
<1>7. CASE ReadOpen(t)
  <2>1. PICK code : code = OpenExisting(arg[t].path, "read")
      OBVIOUS
  <2>2. Open(t, "read", code) /\ (code = "ok" => Goto(t, "readSize"))
      BY <1>7, <2>1 DEF ReadOpen
  <2>3. code # "ok"
      BY <1>6, <2>2
  <2>4. from_win32(code) = "None"
      BY <1>5, <2>2, <2>3 DEF Open
  <2>5. QED
      BY <2>3, <2>4, ErrorFacts
<1>8. CASE ReadSize(t)
  <2>1. Goto(t, "readFile") \/ Return(t, "IOError")
      BY <1>8 DEF ReadSize
  <2>2. QED
      BY <1>5, <1>6, <2>1
<1>9. CASE ReadFile(t)
  <2>1. got' = [got EXCEPT ![t] = node[arg[t].path].data] \/ Return(t, "IOError")
      BY <1>9 DEF ReadFile
  <2>2. got' = [got EXCEPT ![t] = node[arg[t].path].data]
      BY <1>5, <2>1
  <2>3. got'[t] = node[arg[t].path].data
      BY <1>2, <2>2 DEF TypedLocals
  <2>4. handle[t] = [path |-> arg[t].path, access |-> "read"]
      BY <1>1, <1>9, AtRest DEF ReadFile, Reading
  <2>5. handle[t] # NoHandle
      BY <1>2, <2>4, HandleFacts
  <2>6. handle[t].path = arg[t].path /\ handle[t].access = "read"
      BY <2>4
  <2>7. Whole(arg[t].path)
      BY <1>1, <1>2, <2>5, <2>6 DEF DiskOK, HandlesOK
  <2>8. ASSUME NEW u \in Thread, handle[u] = [path |-> arg[t].path, access |-> "write"]
        PROVE  FALSE
    <3>1. handle[u] # NoHandle
        BY <1>2, <2>8, HandleFacts
    <3>2. handle[u].path = arg[t].path /\ handle[u].access = "write"
        BY <2>8
    <3>3. u # t
        BY <2>6, <3>2
    <3>4. QED
        BY <1>1, <2>5, <2>6, <3>1, <3>2, <3>3 DEF DiskOK, HandlesOK
  <2>9. QED
      BY <2>3, <2>7, <2>8 DEF Whole
<1>10. QED
    BY <1>4, <1>7, <1>8, <1>9

\* A read that succeeds has the whole of what a write wrote, whatever the other
\* threads write, unless a write that reported its failure left the file torn.
THEOREM ReadsWhole == AllSpec => ReadIsWhole
<1> DEFINE Good == \A t \in Thread : arg[t].op = "read" /\ Returns(t) /\ ret'[t] = "None"
                      => got'[t] \in {Bytes(Old), Bytes(New)} \/ arg[t].path \in torn
<1>1. FilesInd /\ [Next]_vars => [Good]_vars
  <2> SUFFICES ASSUME FilesInd, Next
               PROVE  Good
      OBVIOUS
  <2>1. ASSUME NEW t \in Thread, arg[t].op = "read", Returns(t), ret'[t] = "None"
        PROVE  got'[t] \in {Bytes(Old), Bytes(New)} \/ arg[t].path \in torn
    <3>1. Step(t)
        BY <2>1, WhoReturns
    <3>2. pc'[t] = "idle"
        BY <2>1 DEF Returns
    <3>3. QED
        BY <2>1, <3>1, <3>2, ReadStep
  <2>2. QED
      BY <2>1
<1> HIDE DEF Good
<1>2. FilesInd /\ [AllNext]_AllVars => [Good]_vars
    BY <1>1, FilesKeep
<1>3. AllSpec => [][Good]_vars
    BY <1>2, FilesHold, PTL DEF AllSpec
<1>4. QED
    BY <1>3 DEF ReadIsWhole, Good

-----------------------------------------------------------------------------
(* A call that nothing disturbs *)

\* What a call has done, being at w with request r, directories s and names e, to
\* the disk b it found: the disk is n.
BeforeAll == {"readOpen", "sizeOpen", "writeOpen", "remove", "listFirst", "mkdir", "rmPlain", "rmFirst"}
Untroubled(w, r, n, b) ==
    /\ w \in (BeforeAll \ {"mkdir"}) \cup Reading \cup {"listNext"} => n = b
    /\ w \in Reading => b[r.path].kind = "file"
    /\ w \in {"listNext"} \cup Removing => b[r.path] = Dir

Writing(r, n, b) ==
    /\ n = [b EXCEPT ![r.path] = File(<<>>)]
    /\ Up[r.path] = Cwd \/ b[Up[r.path]] = Dir
    /\ b[r.path] = Absent \/ (r.flag /\ b[r.path].kind = "file")

Listing(r, s, b, e) == e = {c \in Children(r.path) : b[c] # Absent /\ c <= s[1].at}

\* The first k directories on the way to p exist, unless one of them is a file.
FileOnWay(p, k, b) == \E i \in 1 .. k : b[prefixes[p][i]].kind = "file"
WithWay(p, k, b) == [q \in Path |-> IF \E i \in 1 .. k : prefixes[p][i] = q THEN Dir ELSE b[q]]
Making(r, s, n, b) ==
    /\ FileOnWay(r.path, Len(s), b) => n = b
    /\ ~ FileOnWay(r.path, Len(s), b) => n = WithWay(r.path, Len(s), b)

\* What is below s[i].dir and before s[i].at is gone, and nothing else is.
Clearing(w, r, s, n, b) ==
    /\ \A q \in Path : n[q] = b[q] \/ (q \in Under(r.path) /\ n[q] = Absent)
    /\ s[1].dir = r.path
    /\ \A i \in 1 .. Len(s) : s[i].dir \in Under(r.path) /\ n[s[i].dir] = Dir
    /\ \A i \in 1 .. Len(s) - 1 : s[i + 1].dir = s[i].at
    /\ \A i, j \in 1 .. Len(s) : i < j => s[i].dir < s[j].dir
    /\ \A i \in 1 .. Len(s) : \A c \in Children(s[i].dir) : c < s[i].at => n[c] = Absent
    /\ w \in {"rmNext", "rmSelf"} =>
          \A c \in Children(s[Len(s)].dir) : c <= s[Len(s)].at => n[c] = Absent
    /\ w = "rmSelf" => \A c \in Children(s[Len(s)].dir) : n[c] = Absent
    /\ w \in {"rmDir", "rmFile"} => Up[s[Len(s)].at] = s[Len(s)].dir
    /\ w = "rmDir" => n[s[Len(s)].at] = Dir
    /\ w = "rmFile" => n[s[Len(s)].at].kind = "file"

Progress(w, r, s, n, b, e) ==
    /\ Untroubled(w, r, n, b)
    /\ w = "listFirst" => e = {}
    /\ w = "writeFile" => Writing(r, n, b)
    /\ w = "listNext" => Listing(r, s, b, e)
    /\ w = "mkdir" => Making(r, s, n, b)
    /\ w \in Removing => Clearing(w, r, s, n, b)

AloneOK ==
    /\ alone \subseteq Thread
    /\ \A t \in alone : pc[t] # "idle" =>
          /\ Running = {t}
          /\ before \in [Path -> Node] /\ WellFormed(before)
          /\ Progress(pc[t], arg[t], stack[t], node, before, entries[t])

\* What Does says of each operation.
LEMMA DoesRead ==
    ASSUME NEW r, r.op = "read", NEW b, NEW n, NEW err, NEW bytes, NEW names
    PROVE  Does(r, b, n, err, bytes, names)
              <=> /\ err = "None" <=> b[r.path].kind = "file"
                  /\ n = b
                  /\ err = "None" => bytes = b[r.path].data
BY DEF Does

LEMMA DoesSize ==
    ASSUME NEW r, r.op = "size", NEW b, NEW n, NEW err, NEW bytes, NEW names
    PROVE  Does(r, b, n, err, bytes, names)
              <=> (err = "None" <=> b[r.path].kind = "file") /\ n = b
BY DEF Does

LEMMA DoesWrite ==
    ASSUME NEW r, r.op = "write", NEW b, NEW n, NEW err, NEW bytes, NEW names, NEW good \in BOOLEAN,
           good <=> /\ Up[r.path] = Cwd \/ b[Up[r.path]].kind = "dir"
                    /\ b[r.path].kind = "absent" \/ (r.flag /\ b[r.path].kind = "file")
    PROVE  Does(r, b, n, err, bytes, names)
              <=> /\ err = "None" <=> good
                  /\ n = IF good THEN [q \in Path |-> IF q \in {r.path} THEN File(Bytes(New)) ELSE b[q]]
                                 ELSE b
BY DEF Does

LEMMA DoesList ==
    ASSUME NEW r, r.op = "list", NEW b, NEW n, NEW err, NEW bytes, NEW names
    PROVE  Does(r, b, n, err, bytes, names)
              <=> /\ err = "None" <=> r.path = Cwd \/ b[r.path].kind = "dir"
                  /\ n = b
                  /\ err = "None" => names = {c \in Children(r.path) : ~ b[c].kind = "absent"}
BY DEF Does

LEMMA DoesMkdirs ==
    ASSUME NEW r, r.op = "mkdirs", NEW b, NEW n, NEW err, NEW bytes, NEW names, NEW good \in BOOLEAN,
           good <=> \A q \in Way(r.path) \ {r.path} : ~ b[q].kind = "file"
    PROVE  Does(r, b, n, err, bytes, names)
              <=> /\ err = "None" <=> good
                  /\ n = IF good
                         THEN [q \in Path |-> IF q \in {c \in Way(r.path) : b[c].kind = "absent"}
                                              THEN Dir ELSE b[q]]
                         ELSE b
BY DEF Does, Way

LEMMA DoesRemove ==
    ASSUME NEW r, r.op = "remove", NEW b, NEW n, NEW err, NEW bytes, NEW names
    PROVE  Does(r, b, n, err, bytes, names)
              <=> /\ err = "None" <=> b[r.path].kind = "file"
                  /\ n = IF b[r.path].kind = "file"
                         THEN [q \in Path |-> IF q \in {r.path} THEN Absent ELSE b[q]] ELSE b
BY DEF Does

LEMMA DoesRmdir ==
    ASSUME NEW r, r.op = "rmdir", NEW b, NEW n, NEW err, NEW bytes, NEW names, NEW good \in BOOLEAN,
           good <=> /\ r.path = Cwd \/ b[r.path].kind = "dir"
                    /\ r.flag \/ \A c \in Children(r.path) : b[c].kind = "absent"
    PROVE  Does(r, b, n, err, bytes, names)
              <=> /\ err = "None" <=> good
                  /\ n = IF good THEN [q \in Path |-> IF q \in Under(r.path) THEN Absent ELSE b[q]]
                                 ELSE b
BY DEF Does

\* A step of such a call goes on with it, or finishes it.
GoesOn(t) == /\ pc'[t] # "idle" /\ before' = before
             /\ Progress(pc'[t], arg'[t], stack'[t], node', before, entries'[t])
Finishes(t) == pc'[t] = "idle" /\ Does(arg[t], before, node', ret'[t], got'[t], entries'[t])

Alone(t) == /\ FilesInd /\ t \in Thread /\ pc[t] # "idle" /\ Running = {t}
            /\ before \in [Path -> Node] /\ WellFormed(before)
            /\ Progress(pc[t], arg[t], stack[t], node, before, entries[t])

LEMMA AloneFacts ==
    ASSUME NEW t, Alone(t)
    PROVE  /\ t \in Thread /\ pc[t] # "idle" /\ LocalsOK /\ DiskOK /\ TypedLocals
           /\ arg[t] \in Requests /\ arg[t].path \in Path /\ pc[t] \in PCs
           /\ node \in [Path -> Node] /\ WellFormed(node)
           /\ before \in [Path -> Node] /\ WellFormed(before)
           /\ handle[t] = NoHandle => \A p \in Path : ~ InUse(p) /\ \A access : ~ Refused(p, access)
<1>1. t \in Thread /\ pc[t] # "idle" /\ LocalsOK /\ DiskOK
    BY DEF Alone, FilesInd
<1>2. \A u \in Thread : u # t => pc[u] = "idle"
    BY DEF Alone, Running
<1>3. \A u \in Thread : u # t => handle[u] = NoHandle
    BY <1>1, <1>2 DEF LocalsOK, ThreadOK, Reading
<1>4. handle[t] = NoHandle => \A p \in Path : ~ InUse(p) /\ \A access : ~ Refused(p, access)
    BY <1>3 DEF InUse, Refused
<1>5. TypedLocals /\ arg[t] \in Requests /\ arg[t].path \in Path
    BY <1>1, AtWork
<1>6. QED
    BY <1>1, <1>4, <1>5 DEF Alone, DiskOK, TypedLocals

LEMMA ReturnIs ==
    ASSUME TypedLocals, NEW t \in Thread, NEW err, Return(t, err)
    PROVE  pc'[t] = "idle" /\ ret'[t] = err
BY DEF TypedLocals, Return

LEMMA GotoIs ==
    ASSUME TypedLocals, NEW t \in Thread, NEW w, Goto(t, w)
    PROVE  pc'[t] = w /\ arg'[t] = arg[t] /\ before' = before
BY DEF TypedLocals, Goto

\* What the kinds of the disk before say.
LEMMA BeforeKinds ==
    ASSUME NEW b \in [Path -> Node], NEW p \in Path
    PROVE  /\ b[p].kind = "absent" <=> b[p] = Absent
           /\ b[p].kind = "dir" <=> b[p] = Dir
           /\ b[p].kind = "file" <=> b[p] # Absent /\ b[p] # Dir
           /\ p # Cwd /\ Absent # Dir
           /\ Up[p] = Cwd \/ b[Up[p]].kind = "dir" <=> Up[p] = Cwd \/ b[Up[p]] = Dir
<1>1. b[p] \in Node /\ (Up[p] = Cwd \/ b[Up[p]] \in Node)
    BY NotCwd
<1>2. QED
    BY <1>1, NotCwd, Kinds

\* Between its first step and the next, a read has done nothing.
LEMMA ReadProgress ==
    ASSUME NEW w \in Reading, NEW r, NEW s, NEW b, NEW e, b[r.path].kind = "file"
    PROVE  Progress(w, r, s, b, b, e)
BY DEF Progress, Untroubled, Reading, Removing, BeforeAll

LEMMA ReadAlone ==
    ASSUME NEW t, Alone(t), Step(t), t \in alone, t \in alone', arg[t].op = "read"
    PROVE  GoesOn(t) \/ Finishes(t)
<1>1. PICK p \in Path : p = arg[t].path
    BY AloneFacts
<1>2. pc[t] \in {"readOpen", "readSize", "readFile"}
    BY AloneFacts, AtRest DEF PCs, Reading, Removing
<1>3. ReadOpen(t) \/ ReadSize(t) \/ ReadFile(t)
    BY <1>2 DEF Step, WriteOpen, WriteFile, SizeOpen, SizeGet, Remove,
           ListFirst, ListNext, MkDir, RmPlain, RmFirst, RmNext, RmDir, RmFile, RmSelf
<1>4. node = before /\ (pc[t] # "readOpen" => node[p].kind = "file")
    BY <1>1, <1>2 DEF Alone, Progress, Untroubled, BeforeAll, Reading
<1>5. node' = node
    BY <1>3 DEF ReadOpen, ReadSize, ReadFile, disk
<1>6. ASSUME NEW w \in Reading, Goto(t, w), node[p].kind = "file"
      PROVE  GoesOn(t)
  <2>1. w # "idle"
      BY DEF Reading
  <2>2. QED
      BY <1>1, <1>4, <1>5, <1>6, <2>1, AloneFacts, GotoIs, ReadProgress DEF GoesOn
<1>7. CASE ReadOpen(t)
  <2>1. PICK code : code = OpenExisting(p, "read")
      OBVIOUS
  <2>2. Open(t, "read", code) /\ (code = "ok" => Goto(t, "readSize"))
      BY <1>1, <1>7, <2>1 DEF ReadOpen
  <2>3. handle[t] = NoHandle
      BY <1>7, AloneFacts, AtRest DEF ReadOpen, Reading
  <2>4. code = "ok" <=> node[p].kind = "file"
      BY <2>1, <2>3, AloneFacts, Codes, KindOf
  <2>5. CASE code = "ok"
      BY <1>6, <2>2, <2>4, <2>5 DEF Reading
  <2>6. CASE code # "ok"
    <3>1. pc'[t] = "idle" /\ ret'[t] # "None"
        BY <2>2, <2>6, AloneFacts, ReturnIs, ErrorFacts DEF Open
    <3>2. QED
        BY <1>1, <1>4, <1>5, <2>4, <2>6, <3>1, DoesRead DEF Finishes
  <2>7. QED
      BY <2>5, <2>6
<1>8. CASE ReadSize(t)
  <2>1. Goto(t, "readFile")
      BY <1>8 DEF ReadSize, DeviceFails
  <2>2. node[p].kind = "file"
      BY <1>4, <1>8 DEF ReadSize
  <2>3. QED
      BY <1>6, <2>1, <2>2 DEF Reading
<1>9. CASE ReadFile(t)
  <2>1. got' = [got EXCEPT ![t] = node[p].data] /\ Return(t, "None") /\ pc[t] = "readFile"
      BY <1>1, <1>9 DEF ReadFile, DeviceFails
  <2>2. got'[t] = node[p].data
      BY <2>1, AloneFacts DEF TypedLocals
  <2>3. pc'[t] = "idle" /\ ret'[t] = "None"
      BY <2>1, AloneFacts, ReturnIs
  <2>4. QED
      BY <1>1, <1>4, <1>5, <2>1, <2>2, <2>3, DoesRead DEF Finishes
<1>10. QED
    BY <1>3, <1>7, <1>8, <1>9

LEMMA SizeAlone ==
    ASSUME NEW t, Alone(t), Step(t), t \in alone, t \in alone', arg[t].op = "size"
    PROVE  GoesOn(t) \/ Finishes(t)
<1>1. PICK p \in Path : p = arg[t].path
    BY AloneFacts
<1>2. pc[t] \in {"sizeOpen", "sizeGet"}
    BY AloneFacts, AtRest DEF PCs, Reading, Removing
<1>3. SizeOpen(t) \/ SizeGet(t)
    BY <1>2 DEF Step, ReadOpen, ReadSize, ReadFile, WriteOpen, WriteFile, Remove,
           ListFirst, ListNext, MkDir, RmPlain, RmFirst, RmNext, RmDir, RmFile, RmSelf
<1>4. node = before /\ (pc[t] # "sizeOpen" => node[p].kind = "file")
    BY <1>1, <1>2 DEF Alone, Progress, Untroubled, BeforeAll, Reading
<1>5. node' = node
    BY <1>3 DEF SizeOpen, SizeGet, disk
<1>6. CASE SizeOpen(t)
  <2>1. PICK code : code = OpenExisting(p, "read")
      OBVIOUS
  <2>2. Open(t, "read", code) /\ (code = "ok" => Goto(t, "sizeGet"))
      BY <1>1, <1>6, <2>1 DEF SizeOpen
  <2>3. handle[t] = NoHandle
      BY <1>6, AloneFacts, AtRest DEF SizeOpen, Reading
  <2>4. code = "ok" <=> node[p].kind = "file"
      BY <2>1, <2>3, AloneFacts, Codes, KindOf
  <2>5. CASE code = "ok"
    <3>1. "sizeGet" \in Reading /\ Goto(t, "sizeGet")
        BY <2>2, <2>5 DEF Reading
    <3>2. pc'[t] = "sizeGet" /\ arg'[t] = arg[t] /\ before' = before
        BY <3>1, AloneFacts, GotoIs
    <3>3. QED
        BY <1>1, <1>4, <1>5, <2>4, <2>5, <3>1, <3>2, ReadProgress DEF GoesOn
  <2>6. CASE code # "ok"
    <3>1. pc'[t] = "idle" /\ ret'[t] # "None"
        BY <2>2, <2>6, AloneFacts, ReturnIs, ErrorFacts DEF Open
    <3>2. QED
        BY <1>1, <1>4, <1>5, <2>4, <2>6, <3>1, DoesSize DEF Finishes
  <2>7. QED
      BY <2>5, <2>6
<1>7. CASE SizeGet(t)
  <2>1. Return(t, "None") /\ pc[t] = "sizeGet"
      BY <1>7 DEF SizeGet, DeviceFails
  <2>2. pc'[t] = "idle" /\ ret'[t] = "None"
      BY <2>1, AloneFacts, ReturnIs
  <2>3. QED
      BY <1>1, <1>4, <1>5, <2>1, <2>2, DoesSize DEF Finishes
<1>8. QED
    BY <1>3, <1>6, <1>7

LEMMA WriteAlone ==
    ASSUME NEW t, Alone(t), Step(t), t \in alone, t \in alone', arg[t].op = "write"
    PROVE  GoesOn(t) \/ Finishes(t)
<1>1. PICK p \in Path : p = arg[t].path
    BY AloneFacts
<1>2. PICK b \in [Path -> Node] : b = before /\ WellFormed(b)
    BY AloneFacts
<1>3. pc[t] \in {"writeOpen", "writeFile"}
    BY AloneFacts, AtRest DEF PCs, Reading, Removing
<1>4. WriteOpen(t) \/ WriteFile(t)
    BY <1>3 DEF Step, ReadOpen, ReadSize, ReadFile, SizeOpen, SizeGet, Remove,
           ListFirst, ListNext, MkDir, RmPlain, RmFirst, RmNext, RmDir, RmFile, RmSelf
<1>5. PICK good \in BOOLEAN : good <=> /\ Up[p] = Cwd \/ b[Up[p]] = Dir
                                       /\ b[p] = Absent \/ (arg[t].flag /\ b[p].kind = "file")
    OBVIOUS
<1>6. good <=> /\ Up[p] = Cwd \/ b[Up[p]].kind = "dir"
               /\ b[p].kind = "absent" \/ (arg[t].flag /\ b[p].kind = "file")
    BY <1>5, BeforeKinds
<1>7. CASE WriteOpen(t)
  <2>1. PICK code : code = IF arg[t].flag THEN CreateAlways(p) ELSE CreateNew(p)
      OBVIOUS
  <2>2. /\ Open(t, "write", code)
        /\ code = "ok" => Goto(t, "writeFile") /\ node' = [node EXCEPT ![p] = File(<<>>)]
        /\ code # "ok" => node' = node
      BY <1>1, <1>7, <2>1 DEF WriteOpen, disk
  <2>3. handle[t] = NoHandle /\ node = b /\ pc[t] = "writeOpen"
      BY <1>2, <1>7, AloneFacts, AtRest DEF WriteOpen, Alone, Progress, Untroubled, BeforeAll, Reading
  <2>4. code = "ok" <=> good
    <3>1. \A access : ~ Refused(p, access)
        BY <2>3, AloneFacts
    <3>2. /\ CreateAlways(p) = "ok" <=> \/ ~ Exists(p) /\ IsDir(Up[p])
                                        \/ Exists(p) /\ ~ IsDir(p)
          /\ CreateNew(p) = "ok" <=> ~ Exists(p) /\ IsDir(Up[p])
        BY <3>1, Codes
    <3>3. /\ Exists(p) <=> b[p] # Absent
          /\ b[p].kind = "file" <=> Exists(p) /\ ~ IsDir(p)
          /\ IsDir(Up[p]) <=> Up[p] = Cwd \/ b[Up[p]] = Dir
        BY <2>3, KindOf
    <3>4. b[p] # Absent => Up[p] = Cwd \/ b[Up[p]] = Dir
        BY <1>2 DEF WellFormed
    <3>5. QED
        BY <1>5, <2>1, <3>2, <3>3, <3>4
  <2>5. CASE code = "ok"
    <3>1. pc'[t] = "writeFile" /\ arg'[t] = arg[t] /\ before' = before
        BY <2>2, <2>5, AloneFacts, GotoIs
    <3>2. Writing(arg[t], node', b)
        BY <1>1, <1>5, <2>2, <2>3, <2>4, <2>5 DEF Writing
    <3>3. Progress("writeFile", arg[t], stack'[t], node', b, entries'[t])
        BY <3>2 DEF Progress, Untroubled, Reading, Removing, BeforeAll
    <3>4. QED
        BY <1>2, <3>1, <3>3 DEF GoesOn
  <2>6. CASE code # "ok"
    <3>1. pc'[t] = "idle" /\ ret'[t] # "None"
        BY <2>2, <2>6, AloneFacts, ReturnIs, ErrorFacts DEF Open
    <3>2. Does(arg[t], b, node', ret'[t], got'[t], entries'[t])
        BY <1>1, <1>6, <2>2, <2>3, <2>4, <2>6, <3>1, DoesWrite
    <3>3. QED
        BY <1>2, <3>1, <3>2 DEF Finishes
  <2>7. QED
      BY <2>5, <2>6
<1>8. CASE WriteFile(t)
  <2>1. node' = [node EXCEPT ![p] = File(Bytes(New))] /\ Return(t, "None") /\ pc[t] = "writeFile"
      BY <1>1, <1>8 DEF WriteFile, DeviceFails
  <2>2. Writing(arg[t], node, b)
      BY <1>2, <2>1 DEF Alone, Progress
  <2>3. good /\ node = [b EXCEPT ![p] = File(<<>>)]
      BY <1>1, <1>5, <2>2 DEF Writing
  <2>4. pc'[t] = "idle" /\ ret'[t] = "None"
      BY <2>1, AloneFacts, ReturnIs
  <2>a. node' = [q \in Path |-> IF q \in {p} THEN File(Bytes(New)) ELSE b[q]]
      BY <2>1, <2>3
  <2>5. node' = IF good THEN [q \in Path |-> IF q \in {arg[t].path} THEN File(Bytes(New)) ELSE b[q]]
                        ELSE b
      BY <1>1, <2>3, <2>a
  <2>b. PICK r : r = arg[t]
      OBVIOUS
  <2>c. PICK n : n = node'
      OBVIOUS
  <2>d. /\ good <=> /\ Up[r.path] = Cwd \/ b[Up[r.path]].kind = "dir"
                    /\ b[r.path].kind = "absent" \/ (r.flag /\ b[r.path].kind = "file")
        /\ r.op = "write" /\ n = IF good THEN [q \in Path |-> IF q \in {r.path} THEN File(Bytes(New)) ELSE b[q]]
                                  ELSE b
      BY <1>1, <1>6, <2>5, <2>b, <2>c
  <2>e. \A bytes, names : Does(r, b, n, "None", bytes, names)
      BY <2>3, <2>d, DoesWrite
  <2>6. Does(arg[t], b, node', ret'[t], got'[t], entries'[t])
      BY <2>4, <2>b, <2>c, <2>e
  <2>7. QED
      BY <1>2, <2>4, <2>6 DEF Finishes
<1>9. QED
    BY <1>4, <1>7, <1>8

LEMMA RemoveAlone ==
    ASSUME NEW t, Alone(t), Step(t), arg[t].op = "remove"
    PROVE  GoesOn(t) \/ Finishes(t)
<1>1. PICK p \in Path : p = arg[t].path
    BY AloneFacts
<1>2. PICK b \in [Path -> Node] : b = before
    BY AloneFacts
<1>3. pc[t] = "remove"
    BY AloneFacts, AtRest DEF PCs, Reading, Removing
<1>4. Remove(t)
    BY <1>3 DEF Step, ReadOpen, ReadSize, ReadFile, WriteOpen, WriteFile, SizeOpen, SizeGet,
           ListFirst, ListNext, MkDir, RmPlain, RmFirst, RmNext, RmDir, RmFile, RmSelf
<1>5. node = b /\ handle[t] = NoHandle
    BY <1>2, <1>3, AloneFacts, AtRest DEF Alone, Progress, Untroubled, BeforeAll, Reading
<1>6. PICK code : code = DeleteFile(p)
    OBVIOUS
<1>7. node' = (IF code = "ok" THEN [node EXCEPT ![p] = Absent] ELSE node) /\ Return(t, from_win32(code))
    BY <1>1, <1>4, <1>6 DEF Remove
<1>8. code = "ok" <=> b[p].kind = "file"
    BY <1>5, <1>6, AloneFacts, Codes, KindOf
<1>9. pc'[t] = "idle" /\ ret'[t] = from_win32(code)
    BY <1>7, AloneFacts, ReturnIs
<1>10. ret'[t] = "None" <=> b[p].kind = "file"
    BY <1>8, <1>9, ErrorFacts
<1>11. node' = IF b[p].kind = "file" THEN [q \in Path |-> IF q \in {p} THEN Absent ELSE b[q]] ELSE b
    BY <1>5, <1>7, <1>8
<1>12. QED
    BY <1>1, <1>2, <1>9, <1>10, <1>11, DoesRemove DEF Finishes

\* Paths are numbers above Cwd.
LEMMA PathNumbers ==
    /\ \A p \in Path : p \in Nat /\ p > Cwd
    /\ Cwd \in Nat
    /\ \A c \in Path \cup {Cwd} : c \in Nat
BY PathAssumption

LEMMA NextsEmpty ==
    ASSUME node \in [Path -> Node], NEW p, NEW c \in Path \cup {Cwd}, Nexts(p, c) = {},
           NEW d \in Children(p), d > c
    PROVE  node[d] = Absent
<1> DEFINE rest == {x \in Children(p) : x > c /\ Exists(x)}
<1>1. SUFFICES ASSUME node[d] # Absent
               PROVE  FALSE
    OBVIOUS
<1>2. d \in Path /\ Exists(d)
    BY <1>1, KindOf DEF Children
<1>3. rest \in SUBSET Nat /\ d \in rest
    BY <1>2, PathNumbers DEF Children
<1> HIDE DEF rest
<1>4. PICK m \in rest : \A x \in rest : m <= x
    BY <1>3, LeastNumber
<1>5. m \in Nexts(p, c)
    BY <1>4 DEF Nexts, rest
<1>6. QED
    BY <1>5

LEMMA NextsLeast ==
    ASSUME node \in [Path -> Node], NEW p, NEW c \in Path \cup {Cwd}, NEW d \in Nexts(p, c),
           NEW x \in Children(p), x > c, x < d
    PROVE  node[x] = Absent
<1>1. x \in Path /\ x \in Nat /\ d \in Nat
    BY PathNumbers, NextsFacts DEF Children
<1>2. ~ (d <= x)
    BY <1>1
<1>3. ~ Exists(x)
    BY <1>2 DEF Nexts
<1>4. QED
    BY <1>1, <1>3, KindOf

LEMMA ListAlone ==
    ASSUME NEW t, Alone(t), Step(t), t \in alone, t \in alone', arg[t].op = "list"
    PROVE  GoesOn(t) \/ Finishes(t)
<1>1. PICK p \in Path : p = arg[t].path
    BY AloneFacts
<1>2. PICK b \in [Path -> Node] : b = before
    BY AloneFacts
<1>3. PICK r : r = arg[t]
    OBVIOUS
<1>4. pc[t] \in {"listFirst", "listNext"}
    BY AloneFacts, AtRest DEF PCs, Reading, Removing
<1>5. ListFirst(t) \/ ListNext(t)
    BY <1>4 DEF Step, ReadOpen, ReadSize, ReadFile, WriteOpen, WriteFile, SizeOpen, SizeGet, Remove,
           MkDir, RmPlain, RmFirst, RmNext, RmDir, RmFile, RmSelf
<1>6. /\ node = b /\ node' = b
      /\ pc[t] = "listFirst" => entries[t] = {}
      /\ pc[t] = "listNext" => b[p] = Dir /\ Listing(r, stack[t], b, entries[t])
    BY <1>1, <1>2, <1>3, <1>4, <1>5
       DEF Alone, Progress, Untroubled, BeforeAll, Reading, ListFirst, ListNext, disk
<1>7. b[p].kind = "dir" <=> b[p] = Dir
    BY BeforeKinds
<1>8. ASSUME b[p] = Dir, NEW s, NEW e, Listing(r, s, b, e), Goto(t, "listNext"), stack'[t] = s, entries'[t] = e
      PROVE  GoesOn(t)
  <2>1. pc'[t] = "listNext" /\ arg'[t] = r /\ before' = b
      BY <1>2, <1>3, <1>8, AloneFacts, GotoIs
  <2>2. Progress("listNext", r, s, b, b, e)
      BY <1>1, <1>3, <1>8 DEF Progress, Untroubled, Reading, Removing, BeforeAll
  <2>3. QED
      BY <1>2, <1>6, <1>8, <2>1, <2>2 DEF GoesOn
<1>9. CASE ListFirst(t)
  <2>1. FindFirst(p) = "ok" <=> b[p] = Dir
      BY <1>6, Codes, KindOf, NodeFacts
  <2>2. CASE FindFirst(p) = "ok"
    <3>1. PICK s : s = <<InDir(p, Cwd)>>
        OBVIOUS
    <3>2. s[1].at = Cwd
        BY <3>1, OneEntry
    <3>3. stack'[t] = s /\ entries'[t] = {} /\ Goto(t, "listNext")
        BY <1>1, <1>6, <1>9, <2>2, <3>1, AloneFacts DEF ListFirst, TypedLocals
    <3>4. Listing(r, s, b, {})
      <4>1. \A c \in Children(p) : ~ (c <= Cwd)
          BY PathNumbers DEF Children
      <4>2. QED
          BY <1>1, <1>3, <3>2, <4>1 DEF Listing
    <3>5. QED
        BY <1>8, <2>1, <2>2, <3>3, <3>4
  <2>3. CASE FindFirst(p) # "ok"
    <3>1. Return(t, from_win32(FindFirst(p)))
        BY <1>1, <1>9, <2>3 DEF ListFirst
    <3>2. pc'[t] = "idle" /\ ret'[t] # "None"
        BY <2>3, <3>1, AloneFacts, ReturnIs, ErrorFacts
    <3>3. p # Cwd
        BY NotCwd
    <3>4. QED
        BY <1>1, <1>2, <1>6, <1>7, <2>1, <2>3, <3>2, <3>3, DoesList DEF Finishes
  <2>4. QED
      BY <2>2, <2>3
<1>10. CASE ListNext(t)
  <2>1. /\ pc[t] = "listNext" /\ Len(stack[t]) = 1 /\ stack[t][1].dir = p /\ b[p] = Dir
        /\ Listing(r, stack[t], b, entries[t])
      BY <1>1, <1>6, <1>10, AloneFacts, AtRest DEF ListNext
  <2>2. PICK at \in Path \cup {Cwd} : at = Top(t).at
    <3>1. Len(stack[t]) >= 1
        BY <2>1
    <3>2. QED
        BY <3>1, AloneFacts, TopFacts
  <2>3. Top(t).dir = p /\ stack[t][1].at = at
      BY <2>1, <2>2 DEF Top
  <2>4. entries[t] = {c \in Children(p) : b[c] # Absent /\ c <= at}
      BY <1>1, <1>3, <2>1, <2>3 DEF Listing
  <2>5. ASSUME NEW c \in Nexts(p, at), stack' = [stack EXCEPT ![t] = <<InDir(p, c)>>],
               entries' = [entries EXCEPT ![t] = @ \cup {c}], Goto(t, "listNext")
        PROVE  GoesOn(t)
    <3>1. c \in Path /\ c \in Children(p) /\ b[c] # Absent /\ c > at
        BY <1>6, <2>5, NextsFacts, KindOf, AloneFacts DEF Children
    <3>2. PICK s : s = <<InDir(p, c)>>
        OBVIOUS
    <3>3. s[1].at = c
        BY <3>1, <3>2, OneEntry
    <3>4. stack'[t] = s /\ entries'[t] = entries[t] \cup {c}
        BY <2>5, <3>2, AloneFacts DEF TypedLocals
    <3>5. ASSUME NEW d \in Children(p), b[d] # Absent
          PROVE  d <= c <=> d <= at \/ d = c
      <4>1. d \in Nat /\ c \in Nat /\ at \in Nat
          BY <3>1, PathNumbers DEF Children
      <4>2. ~ (d > at /\ d < c)
          BY <1>6, <3>5, NextsLeast, AloneFacts
      <4>3. QED
          BY <3>1, <4>1, <4>2
    <3>6. Listing(r, s, b, entries[t] \cup {c})
      <4>1. entries[t] \cup {c} = {d \in Children(p) : b[d] # Absent /\ d <= c}
          BY <2>4, <3>1, <3>5
      <4>2. QED
          BY <1>1, <1>3, <3>3, <4>1 DEF Listing
    <3>7. QED
        BY <1>8, <2>1, <2>5, <3>4, <3>6
  <2>6. CASE Nexts(p, at) = {} /\ Return(t, "None") /\ entries' = entries
    <3>1. pc'[t] = "idle" /\ ret'[t] = "None"
        BY <2>6, AloneFacts, ReturnIs
    <3>2. \A d \in Children(p) : b[d] # Absent => d <= at
      <4>1. ASSUME NEW d \in Children(p), b[d] # Absent
            PROVE  d <= at
        <5>1. d \in Nat /\ at \in Nat
            BY PathNumbers DEF Children
        <5>2. ~ (d > at)
            BY <1>6, <2>6, <4>1, NextsEmpty, AloneFacts
        <5>3. QED
            BY <5>1, <5>2
      <4>2. QED
          BY <4>1
    <3>3. entries'[t] = {c \in Children(p) : b[c] # Absent}
        BY <2>4, <2>6, <3>2
    <3>4. entries'[t] = {c \in Children(p) : ~ b[c].kind = "absent"}
        BY <3>3, BeforeKinds DEF Children
    <3>5. QED
        BY <1>1, <1>2, <1>6, <1>7, <2>1, <3>1, <3>4, DoesList DEF Finishes
  <2>7. QED
      BY <1>10, <2>2, <2>3, <2>5, <2>6 DEF ListNext, DeviceFails
<1>11. QED
    BY <1>5, <1>9, <1>10

\* With nothing left in it, a directory is its whole subtree.
LEMMA WithoutSubtree ==
    ASSUME NEW b \in [Path -> Node], NEW n \in [Path -> Node], WellFormed(n), NEW p \in Path,
           n[p] = Absent, \A q \in Path : n[q] = b[q] \/ (q \in Under(p) /\ n[q] = Absent)
    PROVE  n = [q \in Path |-> IF q \in Under(p) THEN Absent ELSE b[q]]
<1>1. \A q \in Under(p) : n[q] = Absent
    BY NothingUnder, NodeFacts
<1>2. \A q \in Path : n[q] = IF q \in Under(p) THEN Absent ELSE b[q]
    BY <1>1
<1>3. QED
    BY <1>2

LEMMA RmPlainAlone ==
    ASSUME NEW t, Alone(t), Step(t), arg[t].op = "rmdir", ~ arg[t].flag
    PROVE  GoesOn(t) \/ Finishes(t)
<1>1. PICK p \in Path : p = arg[t].path
    BY AloneFacts
<1>2. PICK b \in [Path -> Node] : b = before
    BY AloneFacts
<1>3. pc[t] = "rmPlain"
    BY AloneFacts, AtRest DEF PCs, Reading, Removing
<1>4. RmPlain(t)
    BY <1>3 DEF Step, ReadOpen, ReadSize, ReadFile, WriteOpen, WriteFile, SizeOpen, SizeGet, Remove,
           ListFirst, ListNext, MkDir, RmFirst, RmNext, RmDir, RmFile, RmSelf
<1>5. node = b
    BY <1>2, <1>3 DEF Alone, Progress, Untroubled, BeforeAll, Reading
<1>6. PICK code : code = RemoveDirectory(p)
    OBVIOUS
<1>7. node' = (IF code = "ok" THEN [node EXCEPT ![p] = Absent] ELSE node) /\ Return(t, from_win32(code))
    BY <1>1, <1>4, <1>6 DEF RmPlain
<1>8. PICK good \in BOOLEAN : good <=> code = "ok"
    OBVIOUS
<1>9. good <=> b[p] = Dir /\ \A c \in Children(p) : b[c] = Absent
    BY <1>5, <1>6, <1>8, AloneFacts, Codes, KindOf, EmptyIs, NodeFacts
<1>10. good <=> /\ p = Cwd \/ b[p].kind = "dir"
                /\ arg[t].flag \/ \A c \in Children(p) : b[c].kind = "absent"
    BY <1>9, BeforeKinds DEF Children
<1>11. pc'[t] = "idle" /\ ret'[t] = from_win32(code)
    BY <1>7, AloneFacts, ReturnIs
<1>12. ret'[t] = "None" <=> good
    BY <1>8, <1>11, ErrorFacts
<1>13. node' = IF good THEN [q \in Path |-> IF q \in Under(p) THEN Absent ELSE b[q]] ELSE b
  <2>1. CASE ~ good
      BY <1>5, <1>7, <1>8, <2>1
  <2>2. CASE good
    <3>1. PICK n : n = [b EXCEPT ![p] = Absent]
        OBVIOUS
    <3>2. n \in [Path -> Node] /\ WellFormed(n)
        BY <1>5, <1>9, <2>2, <3>1, AloneFacts, SetNode, NodeFacts
    <3>3. n[p] = Absent /\ \A q \in Path : n[q] = b[q] \/ (q \in Under(p) /\ n[q] = Absent)
        BY <3>1, UnderFacts
    <3>4. n = [q \in Path |-> IF q \in Under(p) THEN Absent ELSE b[q]]
        BY <3>2, <3>3, WithoutSubtree
    <3>5. QED
        BY <1>5, <1>7, <1>8, <2>2, <3>1, <3>4
  <2>3. QED
      BY <2>1, <2>2
<1>14. PICK r : r = arg[t]
    OBVIOUS
<1>15. PICK n : n = node'
    OBVIOUS
<1>16. /\ good <=> /\ r.path = Cwd \/ b[r.path].kind = "dir"
                   /\ r.flag \/ \A c \in Children(r.path) : b[c].kind = "absent"
       /\ r.op = "rmdir"
       /\ n = IF good THEN [q \in Path |-> IF q \in Under(r.path) THEN Absent ELSE b[q]] ELSE b
    BY <1>1, <1>10, <1>13, <1>14, <1>15
<1>17. \A err, bytes, names : (err = "None" <=> good) => Does(r, b, n, err, bytes, names)
    BY <1>16, DoesRmdir
<1>18. QED
    BY <1>2, <1>11, <1>12, <1>14, <1>15, <1>17 DEF Finishes

\* The directories on the way to p are on the way to those after them.
LEMMA WayWithin ==
    ASSUME NEW p \in Path
    PROVE  \A j \in 1 .. Len(prefixes[p]) : \A i \in 1 .. j : prefixes[p][i] \in Way(prefixes[p][j])
<1> DEFINE Ok(m) == \A j \in 1 .. Len(prefixes[m]) : \A i \in 1 .. j : prefixes[m][i] \in Way(prefixes[m][j])
           Bad == {m \in Path : ~ Ok(m)}
<1>1. SUFFICES ASSUME Bad # {}
               PROVE  FALSE
    OBVIOUS
<1>2. PICK m \in Bad : Up[m] \notin Bad
  <2>1. Bad \in SUBSET Path
      OBVIOUS
  <2> HIDE DEF Bad
  <2>2. QED
      BY <1>1, <2>1, NoLoops
<1>3. m \in Path /\ ~ Ok(m)
    OBVIOUS
<1>4. PICK l \in Nat : l = Len(prefixes[m]) /\ prefixes[m][l] = m /\ l >= 1
    BY <1>3, PrefixesFacts
<1>5. \A i \in 1 .. l : prefixes[m][i] \in Way(m)
    BY <1>3, <1>4, WayFacts
<1>6. CASE IsTop(m)
  <2>1. l = 1
      BY <1>3, <1>4, <1>6, PrefixesStep
  <2>2. \A j \in 1 .. l : j = l
      BY <2>1
  <2>3. Ok(m)
      BY <1>4, <1>5, <2>2
  <2>4. QED
      BY <1>3, <2>3
<1>7. CASE ~ IsTop(m)
  <2>1. Up[m] \in Path
      BY <1>3, <1>7, UpIs
  <2>2. Ok(Up[m])
      BY <1>2, <2>1
  <2>3. PICK u \in Nat : u = Len(prefixes[Up[m]]) /\ l = u + 1
                         /\ \A i \in 1 .. u : prefixes[m][i] = prefixes[Up[m]][i]
      BY <1>3, <1>4, <1>7, <2>1, PrefixesStep, PrefixesFacts
  <2>4. ASSUME NEW j \in 1 .. l, NEW i \in 1 .. j
        PROVE  prefixes[m][i] \in Way(prefixes[m][j])
    <3>1. CASE j = l
      <4>1. i \in 1 .. l
          BY <3>1
      <4>2. QED
          BY <1>4, <1>5, <3>1, <4>1
    <3>2. CASE j # l
      <4>1. j \in 1 .. u /\ i \in 1 .. u
          BY <2>3, <3>2
      <4>2. prefixes[Up[m]][i] \in Way(prefixes[Up[m]][j])
          BY <2>2, <2>3, <4>1
      <4>3. QED
          BY <2>3, <4>1, <4>2
    <3>3. QED
        BY <3>1, <3>2
  <2>5. Ok(m)
      BY <1>4, <2>4
  <2>6. QED
      BY <1>3, <2>5
<1>8. QED
    BY <1>6, <1>7

\* The next directory on the way to p.
LEMMA NextOnWay ==
    ASSUME NEW p \in Path, NEW k \in Nat, k < Len(prefixes[p]), NEW q, q = prefixes[p][k + 1]
    PROVE  /\ q \in Path /\ (q = p <=> k + 1 = Len(prefixes[p]))
           /\ k = 0 <=> Up[q] = Cwd
           /\ k >= 1 => Up[q] = prefixes[p][k]
           /\ \A i \in 1 .. k : /\ prefixes[p][i] \in Path /\ prefixes[p][i] # q
                                /\ prefixes[p][i] \in Way(q)
                                /\ i # k => prefixes[p][i] \in Way(prefixes[p][k])
                                            /\ prefixes[p][i] # prefixes[p][k]
           /\ Way(p) = {prefixes[p][i] : i \in 1 .. Len(prefixes[p])}
<1>1. PICK l \in Nat : l = Len(prefixes[p]) /\ l >= 1 /\ prefixes[p][l] = p /\ k + 1 \in 1 .. l
    BY PrefixesFacts
<1>2. \A i \in 1 .. l : prefixes[p][i] \in Path
    BY <1>1, PrefixesFacts
<1>3. \A i, j \in 1 .. l : prefixes[p][i] = prefixes[p][j] => i = j
    BY <1>1, WayFacts
<1>4. \A j \in 1 .. l : \A i \in 1 .. j : prefixes[p][i] \in Way(prefixes[p][j])
    BY <1>1, WayWithin
<1>5. k + 1 = 1 <=> IsTop(q)
    BY <1>1, PrefixesFacts
<1>6. k >= 1 => Up[q] = prefixes[p][k]
  <2>1. k >= 1 => k \in 1 .. l - 1
      BY <1>1
  <2>2. QED
      BY <1>1, <2>1, PrefixesFacts
<1>7. DOMAIN prefixes[p] = 1 .. l
  <2>1. PICK s \in Seq(Path) : s = prefixes[p]
      BY PrefixesFacts
  <2>2. DOMAIN s = 1 .. Len(s)
      OBVIOUS
  <2>3. QED
      BY <1>1, <2>1, <2>2
<1>8. ASSUME NEW i \in 1 .. k
      PROVE  /\ prefixes[p][i] \in Path /\ prefixes[p][i] # q
             /\ prefixes[p][i] \in Way(q)
             /\ i # k => prefixes[p][i] \in Way(prefixes[p][k]) /\ prefixes[p][i] # prefixes[p][k]
  <2>1. i \in 1 .. l /\ i \in 1 .. k + 1 /\ i # k + 1 /\ k \in 1 .. l
      BY <1>1
  <2>2. QED
      BY <1>1, <1>2, <1>3, <1>4, <2>1
<1>9. l \in 1 .. l
    BY <1>1
<1>10. q = p <=> k + 1 = l
    BY <1>1, <1>3, <1>9
<1>11. QED
    BY <1>1, <1>2, <1>5, <1>6, <1>7, <1>8, <1>10 DEF IsTop, Way

\* The tree with the first k directories made, where the way is free.
LEMMA WayMade ==
    ASSUME NEW b \in [Path -> Node], WellFormed(b), NEW p \in Path,
           NEW k \in Nat, k < Len(prefixes[p]), NEW q, q = prefixes[p][k + 1]
    PROVE  /\ FileOnWay(p, k, b) => b[q] = Absent /\ Up[q] # Cwd /\ b[Up[q]] # Dir /\ FileOnWay(p, k + 1, b)
           /\ ~ FileOnWay(p, k, b) =>
                 /\ WithWay(p, k, b)[q] = b[q]
                 /\ Up[q] = Cwd \/ WithWay(p, k, b)[Up[q]] = Dir
                 /\ b[q] # Absent => WithWay(p, k, b) = b
                 /\ b[q] = Absent => [WithWay(p, k, b) EXCEPT ![q] = Dir] = WithWay(p, k + 1, b)
                 /\ b[q] = Dir => WithWay(p, k + 1, b) = b
                 /\ FileOnWay(p, k + 1, b) <=> b[q].kind = "file"
<1>1. PICK way : way = prefixes[p]
    OBVIOUS
<1>2. /\ q \in Path /\ q = way[k + 1]
      /\ k = 0 <=> Up[q] = Cwd
      /\ k >= 1 => Up[q] = way[k]
      /\ \A i \in 1 .. k : /\ way[i] \in Path /\ way[i] # q /\ way[i] \in Way(q)
                           /\ i # k => way[i] \in Way(way[k]) /\ way[i] # way[k]
    BY <1>1, NextOnWay
<1>3. \A i : i \in 1 .. k + 1 <=> i \in 1 .. k \/ i = k + 1
    OBVIOUS
<1>4. FileOnWay(p, k + 1, b) <=> FileOnWay(p, k, b) \/ b[q].kind = "file"
    BY <1>1, <1>2, <1>3 DEF FileOnWay
<1>5. ASSUME FileOnWay(p, k, b)
      PROVE  b[q] = Absent /\ Up[q] # Cwd /\ b[Up[q]] # Dir
  <2>1. PICK i \in 1 .. k : b[way[i]].kind = "file"
      BY <1>1, <1>5 DEF FileOnWay
  <2>2. b[way[i]] # Dir /\ b[way[i]] # Absent
      BY <1>2, <2>1, BeforeKinds
  <2>3. k \in 1 .. k /\ k >= 1
      OBVIOUS
  <2>4. b[q] = Absent
      BY <1>2, <2>2, AncestorsAreDirs
  <2>5. b[way[k]] # Dir
    <3>1. CASE i = k
        BY <2>2, <3>1
    <3>2. CASE i # k
      <4>1. b[way[k]] = Absent
          BY <1>2, <2>2, <2>3, <3>2, AncestorsAreDirs
      <4>2. QED
          BY <4>1, NodeFacts
    <3>3. QED
        BY <3>1, <3>2
  <2>6. QED
      BY <1>2, <2>3, <2>4, <2>5
<1>6. PICK m : m = WithWay(p, k, b)
    OBVIOUS
<1>7. m = [c \in Path |-> IF \E i \in 1 .. k : way[i] = c THEN Dir ELSE b[c]]
    BY <1>1, <1>6 DEF WithWay
<1>8. m[q] = b[q] /\ (Up[q] = Cwd \/ m[Up[q]] = Dir)
  <2>1. m[q] = b[q]
      BY <1>2, <1>7
  <2>2. k >= 1 => m[way[k]] = Dir
      BY <1>2, <1>7
  <2>3. QED
      BY <1>2, <2>1, <2>2
<1>9. ASSUME b[q] # Absent
      PROVE  m = b /\ \A i \in 1 .. k : b[way[i]] = Dir
  <2>1. \A i \in 1 .. k : b[way[i]] = Dir
      BY <1>2, <1>9, AncestorsAreDirs
  <2>2. \A c \in Path : m[c] = b[c]
      BY <1>7, <2>1
  <2>3. m = b
      BY <1>7, <2>2
  <2>4. QED
      BY <2>1, <2>3
<1>10. WithWay(p, k + 1, b) = [c \in Path |-> IF (\E i \in 1 .. k : way[i] = c) \/ c = q THEN Dir ELSE b[c]]
    BY <1>1, <1>2, <1>3 DEF WithWay
<1>11. b[q] = Absent => [m EXCEPT ![q] = Dir] = WithWay(p, k + 1, b)
    BY <1>2, <1>7, <1>10
<1>12. b[q] = Dir => WithWay(p, k + 1, b) = b
  <2>1. SUFFICES ASSUME b[q] = Dir
                 PROVE  WithWay(p, k + 1, b) = b
      OBVIOUS
  <2>2. b[q] # Absent
      BY <2>1, NodeFacts
  <2>3. \A i \in 1 .. k : b[way[i]] = Dir
      BY <1>9, <2>2
  <2>4. PICK f : f = WithWay(p, k + 1, b)
      OBVIOUS
  <2>5. \A c \in Path : f[c] = b[c]
      BY <1>10, <2>1, <2>3, <2>4
  <2>6. f = [c \in Path |-> f[c]]
      BY <1>10, <2>4
  <2>7. QED
      BY <2>4, <2>5, <2>6
<1>13. QED
    BY <1>4, <1>5, <1>6, <1>8, <1>9, <1>11, <1>12

LEMMA MkdirAlone ==
    ASSUME NEW t, Alone(t), Step(t), arg[t].op = "mkdirs"
    PROVE  GoesOn(t) \/ Finishes(t)
<1>1. PICK p \in Path : p = arg[t].path
    BY AloneFacts
<1>2. PICK b \in [Path -> Node] : b = before /\ WellFormed(b)
    BY AloneFacts
<1>3. PICK r : r = arg[t]
    OBVIOUS
<1>4. pc[t] = "mkdir"
    BY AloneFacts, AtRest DEF PCs, Reading, Removing
<1>5. MkDir(t)
    BY <1>4 DEF Step, ReadOpen, ReadSize, ReadFile, WriteOpen, WriteFile, SizeOpen, SizeGet, Remove,
           ListFirst, ListNext, RmPlain, RmFirst, RmNext, RmDir, RmFile, RmSelf
<1>6. PICK k \in Nat : k = Len(stack[t]) /\ k < Len(prefixes[p])
    BY <1>1, <1>4, AloneFacts, AtRest, AtWork
<1>7. PICK q : q = prefixes[p][k + 1]
    OBVIOUS
<1>8. /\ q \in Path /\ (q = p <=> k + 1 = Len(prefixes[p])) /\ Up[q] \in Path \cup {Cwd}
      /\ Way(p) = {prefixes[p][i] : i \in 1 .. Len(prefixes[p])}
    BY <1>6, <1>7, NextOnWay, NotCwd
<1>9. PICK code : code = CreateDirectory(q)
    OBVIOUS
<1>10. /\ node' = IF code = "ok" THEN [node EXCEPT ![q] = Dir] ELSE node
       /\ q # p => Goto(t, "mkdir") /\ stack' = [stack EXCEPT ![t] = Append(@, InDir(q, Cwd))]
       /\ q = p => Return(t, IF code = "ALREADY_EXISTS" THEN "None" ELSE from_win32(code))
    BY <1>1, <1>5, <1>6, <1>7, <1>9 DEF MkDir
<1>11. /\ FileOnWay(p, k, b) => node = b
       /\ ~ FileOnWay(p, k, b) => node = WithWay(p, k, b)
    BY <1>1, <1>2, <1>4, <1>6 DEF Alone, Progress, Making
<1>12. /\ code = "ok" <=> node[q] = Absent /\ (Up[q] = Cwd \/ node[Up[q]] = Dir)
       /\ code = "ALREADY_EXISTS" <=> node[q] # Absent
    BY <1>8, <1>9, AloneFacts, Codes, KindOf
<1>13. b[q].kind = "file" <=> b[q] # Absent /\ b[q] # Dir
    BY <1>8, BeforeKinds
<1>14. /\ FileOnWay(p, k, b) => b[q] = Absent /\ Up[q] # Cwd /\ b[Up[q]] # Dir /\ FileOnWay(p, k + 1, b)
       /\ ~ FileOnWay(p, k, b) =>
             /\ WithWay(p, k, b)[q] = b[q]
             /\ Up[q] = Cwd \/ WithWay(p, k, b)[Up[q]] = Dir
             /\ b[q] # Absent => WithWay(p, k, b) = b
             /\ b[q] = Absent => [WithWay(p, k, b) EXCEPT ![q] = Dir] = WithWay(p, k + 1, b)
             /\ b[q] = Dir => WithWay(p, k + 1, b) = b
             /\ FileOnWay(p, k + 1, b) <=> b[q].kind = "file"
    BY <1>2, <1>6, <1>7, WayMade
<1>15. PICK n : n = node'
    OBVIOUS
\* A file on the way stops everything after it.
<1>16. FileOnWay(p, k, b) => code # "ok" /\ code # "ALREADY_EXISTS" /\ n = b
    BY <1>10, <1>11, <1>12, <1>14, <1>15
<1>17. ~ FileOnWay(p, k, b) =>
          /\ code # "ok" <=> b[q] # Absent
          /\ code = "ALREADY_EXISTS" <=> b[q] # Absent
          /\ b[q] # Absent => n = b
          /\ b[q] = Absent => n = WithWay(p, k + 1, b)
    BY <1>10, <1>11, <1>12, <1>14, <1>15
<1>18. CASE q # p
  <2>1. PICK s : s = Append(stack[t], InDir(q, Cwd))
      OBVIOUS
  <2>2. Len(s) = k + 1
      BY <1>4, <1>6, <1>8, <2>1, AloneFacts, AtWork, AppendEntry
  <2>3. stack'[t] = s /\ pc'[t] = "mkdir" /\ arg'[t] = arg[t] /\ before' = before
      BY <1>10, <1>18, <2>1, AloneFacts, GotoIs DEF TypedLocals
  <2>4. (FileOnWay(p, k + 1, b) => n = b) /\ (~ FileOnWay(p, k + 1, b) => n = WithWay(p, k + 1, b))
      BY <1>13, <1>14, <1>16, <1>17
  <2>5. Making(r, s, n, b)
      BY <1>1, <1>3, <2>2, <2>4 DEF Making
  <2>6. \A e : Progress("mkdir", r, s, n, b, e)
      BY <2>5 DEF Progress, Untroubled, Reading, Removing, BeforeAll
  <2>7. QED
      BY <1>2, <1>3, <1>15, <2>3, <2>6 DEF GoesOn
<1>19. CASE q = p
  <2>1. PICK err : err = IF code = "ALREADY_EXISTS" THEN "None" ELSE from_win32(code)
      OBVIOUS
  <2>2. pc'[t] = "idle" /\ ret'[t] = err
      BY <1>10, <1>19, <2>1, AloneFacts, ReturnIs
  <2>3. err = "None" <=> code \in {"ok", "ALREADY_EXISTS"}
      BY <2>1, ErrorFacts
  <2>4. PICK good \in BOOLEAN : good <=> ~ FileOnWay(p, k, b)
      OBVIOUS
  <2>5. \A i \in 1 .. k : prefixes[p][i] \in Path /\ prefixes[p][i] # p
    <3>1. PICK way : way = prefixes[p]
        OBVIOUS
    <3>2. /\ q \in Path /\ q = way[k + 1]
          /\ k = 0 <=> Up[q] = Cwd
          /\ k >= 1 => Up[q] = way[k]
          /\ \A i \in 1 .. k : /\ way[i] \in Path /\ way[i] # q /\ way[i] \in Way(q)
                               /\ i # k => way[i] \in Way(way[k]) /\ way[i] # way[k]
        BY <1>6, <1>7, <3>1, NextOnWay
    <3>3. QED
        BY <1>19, <3>1, <3>2
  <2>6. \A c : c \in Way(p) <=> c = p \/ \E i \in 1 .. k : prefixes[p][i] = c
    <3>1. \A i : i \in 1 .. k + 1 <=> i \in 1 .. k \/ i = k + 1
        OBVIOUS
    <3>2. QED
        BY <1>7, <1>8, <1>19, <3>1
  <2>7. good <=> \A c \in Way(p) \ {p} : ~ b[c].kind = "file"
      BY <2>4, <2>5, <2>6 DEF FileOnWay
  <2>8. err = "None" <=> good
      BY <1>16, <1>17, <2>3, <2>4
  <2>9. n = IF good THEN [c \in Path |-> IF c \in {d \in Way(p) : b[d].kind = "absent"} THEN Dir ELSE b[c]]
                    ELSE b
    <3>1. CASE ~ good
        BY <1>16, <2>4, <3>1
    <3>2. CASE good /\ b[p] # Absent
      <4>1. \A d \in Way(p) : b[d] # Absent
        <5>1. \A d \in Way(p) : d # p => b[d] = Dir
            BY <1>2, <3>2, AncestorsAreDirs
        <5>2. QED
            BY <3>2, <5>1, NodeFacts
      <4>2. \A d \in Way(p) : d \in Path
          BY <2>5, <2>6
      <4>3. {d \in Way(p) : b[d].kind = "absent"} = {}
          BY <4>1, <4>2, BeforeKinds
      <4>4. n = b
          BY <1>17, <1>19, <2>4, <3>2
      <4>5. QED
          BY <3>2, <4>3, <4>4
    <3>3. CASE good /\ b[p] = Absent
      <4>1. n = WithWay(p, k + 1, b)
          BY <1>17, <1>19, <2>4, <3>3
      <4>2. n = [c \in Path |-> IF \E i \in 1 .. k + 1 : prefixes[p][i] = c THEN Dir ELSE b[c]]
          BY <4>1 DEF WithWay
      <4>3. \A c : (\E i \in 1 .. k + 1 : prefixes[p][i] = c) <=> c \in Way(p)
        <5>1. \A i : i \in 1 .. k + 1 <=> i \in 1 .. k \/ i = k + 1
            OBVIOUS
        <5>2. QED
            BY <1>7, <1>19, <2>6, <5>1
      <4>4. ASSUME NEW c \in Path
            PROVE  n[c] = IF c \in {d \in Way(p) : b[d].kind = "absent"} THEN Dir ELSE b[c]
        <5>1. n[c] = IF c \in Way(p) THEN Dir ELSE b[c]
            BY <4>2, <4>3
        <5>2. c \in Way(p) /\ b[c].kind # "absent" => b[c] = Dir
          <6>1. c \in Way(p) => b[c].kind # "file"
              BY <2>7, <3>3, BeforeKinds
          <6>2. QED
              BY <6>1, BeforeKinds
        <5>3. QED
            BY <5>1, <5>2
      <4>5. n = [c \in Path |-> n[c]]
          BY <4>2
      <4>6. QED
          BY <3>3, <4>4, <4>5
    <3>4. QED
        BY <3>1, <3>2, <3>3
  <2>10. /\ good <=> \A c \in Way(r.path) \ {r.path} : ~ b[c].kind = "file"
         /\ r.op = "mkdirs"
         /\ n = IF good
                THEN [c \in Path |-> IF c \in {d \in Way(r.path) : b[d].kind = "absent"} THEN Dir ELSE b[c]]
                ELSE b
      BY <1>1, <1>3, <2>7, <2>9
  <2>11. \A bytes, names : Does(r, b, n, err, bytes, names)
      BY <2>8, <2>10, DoesMkdirs
  <2>12. QED
      BY <1>2, <1>3, <1>15, <2>2, <2>11 DEF Finishes
<1>20. QED
    BY <1>18, <1>19

\* The directories a removal is in, from step to step.
LEMMA ClearFirst ==
    ASSUME NEW r, r.path \in Path, NEW b \in [Path -> Node], b[r.path] = Dir,
           NEW s, Len(s) = 1, s[1].dir = r.path, s[1].at = Cwd
    PROVE  Clearing("rmNext", r, s, b, b)
<1>1. \A i \in 1 .. Len(s) : i = 1
    OBVIOUS
<1>2. \A c \in Path : ~ (c < Cwd) /\ ~ (c <= Cwd)
    BY PathNumbers
<1>3. r.path \in Under(r.path)
    BY UnderFacts
<1>4. \A i \in 1 .. Len(s) : s[i].dir = r.path /\ s[i].at = Cwd
    BY <1>1
<1>5. \A i, j \in 1 .. Len(s) : ~ (i < j)
    BY <1>1
<1>6. \A i \in 1 .. Len(s) - 1 : FALSE
    OBVIOUS
<1>7. \A c \in Children(r.path) : c \in Path
    BY DEF Children
<1>8. QED
    BY <1>2, <1>3, <1>4, <1>5, <1>6, <1>7 DEF Clearing

LEMMA ClearFound ==
    ASSUME NEW r, r.path \in Path, NEW b, NEW n \in [Path -> Node], NEW k \in Nat, k >= 1,
           NEW s, Len(s) = k, NEW u, Len(u) = k, \A i \in 1 .. k - 1 : u[i] = s[i],
           \A i \in 1 .. k : s[i].dir \in Path /\ s[i].at \in Path \cup {Cwd},
           NEW c \in Children(s[k].dir), u[k].dir = s[k].dir, u[k].at = c,
           c > s[k].at, \A x \in Children(s[k].dir) : x > s[k].at /\ x < c => n[x] = Absent,
           NEW w, (n[c] = Dir /\ w = "rmDir") \/ (n[c].kind = "file" /\ w = "rmFile"),
           Clearing("rmNext", r, s, n, b)
    PROVE  Clearing(w, r, u, n, b)
<1>1. \A i \in 1 .. k : i = k \/ i \in 1 .. k - 1
    OBVIOUS
<1>2. \A i \in 1 .. k : u[i].dir = s[i].dir
    BY <1>1
<1>3. k \in 1 .. k /\ 1 \in 1 .. k
    OBVIOUS
<1>4. u[1].dir = r.path
    BY <1>2, <1>3 DEF Clearing
<1>5. \A i \in 1 .. k : u[i].dir \in Under(r.path) /\ n[u[i].dir] = Dir
    BY <1>2 DEF Clearing
<1>6. \A i \in 1 .. k - 1 : u[i + 1].dir = u[i].at
  <2>1. \A i \in 1 .. k - 1 : i + 1 \in 1 .. k
      OBVIOUS
  <2>2. QED
      BY <1>2, <2>1 DEF Clearing
<1>7. \A i, j \in 1 .. k : i < j => u[i].dir < u[j].dir
    BY <1>2 DEF Clearing
<1>8. \A x \in Children(s[k].dir) : x < c => n[x] = Absent
  <2>1. SUFFICES ASSUME NEW x \in Children(s[k].dir), x < c
                 PROVE  n[x] = Absent
      OBVIOUS
  <2>2. x \in Nat /\ s[k].at \in Nat
      BY <1>3, PathNumbers DEF Children
  <2>3. CASE x > s[k].at
      BY <2>1, <2>3
  <2>4. CASE x <= s[k].at
      BY <2>4 DEF Clearing
  <2>5. QED
      BY <2>2, <2>3, <2>4
<1>9. \A i \in 1 .. k : \A x \in Children(u[i].dir) : x < u[i].at => n[x] = Absent
  <2>1. \A i \in 1 .. k - 1 : \A x \in Children(u[i].dir) : x < u[i].at => n[x] = Absent
    <3>1. \A i \in 1 .. k - 1 : i \in 1 .. k
        OBVIOUS
    <3>2. QED
        BY <3>1 DEF Clearing
  <2>2. QED
      BY <1>1, <1>8, <2>1
<1>10. Up[u[k].at] = u[k].dir
    BY DEF Children
<1>11. \A q \in Path : n[q] = b[q] \/ (q \in Under(r.path) /\ n[q] = Absent)
    BY DEF Clearing
<1>12. QED
    BY <1>4, <1>5, <1>6, <1>7, <1>9, <1>10, <1>11 DEF Clearing

LEMMA ClearDone ==
    ASSUME NEW r, NEW b, NEW n, NEW s, Clearing("rmNext", r, s, n, b),
           \A c \in Children(s[Len(s)].dir) : n[c] = Absent
    PROVE  Clearing("rmSelf", r, s, n, b)
BY DEF Clearing

LEMMA ClearEnter ==
    ASSUME NEW r, r.path \in Path, NEW b, NEW n, NEW k \in Nat, k >= 1,
           NEW s, Len(s) = k, NEW u, Len(u) = k + 1, \A i \in 1 .. k : u[i] = s[i],
           \A i \in 1 .. k : s[i].dir \in Path, s[k].at \in Path,
           u[k + 1].dir = s[k].at, u[k + 1].at = Cwd,
           Clearing("rmDir", r, s, n, b)
    PROVE  Clearing("rmNext", r, u, n, b)
<1>1. \A i \in 1 .. k + 1 : i = k + 1 \/ i \in 1 .. k
    OBVIOUS
<1>2. k \in 1 .. k /\ 1 \in 1 .. k
    OBVIOUS
<1>3. u[1].dir = r.path
    BY <1>2 DEF Clearing
<1>4. s[k].at \in Under(r.path) /\ n[s[k].at] = Dir
  <2>1. Up[s[k].at] = s[k].dir /\ s[k].dir \in Under(r.path) /\ n[s[k].at] = Dir
      BY <1>2 DEF Clearing
  <2>2. QED
      BY <2>1, UnderFacts
<1>5. \A i \in 1 .. k + 1 : u[i].dir \in Under(r.path) /\ n[u[i].dir] = Dir
    BY <1>1, <1>4 DEF Clearing
<1>6. \A i \in 1 .. (k + 1) - 1 : u[i + 1].dir = u[i].at
  <2>1. \A i \in 1 .. k : i = k \/ (i \in 1 .. k - 1 /\ i + 1 \in 1 .. k)
      OBVIOUS
  <2>2. \A i \in 1 .. k - 1 : s[i + 1].dir = s[i].at
      BY DEF Clearing
  <2>3. \A i \in 1 .. k : u[i + 1].dir = u[i].at
      BY <1>2, <2>1, <2>2
  <2>4. QED
      BY <2>3
<1>7. \A i \in 1 .. k : s[i].dir < s[k].at
  <2>1. SUFFICES ASSUME NEW i \in 1 .. k
                 PROVE  s[i].dir < s[k].at
      OBVIOUS
  <2>2. s[k].dir < s[k].at
    <3>1. Up[s[k].at] = s[k].dir
        BY DEF Clearing
    <3>2. QED
        BY <3>1, PathAssumption
  <2>3. i = k \/ s[i].dir < s[k].dir
    <3>1. i < k => s[i].dir < s[k].dir
        BY <1>2 DEF Clearing
    <3>2. QED
        BY <3>1
  <2>4. s[i].dir \in Nat /\ s[k].dir \in Nat /\ s[k].at \in Nat
      BY <1>2, PathNumbers
  <2>5. QED
      BY <2>2, <2>3, <2>4
<1>8. \A i, j \in 1 .. k + 1 : i < j => u[i].dir < u[j].dir
  <2>1. SUFFICES ASSUME NEW i \in 1 .. k + 1, NEW j \in 1 .. k + 1, i < j
                 PROVE  u[i].dir < u[j].dir
      OBVIOUS
  <2>2. i \in 1 .. k
      BY <2>1
  <2>3. CASE j = k + 1
      BY <1>7, <2>2, <2>3
  <2>4. CASE j \in 1 .. k
      BY <2>1, <2>2, <2>4 DEF Clearing
  <2>5. QED
      BY <1>1, <2>3, <2>4
<1>9. \A x \in Path : ~ (x < Cwd) /\ ~ (x <= Cwd)
    BY PathNumbers
<1>10. \A d : \A x \in Children(d) : x \in Path
    BY DEF Children
<1>11. \A i \in 1 .. k + 1 : \A x \in Children(u[i].dir) : x < u[i].at => n[x] = Absent
    BY <1>1, <1>9, <1>10 DEF Clearing
<1>12. \A q \in Path : n[q] = b[q] \/ (q \in Under(r.path) /\ n[q] = Absent)
    BY DEF Clearing
<1>13. QED
    BY <1>3, <1>5, <1>6, <1>8, <1>9, <1>10, <1>11, <1>12 DEF Clearing

LEMMA ClearFile ==
    ASSUME NEW r, r.path \in Path, NEW b, NEW n \in [Path -> Node], NEW k \in Nat, k >= 1,
           NEW s, Len(s) = k, \A i \in 1 .. k : s[i].dir \in Path /\ s[i].at \in Path \cup {Cwd}, s[k].at \in Path,
           Clearing("rmFile", r, s, n, b), NEW m, m = [n EXCEPT ![s[k].at] = Absent]
    PROVE  Clearing("rmNext", r, s, m, b)
<1>1. PICK f \in Path : f = s[k].at
    OBVIOUS
<1>2. m[f] = Absent /\ \A q \in Path : q # f => m[q] = n[q]
    BY <1>1
<1>3. n[f].kind = "file" /\ Up[f] = s[k].dir
    BY <1>1 DEF Clearing
<1>4. k \in 1 .. k
    OBVIOUS
<1>5. f \in Under(r.path)
    BY <1>3, <1>4, UnderFacts DEF Clearing
<1>6. \A q \in Path : m[q] = b[q] \/ (q \in Under(r.path) /\ m[q] = Absent)
    BY <1>2, <1>5 DEF Clearing
<1>7. \A i \in 1 .. k : s[i].dir \in Under(r.path) /\ m[s[i].dir] = Dir
    BY <1>2, <1>3, NodeFacts DEF Clearing
<1>8. \A q \in Path : n[q] = Absent => m[q] = Absent
    BY <1>2
<1>9. \A d : \A x \in Children(d) : x \in Path
    BY DEF Children
<1>10. \A i \in 1 .. k : \A x \in Children(s[i].dir) : x < s[i].at => m[x] = Absent
    BY <1>8, <1>9 DEF Clearing
<1>11. \A x \in Children(s[k].dir) : x <= s[k].at => m[x] = Absent
  <2>1. SUFFICES ASSUME NEW x \in Children(s[k].dir), x <= f
                 PROVE  m[x] = Absent
      BY <1>1
  <2>2. x \in Nat /\ f \in Nat
      BY <1>9, PathNumbers
  <2>3. x = f \/ x < f
      BY <2>1, <2>2
  <2>4. QED
      BY <1>1, <1>2, <1>4, <1>10, <2>3
<1>12. /\ s[1].dir = r.path
       /\ \A i \in 1 .. k - 1 : s[i + 1].dir = s[i].at
       /\ \A i, j \in 1 .. k : i < j => s[i].dir < s[j].dir
    BY DEF Clearing
<1>13. QED
    BY <1>6, <1>7, <1>10, <1>11, <1>12 DEF Clearing

LEMMA ClearUp ==
    ASSUME NEW r, r.path \in Path, NEW b, NEW n \in [Path -> Node], NEW k \in Nat, k >= 1,
           NEW s, Len(s) = k + 1, \A i \in 1 .. k + 1 : s[i].dir \in Path /\ s[i].at \in Path \cup {Cwd},
           NEW u, Len(u) = k, \A i \in 1 .. k : u[i] = s[i],
           Clearing("rmSelf", r, s, n, b), NEW m, m = [n EXCEPT ![s[k + 1].dir] = Absent]
    PROVE  Clearing("rmNext", r, u, m, b)
<1>1. k + 1 \in 1 .. k + 1 /\ k \in 1 .. k /\ 1 \in 1 .. k /\ \A i \in 1 .. k : i \in 1 .. k + 1 /\ i < k + 1
    OBVIOUS
<1>2. PICK d \in Path : d = s[k + 1].dir
    BY <1>1
<1>3. m[d] = Absent /\ \A q \in Path : q # d => m[q] = n[q]
    BY <1>2
<1>4. d \in Under(r.path)
    BY <1>1, <1>2 DEF Clearing
<1>5. \A q \in Path : m[q] = b[q] \/ (q \in Under(r.path) /\ m[q] = Absent)
    BY <1>3, <1>4 DEF Clearing
<1>6. \A i \in 1 .. k : s[i].dir # d
  <2>1. SUFFICES ASSUME NEW i \in 1 .. k
                 PROVE  s[i].dir # d
      OBVIOUS
  <2>2. s[i].dir < d
      BY <1>1, <1>2 DEF Clearing
  <2>3. s[i].dir \in Nat /\ d \in Nat
      BY <1>1, PathNumbers
  <2>4. QED
      BY <2>2, <2>3
<1>7. \A i \in 1 .. k : u[i].dir \in Under(r.path) /\ m[u[i].dir] = Dir
    BY <1>1, <1>3, <1>6 DEF Clearing
<1>8. \A q \in Path : n[q] = Absent => m[q] = Absent
    BY <1>3
<1>9. \A e : \A x \in Children(e) : x \in Path
    BY DEF Children
<1>10. \A i \in 1 .. k : \A x \in Children(u[i].dir) : x < u[i].at => m[x] = Absent
  <2>1. \A i \in 1 .. k : \A x \in Children(s[i].dir) : x < s[i].at => n[x] = Absent
      BY <1>1 DEF Clearing
  <2>2. QED
      BY <1>8, <1>9, <2>1
<1>11. u[k].at = d
  <2>1. \A i \in 1 .. (k + 1) - 1 : s[i + 1].dir = s[i].at
      BY DEF Clearing
  <2>2. k \in 1 .. (k + 1) - 1
      OBVIOUS
  <2>3. QED
      BY <1>1, <1>2, <2>1, <2>2
<1>12. \A x \in Children(u[k].dir) : x <= u[k].at => m[x] = Absent
  <2>1. SUFFICES ASSUME NEW x \in Children(u[k].dir), x <= d
                 PROVE  m[x] = Absent
      BY <1>11
  <2>2. x \in Nat /\ d \in Nat
      BY <1>9, PathNumbers
  <2>3. x = d \/ x < d
      BY <2>1, <2>2
  <2>4. QED
      BY <1>1, <1>3, <1>10, <1>11, <2>3
<1>13. u[1].dir = r.path
    BY <1>1 DEF Clearing
<1>14. \A i \in 1 .. k - 1 : u[i + 1].dir = u[i].at
  <2>1. \A i \in 1 .. k - 1 : i \in 1 .. (k + 1) - 1 /\ i \in 1 .. k /\ i + 1 \in 1 .. k
      OBVIOUS
  <2>2. QED
      BY <2>1 DEF Clearing
<1>15. \A i, j \in 1 .. k : i < j => u[i].dir < u[j].dir
    BY <1>1 DEF Clearing
<1>16. QED
    BY <1>5, <1>7, <1>10, <1>12, <1>13, <1>14, <1>15 DEF Clearing

LEMMA RmTreeAlone ==
    ASSUME NEW t, Alone(t), Step(t), t \in alone, t \in alone', arg[t].op = "rmdir", arg[t].flag
    PROVE  GoesOn(t) \/ Finishes(t)
<1>1. PICK p \in Path : p = arg[t].path
    BY AloneFacts
<1>2. PICK b \in [Path -> Node] : b = before /\ WellFormed(b)
    BY AloneFacts
<1>3. PICK r : r = arg[t] /\ r.path = p /\ r.op = "rmdir" /\ r.flag
    BY <1>1
<1>4. PICK n \in [Path -> Node] : n = node /\ WellFormed(n)
    BY AloneFacts
<1>5. pc[t] \in {"rmFirst"} \cup Removing
    BY AloneFacts, AtRest DEF PCs, Reading, Removing
<1>6. RmFirst(t) \/ RmNext(t) \/ RmDir(t) \/ RmFile(t) \/ RmSelf(t)
    BY <1>5 DEF Step, ReadOpen, ReadSize, ReadFile, WriteOpen, WriteFile, SizeOpen, SizeGet, Remove,
           ListFirst, ListNext, MkDir, RmPlain, Removing
<1>7. PICK s \in Seq(Entries) : s = stack[t]
    BY AloneFacts, AtWork
<1>8. PICK k \in Nat : k = Len(s)
    OBVIOUS
<1>9. /\ pc[t] = "rmFirst" => n = b /\ s = <<>>
      /\ pc[t] \in Removing => b[p] = Dir /\ Clearing(pc[t], r, s, n, b) /\ k >= 1
    BY <1>1, <1>2, <1>3, <1>4, <1>7, <1>8, AloneFacts, AtRest
       DEF Alone, Progress, Untroubled, BeforeAll, Removing
<1>10. \A i \in 1 .. k : s[i].dir \in Path /\ s[i].at \in Path \cup {Cwd}
  <2>1. \A i \in 1 .. k : s[i] \in Entries
      BY <1>8
  <2>2. QED
      BY <2>1 DEF Entries
\* With a place to go on from, the call goes on.
<1>11. ASSUME NEW w \in Removing, NEW u, NEW m, Goto(t, w), stack'[t] = u, node' = m, b[p] = Dir,
              Clearing(w, r, u, m, b)
       PROVE  GoesOn(t)
  <2>1. pc'[t] = w /\ arg'[t] = r /\ before' = b
      BY <1>2, <1>3, <1>11, AloneFacts, GotoIs
  <2>2. \A e : Progress(w, r, u, m, b, e)
      BY <1>3, <1>11 DEF Progress, Untroubled, Reading, Removing, BeforeAll
  <2>3. w # "idle"
      BY DEF Removing
  <2>4. QED
      BY <1>2, <1>11, <2>1, <2>2, <2>3 DEF GoesOn
<1>12. "rmNext" \in Removing /\ "rmSelf" \in Removing /\ "rmDir" \in Removing /\ "rmFile" \in Removing
    BY DEF Removing
<1>13. p = Cwd \/ b[p].kind = "dir" <=> b[p] = Dir
    BY BeforeKinds
<1>14. CASE RmFirst(t)
  <2>1. RmEnter(t, p) /\ node' = b /\ n = b /\ s = <<>>
      BY <1>1, <1>2, <1>4, <1>9, <1>14 DEF RmFirst, disk
  <2>a. node = b
      BY <1>4, <2>1
  <2>2. FindFirst(p) = "ok" <=> b[p] = Dir
      BY <2>a, Codes, KindOf, NodeFacts
  <2>3. CASE FindFirst(p) = "ok"
    <3>1. PICK u : u = Append(s, InDir(p, Cwd))
        OBVIOUS
    <3>2. /\ Len(u) = 1 /\ u[1] = InDir(p, Cwd) /\ stack'[t] = u /\ Goto(t, "rmNext")
      <4>1. Len(u) = Len(s) + 1 /\ u[Len(s) + 1] = InDir(p, Cwd)
          BY <3>1, AppendEntry
      <4>2. Len(s) = 0
          BY <2>1
      <4>3. Goto(t, "rmNext") /\ stack' = [stack EXCEPT ![t] = Append(@, InDir(p, Cwd))]
          BY <2>1, <2>3 DEF RmEnter
      <4>4. QED
          BY <1>7, <3>1, <4>1, <4>2, <4>3, AloneFacts DEF TypedLocals
    <3>3. u[1].dir = p /\ u[1].at = Cwd
        BY <3>2, OneEntry
    <3>4. Clearing("rmNext", r, u, b, b)
        BY <1>3, <2>2, <2>3, <3>2, <3>3, ClearFirst
    <3>5. QED
        BY <1>11, <1>12, <2>1, <2>2, <2>3, <3>2, <3>4
  <2>4. CASE FindFirst(p) # "ok"
    <3>1. Return(t, from_win32(FindFirst(p)))
        BY <2>1, <2>4 DEF RmEnter, RmFail
    <3>2. pc'[t] = "idle" /\ ret'[t] # "None"
        BY <2>4, <3>1, AloneFacts, ReturnIs, ErrorFacts
    <3>3. PICK good \in BOOLEAN : good <=> FALSE
        OBVIOUS
    <3>4. \A err, bytes, names : err # "None" => Does(r, b, b, err, bytes, names)
        BY <1>3, <1>13, <2>2, <2>4, <3>3, DoesRmdir
    <3>5. QED
        BY <1>2, <1>3, <2>1, <3>2, <3>4 DEF Finishes
  <2>5. QED
      BY <2>3, <2>4
<1>15. CASE RmNext(t)
  <2>1. pc[t] = "rmNext" /\ node' = n /\ b[p] = Dir /\ Clearing("rmNext", r, s, n, b) /\ k >= 1
      BY <1>4, <1>9, <1>12, <1>15 DEF RmNext, disk
  <2>2. k \in 1 .. k /\ Top(t) = s[k]
      BY <1>7, <1>8, <2>1 DEF Top
  <2>3. ASSUME NEW c \in Nexts(s[k].dir, s[k].at),
               stack' = [stack EXCEPT ![t] = Append(Rest(t), InDir(s[k].dir, c))],
               Goto(t, IF IsDir(c) THEN "rmDir" ELSE "rmFile")
        PROVE  GoesOn(t)
    <3>1. c \in Path /\ c \in Children(s[k].dir) /\ c > s[k].at /\ Exists(c)
        BY NextsFacts DEF Children
    <3>2. \A x \in Children(s[k].dir) : x > s[k].at /\ x < c => n[x] = Absent
        BY <1>4, <1>10, <2>2, NextsLeast
    <3>3. PICK w : w = IF IsDir(c) THEN "rmDir" ELSE "rmFile"
        OBVIOUS
    <3>4. (n[c] = Dir /\ w = "rmDir") \/ (n[c].kind = "file" /\ w = "rmFile")
        BY <1>4, <3>1, <3>3, KindOf
    <3>5. PICK f \in Seq(Entries) : f = Rest(t)
        BY <1>7, <1>8, <2>1, AloneFacts, TopFacts
    <3>6. Len(f) = k - 1 /\ \A i \in 1 .. k - 1 : f[i] = s[i]
        BY <1>7, <1>8, <2>1, <3>5, AloneFacts, TopFacts
    <3>7. PICK u : u = Append(f, InDir(s[k].dir, c))
        OBVIOUS
    <3>8. /\ Len(u) = k /\ u[k] = InDir(s[k].dir, c) /\ \A i \in 1 .. k - 1 : u[i] = s[i]
      <4>1. /\ Len(u) = Len(f) + 1 /\ u[Len(f) + 1] = InDir(s[k].dir, c)
            /\ \A i \in 1 .. Len(f) : u[i] = f[i]
          BY <1>10, <2>2, <3>1, <3>7, AppendEntry
      <4>2. Len(f) + 1 = k /\ 1 .. Len(f) = 1 .. k - 1
          BY <2>1, <3>6
      <4>3. QED
          BY <3>6, <4>1, <4>2
    <3>9. u[k].dir = s[k].dir /\ u[k].at = c
        BY <1>10, <2>2, <3>1, <3>8, OneEntry
    <3>a. /\ r.path \in Path /\ k \in Nat /\ k >= 1 /\ Len(s) = k /\ Len(u) = k
          /\ \A i \in 1 .. k - 1 : u[i] = s[i]
          /\ \A i \in 1 .. k : s[i].dir \in Path /\ s[i].at \in Path \cup {Cwd}
          /\ c \in Children(s[k].dir) /\ u[k].dir = s[k].dir /\ u[k].at = c /\ c > s[k].at
        BY <1>3, <1>8, <1>10, <2>1, <3>1, <3>8, <3>9
    <3>10. Clearing(w, r, u, n, b)
        BY <2>1, <3>a, <3>2, <3>4, ClearFound
    <3>11. stack'[t] = u
        BY <2>3, <3>5, <3>7, AloneFacts DEF TypedLocals
    <3>12. w \in Removing /\ Goto(t, w)
        BY <1>12, <2>3, <3>3
    <3>13. QED
        BY <1>11, <2>1, <3>10, <3>11, <3>12
  <2>4. CASE Nexts(s[k].dir, s[k].at) = {} /\ Goto(t, "rmSelf") /\ stack' = stack
    <3>1. \A c \in Children(s[k].dir) : n[c] = Absent
      <4>1. SUFFICES ASSUME NEW c \in Children(s[k].dir)
                     PROVE  n[c] = Absent
          OBVIOUS
      <4>2. CASE c > s[k].at
          BY <1>4, <1>10, <2>2, <2>4, <4>2, NextsEmpty
      <4>3. CASE c <= s[k].at
          BY <1>8, <2>1, <4>3 DEF Clearing
      <4>4. c \in Nat /\ s[k].at \in Nat
          BY <1>10, <2>2, PathNumbers DEF Children
      <4>5. QED
          BY <4>2, <4>3, <4>4
    <3>2. Clearing("rmSelf", r, s, n, b)
        BY <1>8, <2>1, <3>1, ClearDone
    <3>3. QED
        BY <1>7, <1>11, <1>12, <2>1, <2>4, <3>2
  <2>5. QED
      BY <1>15, <2>2, <2>3, <2>4 DEF RmNext, DeviceFails
<1>16. CASE RmDir(t)
  <2>1. pc[t] = "rmDir" /\ node' = n /\ b[p] = Dir /\ Clearing("rmDir", r, s, n, b) /\ k >= 1
        /\ s[k].at \in Path /\ RmEnter(t, s[k].at)
      BY <1>4, <1>7, <1>8, <1>9, <1>12, <1>16, AloneFacts, AtRest DEF RmDir, disk, Top
  <2>2. n[s[k].at] = Dir
      BY <1>8, <2>1 DEF Clearing
  <2>3. FindFirst(s[k].at) = "ok"
    <3>1. PICK d \in Path : d = s[k].at
        BY <2>1
    <3>2. n[d] = Dir /\ node' = n
        BY <2>1, <2>2, <3>1
    <3>3. QED
        BY <1>4, <3>1, <3>2, Codes, KindOf, NodeFacts
  <2>4. PICK u : u = Append(s, InDir(s[k].at, Cwd))
      OBVIOUS
  <2>5. /\ Len(u) = k + 1 /\ u[k + 1] = InDir(s[k].at, Cwd) /\ \A i \in 1 .. k : u[i] = s[i]
      BY <1>8, <2>1, <2>4, AppendEntry
  <2>6. u[k + 1].dir = s[k].at /\ u[k + 1].at = Cwd
      BY <2>1, <2>5, OneEntry
  <2>7. Clearing("rmNext", r, u, n, b)
      BY <1>3, <1>8, <1>10, <2>1, <2>5, <2>6, ClearEnter
  <2>8. stack'[t] = u /\ Goto(t, "rmNext")
      BY <1>7, <2>1, <2>3, <2>4, AloneFacts DEF RmEnter, TypedLocals
  <2>9. QED
      BY <1>11, <1>12, <2>1, <2>7, <2>8
<1>17. CASE RmFile(t)
  <2>1. pc[t] = "rmFile" /\ b[p] = Dir /\ Clearing("rmFile", r, s, n, b) /\ k >= 1
        /\ s[k].at \in Path /\ s[k].at = Top(t).at
      BY <1>7, <1>8, <1>9, <1>12, <1>17, AloneFacts, AtRest DEF RmFile, Top
  <2>2. PICK f \in Path : f = s[k].at
      BY <2>1
  <2>3. n[f].kind = "file"
      BY <1>8, <2>1, <2>2 DEF Clearing
  <2>4. handle[t] = NoHandle
      BY <2>1, AloneFacts, AtRest DEF Reading
  <2>5. DeleteFile(f) = "ok"
      BY <1>4, <2>3, <2>4, AloneFacts, Codes, KindOf
  <2>6. node' = [n EXCEPT ![f] = Absent] /\ Goto(t, "rmNext") /\ stack' = stack
      BY <1>4, <1>17, <2>1, <2>2, <2>5 DEF RmFile
  <2>7. PICK m : m = [n EXCEPT ![f] = Absent]
      OBVIOUS
  <2>8. Clearing("rmNext", r, s, m, b)
      BY <1>3, <1>8, <1>10, <2>1, <2>2, <2>7, ClearFile
  <2>9. QED
      BY <1>7, <1>11, <1>12, <2>1, <2>6, <2>7, <2>8
<1>18. CASE RmSelf(t)
  <2>1. pc[t] = "rmSelf" /\ b[p] = Dir /\ Clearing("rmSelf", r, s, n, b) /\ k >= 1
      BY <1>8, <1>9, <1>12, <1>18 DEF RmSelf
  <2>2. k \in 1 .. k /\ Top(t) = s[k]
      BY <1>7, <1>8, <2>1 DEF Top
  <2>3. PICK d \in Path : d = Top(t).dir /\ d = s[k].dir
      BY <1>10, <2>2
  <2>4. n[d] = Dir /\ \A c \in Children(d) : n[c] = Absent
      BY <1>8, <2>1, <2>2, <2>3 DEF Clearing
  <2>5. RemoveDirectory(d) = "ok"
      BY <1>4, <2>4, Codes, KindOf, EmptyIs, NodeFacts
  <2>6. PICK m : m = [n EXCEPT ![d] = Absent]
      OBVIOUS
  <2>7. m \in [Path -> Node] /\ WellFormed(m) /\ m[d] = Absent
      BY <1>4, <2>4, <2>6, SetNode, NodeFacts
  <2>8. PICK f \in Seq(Entries) : f = Rest(t)
      BY <1>7, <1>8, <2>1, AloneFacts, TopFacts
  <2>9. Len(f) = k - 1 /\ \A i \in 1 .. k - 1 : f[i] = s[i]
      BY <1>7, <1>8, <2>1, <2>8, AloneFacts, TopFacts
  <2>10. /\ node' = m /\ stack' = [stack EXCEPT ![t] = f]
         /\ f = <<>> => Return(t, "None")
         /\ f # <<>> => Goto(t, "rmNext")
      BY <1>4, <1>18, <2>3, <2>5, <2>6, <2>8 DEF RmSelf
  <2>11. CASE k = 1
    <3>1. f = <<>>
        BY <2>9, <2>11
    <3>2. pc'[t] = "idle" /\ ret'[t] = "None"
        BY <2>10, <3>1, AloneFacts, ReturnIs
    <3>3. d = p
        BY <1>3, <2>1, <2>3, <2>11 DEF Clearing
    <3>4. \A q \in Path : m[q] = b[q] \/ (q \in Under(p) /\ m[q] = Absent)
      <4>1. \A q \in Path : n[q] = b[q] \/ (q \in Under(p) /\ n[q] = Absent)
          BY <1>3, <2>1 DEF Clearing
      <4>2. \A q \in Path : q # p => m[q] = n[q]
          BY <2>6, <3>3
      <4>3. QED
          BY <2>7, <3>3, <4>1, <4>2, UnderFacts
    <3>5. m = [q \in Path |-> IF q \in Under(p) THEN Absent ELSE b[q]]
        BY <2>7, <3>3, <3>4, WithoutSubtree
    <3>6. PICK good \in BOOLEAN : good <=> TRUE
        OBVIOUS
    <3>7. /\ good <=> /\ r.path = Cwd \/ b[r.path].kind = "dir"
                      /\ r.flag \/ \A c \in Children(r.path) : b[c].kind = "absent"
          /\ m = IF good THEN [q \in Path |-> IF q \in Under(r.path) THEN Absent ELSE b[q]] ELSE b
        BY <1>3, <1>13, <2>1, <3>5, <3>6
    <3>8. \A err, bytes, names : (err = "None" <=> good) => Does(r, b, m, err, bytes, names)
        BY <1>3, <3>7, DoesRmdir
    <3>9. QED
        BY <1>2, <1>3, <2>10, <3>2, <3>6, <3>8 DEF Finishes
  <2>12. CASE k # 1
    <3>1. PICK l \in Nat : l = k - 1 /\ l >= 1 /\ k = l + 1
        BY <2>1, <2>12
    <3>2. f # <<>> /\ Len(f) = l /\ \A i \in 1 .. l : f[i] = s[i]
        BY <2>9, <3>1
    <3>a. /\ r.path \in Path /\ l \in Nat /\ l >= 1 /\ Len(s) = l + 1
          /\ \A i \in 1 .. l + 1 : s[i].dir \in Path /\ s[i].at \in Path \cup {Cwd}
          /\ Len(f) = l /\ \A i \in 1 .. l : f[i] = s[i]
        BY <1>3, <1>8, <1>10, <3>1, <3>2
    <3>b. m = [n EXCEPT ![s[l + 1].dir] = Absent]
        BY <2>3, <2>6, <3>1
    <3>3. Clearing("rmNext", r, f, m, b)
        BY <2>1, <3>a, <3>b, ClearUp
    <3>4. stack'[t] = f /\ Goto(t, "rmNext")
        BY <2>10, <3>2, AloneFacts DEF TypedLocals
    <3>5. QED
        BY <1>11, <1>12, <2>1, <2>10, <3>3, <3>4
  <2>13. QED
      BY <2>11, <2>12
<1>19. QED
    BY <1>6, <1>14, <1>15, <1>16, <1>17, <1>18

-----------------------------------------------------------------------------
(* AloneOK is inductive *)

LEMMA AloneStep ==
    ASSUME NEW t, Alone(t), Step(t), t \in alone, t \in alone'
    PROVE  GoesOn(t) \/ Finishes(t)
<1>1. arg[t].op \in {"read", "size", "list", "mkdirs", "remove", "write", "rmdir"}
    BY AloneFacts, RequestFacts
<1>2. QED
    BY <1>1, ReadAlone, SizeAlone, ListAlone, MkdirAlone, RemoveAlone, WriteAlone, RmPlainAlone, RmTreeAlone

\* At its first step a call has done nothing.
LEMMA EntryProgress ==
    ASSUME NEW r \in Requests, NEW b \in [Path -> Node], NEW s, s = <<>>
    PROVE  Progress(Entry(r), r, s, b, b, {})
<1>1. Len(s) = 0
    OBVIOUS
<1>2. \A i \in 1 .. 0 : FALSE
    OBVIOUS
<1>3. WithWay(r.path, 0, b) = b
    BY <1>2 DEF WithWay
<1>4. Making(r, s, b, b)
    BY <1>1, <1>3 DEF Making
<1>5. QED
    BY <1>4, EntryFacts DEF Progress, Untroubled, Reading, Removing, BeforeAll

LEMMA StepShrinks ==
    ASSUME NEW t, Step(t)
    PROVE  alone' \subseteq alone
<1>1. CASE ReadOpen(t) \/ ReadSize(t) \/ ReadFile(t) \/ WriteOpen(t) \/ WriteFile(t)
           \/ SizeOpen(t) \/ SizeGet(t) \/ Remove(t)
    BY <1>1 DEF ReadOpen, ReadSize, ReadFile, WriteOpen, WriteFile, SizeOpen, SizeGet, Remove, DeviceFails
<1>2. CASE ListFirst(t) \/ ListNext(t) \/ MkDir(t) \/ RmPlain(t) \/ RmFirst(t)
           \/ RmNext(t) \/ RmDir(t) \/ RmFile(t) \/ RmSelf(t)
    BY <1>2 DEF ListFirst, ListNext, MkDir, RmPlain, RmFirst, RmNext, RmDir, RmFile, RmSelf, DeviceFails
<1>3. QED
    BY <1>1, <1>2 DEF Step

LEMMA AloneHolds ==
    ASSUME FilesInd, AloneOK, NEW t \in alone, pc[t] # "idle"
    PROVE  Alone(t)
BY DEF AloneOK, Alone

LEMMA AloneAfterBegin ==
    ASSUME FilesInd, NEW t \in Thread, NEW r \in Requests, Begin(t, r)
    PROVE  AloneOK'
<1>1. LocalsOK /\ DiskOK /\ TypedLocals
    BY DEF FilesInd, LocalsOK, TypedLocals
<1>2. CASE Running # {}
    BY <1>2 DEF Begin, AloneOK
<1>3. CASE Running = {}
  <2>1. alone' = {t} /\ before' = node /\ node' = node /\ stack' = stack
      BY <1>3 DEF Begin, disk
  <2>2. pc'[t] = Entry(r) /\ arg'[t] = r /\ entries'[t] = {}
      BY <1>1 DEF Begin, TypedLocals
  <2>3. \A u \in Thread : u # t => pc'[u] = "idle"
      BY <1>1, <1>3 DEF Begin, TypedLocals, Running
  <2>4. pc'[t] # "idle"
      BY <2>2, EntryFacts
  <2>5. Running' = {t}
      BY <2>3, <2>4 DEF Running
  <2>6. pc[t] = "idle"
      BY DEF Begin
  <2>7. PICK s : s = stack[t]
      OBVIOUS
  <2>8. s = <<>>
      BY <1>1, <2>6, <2>7 DEF LocalsOK, ThreadOK, Removing
  <2>9. PICK b \in [Path -> Node] : b = node /\ WellFormed(b)
      BY <1>1 DEF DiskOK
  <2>10. Progress(Entry(r), r, s, b, b, {})
      BY <2>8, EntryProgress
  <2>11. Progress(pc'[t], arg'[t], stack'[t], node', before', entries'[t])
      BY <2>1, <2>2, <2>7, <2>9, <2>10
  <2>12. before' \in [Path -> Node] /\ WellFormed(before')
      BY <2>1, <2>9
  <2>13. QED
      BY <2>1, <2>5, <2>11, <2>12 DEF AloneOK
<1>4. QED
    BY <1>2, <1>3

LEMMA AloneAfterStep ==
    ASSUME FilesInd, AloneOK, NEW t \in Thread, Step(t)
    PROVE  AloneOK'
<1>1. LocalsOK
    BY DEF FilesInd
<1>2. pc[t] # "idle" /\ \A u \in Thread : u # t => pc'[u] = pc[u]
    BY <1>1, StepMoves
<1>3. alone' \subseteq alone /\ alone \subseteq Thread
    BY StepShrinks DEF AloneOK
<1>4. ASSUME NEW u \in alone', pc'[u] # "idle"
      PROVE  /\ Running' = {u}
             /\ before' \in [Path -> Node] /\ WellFormed(before')
             /\ Progress(pc'[u], arg'[u], stack'[u], node', before', entries'[u])
  <2>1. u \in Thread /\ u \in alone
      BY <1>3
  <2>2. u = t
    <3>1. SUFFICES ASSUME u # t
                   PROVE  FALSE
        OBVIOUS
    <3>2. pc[u] # "idle"
        BY <1>2, <1>4, <2>1, <3>1
    <3>3. Running = {u}
        BY <2>1, <3>2 DEF AloneOK
    <3>4. QED
        BY <1>2, <3>1, <3>3 DEF Running
  <2>3. Alone(t)
      BY <1>2, <2>1, <2>2, AloneHolds
  <2>4. GoesOn(t)
      BY <1>4, <2>1, <2>2, <2>3, AloneStep DEF Finishes
  <2>5. Running' = {t}
    <3>1. \A v \in Thread : v # t => pc'[v] = "idle"
        BY <1>2, <2>3 DEF Alone, Running
    <3>2. QED
        BY <1>4, <2>2, <3>1 DEF Running
  <2>6. before' = before /\ before \in [Path -> Node] /\ WellFormed(before)
      BY <2>3, <2>4 DEF GoesOn, Alone
  <2>7. Progress(pc'[t], arg'[t], stack'[t], node', before', entries'[t])
      BY <2>4, <2>6 DEF GoesOn
  <2>8. QED
      BY <2>2, <2>5, <2>6, <2>7
<1>5. QED
    BY <1>3, <1>4 DEF AloneOK

LEMMA AloneUntouched ==
    ASSUME AloneOK, UNCHANGED <<node, stack, entries, pc, arg, history>>
    PROVE  AloneOK'
<1>1. alone' = alone /\ before' = before /\ Running' = Running
    BY DEF history, Running
<1>2. QED
    BY <1>1 DEF AloneOK

LEMMA AloneNext ==
    ASSUME FilesInd, AloneOK, Next
    PROVE  AloneOK'
<1>1. ASSUME NEW t \in Client, NEW r \in Requests, Call(t, r)
      PROVE  AloneOK'
    BY <1>1, AloneAfterBegin DEF Call, Thread
<1>2. ASSUME NEW t \in Client, NEW r \in AsyncRequests, AsyncCall(t, r)
      PROVE  AloneOK'
    BY <1>2, AloneUntouched DEF AsyncCall, disk, locals
<1>3. ASSUME NEW e \in BOOLEAN, SetExecutor(e)
      PROVE  AloneOK'
    BY <1>3, AloneUntouched DEF SetExecutor, disk, locals
<1>4. ASSUME NEW j \in jobs, TakeJob(j)
      PROVE  AloneOK'
  <2>1. j.request \in Requests
      BY DEF FilesInd, CallsOK, Jobs, AsyncRequests
  <2>2. Begin(Worker, j.request) /\ Worker \in Thread
      BY <1>4 DEF TakeJob, Thread
  <2>3. QED
      BY <2>1, <2>2, AloneAfterBegin
<1>5. CASE RunCallback
    BY <1>5, AloneUntouched DEF RunCallback, disk, locals
<1>6. ASSUME NEW t \in Thread, Step(t)
      PROVE  AloneOK'
    BY <1>6, AloneAfterStep
<1>7. QED
    BY <1>1, <1>2, <1>3, <1>4, <1>5, <1>6 DEF Next

LEMMA AloneKeep == FilesInd /\ AloneOK /\ [Next]_vars => AloneOK'
<1> SUFFICES ASSUME FilesInd, AloneOK, [Next]_vars
             PROVE  AloneOK'
    OBVIOUS
<1>1. CASE UNCHANGED vars
    BY <1>1, AloneUntouched DEF vars, disk, locals
<1>2. QED
    BY <1>1, AloneNext

LEMMA AloneHold == AllSpec => []AloneOK
<1>1. AllInit => AloneOK
    BY DEF AllInit, Init, AloneOK
<1>2. QED
    BY <1>1, AloneKeep, FilesKeep, FilesHold, PTL DEF AllSpec

\* A call that neither another call nor the device disturbs does what its
\* reference definition does in one step, for every tree, of any depth: it
\* succeeds exactly when it can, and an error has changed nothing.
THEOREM AloneDoes == AllSpec => AloneDoesAll
<1> DEFINE Good == \A t \in alone : Returns(t) /\ t \in alone' =>
                      Does(arg[t], before, node', ret'[t], got'[t], entries'[t])
<1>1. FilesInd /\ AloneOK /\ [Next]_vars => [Good]_vars
  <2> SUFFICES ASSUME FilesInd, AloneOK, Next
               PROVE  Good
      OBVIOUS
  <2>1. ASSUME NEW t \in alone, Returns(t), t \in alone'
        PROVE  Does(arg[t], before, node', ret'[t], got'[t], entries'[t])
    <3>1. t \in Thread /\ pc[t] # "idle" /\ pc'[t] = "idle"
        BY <2>1 DEF AloneOK, Returns
    <3>2. Step(t)
        BY <2>1, <3>1, WhoReturns
    <3>3. Alone(t)
        BY <3>1, AloneHolds
    <3>4. Finishes(t)
        BY <2>1, <3>1, <3>2, <3>3, AloneStep DEF GoesOn
    <3>5. QED
        BY <3>4 DEF Finishes
  <2>2. QED
      BY <2>1
<1> HIDE DEF Good
<1>2. FilesInd /\ AloneOK /\ [AllNext]_AllVars => [Good]_vars
    BY <1>1, FilesKeep
<1>3. AllSpec => [][Good]_vars
    BY <1>2, FilesHold, AloneHold, PTL DEF AllSpec
<1>4. QED
    BY <1>3 DEF AloneDoesAll, Good

-----------------------------------------------------------------------------
(* Texts, and induction over them *)

\* A set with 0 and every successor has all numbers.
LEMMA NatSetInduction ==
    ASSUME NEW T, 0 \in T, \A m \in Nat : m \in T => m + 1 \in T
    PROVE  Nat \subseteq T
<1> DEFINE U == {m \in Nat : m \notin T}
<1>1. SUFFICES ASSUME U # {}
               PROVE  FALSE
    OBVIOUS
<1>2. U \in SUBSET Nat
    OBVIOUS
<1>3. PICK x \in U : \A y \in U : x <= y
  <2> HIDE DEF U
  <2> QED
      BY <1>1, <1>2, LeastNumber
<1>4. x \in Nat /\ x # 0 /\ x \notin T
    OBVIOUS
<1>5. x - 1 \in Nat /\ ~ (x <= x - 1) /\ (x - 1) + 1 = x
    BY <1>4
<1>6. x - 1 \in T
    BY <1>3, <1>5
<1>7. QED
    BY <1>4, <1>5, <1>6

\* What holds of the empty text, and of a longer one if of a shorter, holds of all.
LEMMA TextInduction ==
    ASSUME NEW T, <<>> \in T,
           \A p \in Seq(Char) : \A c \in Char : p \in T => Append(p, c) \in T
    PROVE  \A p \in Seq(Char) : p \in T
<1> DEFINE S == {n \in Nat : \A p \in Seq(Char) : Len(p) = n => p \in T}
<1>1. 0 \in S
  <2>1. \A p \in Seq(Char) : Len(p) = 0 => p = <<>>
      OBVIOUS
  <2>2. QED
      BY <2>1
<1>2. ASSUME NEW n \in Nat, n \in S
      PROVE  n + 1 \in S
  <2>1. SUFFICES ASSUME NEW p \in Seq(Char), Len(p) = n + 1
                 PROVE  p \in T
      OBVIOUS
  <2>2. PICK q : q = SubSeq(p, 1, n)
      OBVIOUS
  <2>3. q \in Seq(Char) /\ Len(q) = n /\ p[n + 1] \in Char
      BY <2>1, <2>2
  <2>4. p = Append(q, p[n + 1])
      BY <2>1, <2>2
  <2>5. q \in T
      BY <1>2, <2>3
  <2>6. QED
      BY <2>3, <2>4, <2>5
<1> HIDE DEF S
<1>3. Nat \subseteq S
    BY <1>1, <1>2, NatSetInduction
<1>4. QED
    BY <1>3 DEF S

\* What a text and one more character have in common.
LEMMA OneMore ==
    ASSUME NEW p \in Seq(Char), NEW c \in Char
    PROVE  /\ Append(p, c) \in Seq(Char) /\ Len(Append(p, c)) = Len(p) + 1
           /\ \A k \in 1 .. Len(p) : Append(p, c)[k] = p[k]
           /\ Append(p, c)[Len(p) + 1] = c /\ Append(p, c) # <<>>
    BY AppendProperties

LEMMA JoinAppend ==
    ASSUME NEW x \in Seq(Char), NEW z \in Seq(Char), NEW c \in Char
    PROVE  x \o Append(z, c) = Append(x \o z, c)
<1>1. Append(z, c) = z \o <<c>> /\ Append(x \o z, c) = (x \o z) \o <<c>>
    BY AppendIsConcat
<1>2. QED
    BY <1>1, ConcatAssociative

LEMMA CharFacts == Separator \subseteq Char /\ "\\" \in Separator /\ "/" \in Separator
    BY DEF Char, Separator

-----------------------------------------------------------------------------
(* Collapsed *)

LEMMA AddedType ==
    ASSUME NEW out \in Seq(Char), NEW c \in Char
    PROVE  Added(out, c) \in Seq(Char)
    BY CharFacts, OneMore DEF Added

\* out[k] is what is left of the first k characters.
Steps(out, p, n) == out[0] = <<>> /\ \A k \in 1 .. n : out[k] = Added(out[k - 1], p[k])
CollapsedBy(out, p, n) == out \in [0 .. n -> Seq(Char)] /\ Steps(out, p, n)
SameUpTo(p, q, n) == \A k \in 1 .. n : p[k] = q[k]

\* Such a function exists,
LEMMA CollapsedByExists ==
    ASSUME NEW p \in Seq(Char)
    PROVE  \E out : CollapsedBy(out, p, Len(p))
<1> DEFINE T == {m \in Nat : m <= Len(p) => \E out : CollapsedBy(out, p, m)}
<1>1. 0 \in T
  <2>1. PICK e : e = <<>>
      OBVIOUS
  <2>2. PICK out : out = [k \in 0 .. 0 |-> e]
      OBVIOUS
  <2>3. e \in Seq(Char) /\ out \in [0 .. 0 -> {e}]
      BY <2>1, <2>2
  <2>4. CollapsedBy(out, p, 0)
      BY <2>1, <2>2, <2>3 DEF CollapsedBy, Steps
  <2>5. QED
      BY <2>4
<1>2. ASSUME NEW m \in Nat, m \in T
      PROVE  m + 1 \in T
  <2>1. SUFFICES ASSUME m + 1 <= Len(p)
                 PROVE  \E out : CollapsedBy(out, p, m + 1)
      OBVIOUS
  <2>2. PICK f : CollapsedBy(f, p, m)
      BY <1>2, <2>1
  <2>3. f \in [0 .. m -> Seq(Char)] /\ f[0] = <<>> /\ \A k \in 1 .. m : f[k] = Added(f[k - 1], p[k])
      BY <2>2 DEF CollapsedBy, Steps
  <2>4. p[m + 1] \in Char /\ f[m] \in Seq(Char)
      BY <2>1, <2>3
  <2>5. PICK d \in Seq(Char) : d = Added(f[m], p[m + 1])
      BY <2>4, AddedType
  <2>6. PICK h : h = [k \in 0 .. m + 1 |-> IF k = m + 1 THEN d ELSE f[k]]
      OBVIOUS
  <2>7. h \in [0 .. m + 1 -> Seq(Char)] /\ h[m + 1] = d /\ \A k \in 0 .. m : h[k] = f[k]
      BY <2>3, <2>6
  <2>8. ASSUME NEW k \in 1 .. m + 1
        PROVE  h[k] = Added(h[k - 1], p[k])
    <3>1. k - 1 \in 0 .. m /\ h[k - 1] = f[k - 1]
        BY <2>7
    <3>2. CASE k = m + 1
        BY <2>5, <2>7, <3>1, <3>2
    <3>3. CASE k \in 1 .. m
        BY <2>3, <2>7, <3>1, <3>3
    <3>4. QED
        BY <3>2, <3>3
  <2>9. h[0] = <<>>
      BY <2>3, <2>7
  <2>10. CollapsedBy(h, p, m + 1)
      BY <2>7, <2>8, <2>9 DEF CollapsedBy, Steps
  <2>11. QED
      BY <2>10
<1> HIDE DEF T
<1>3. Len(p) \in T
    BY <1>1, <1>2, NatSetInduction
<1>4. QED
    BY <1>3 DEF T

\* and there is no other.
LEMMA CollapsedByOne ==
    ASSUME NEW n \in Nat, NEW p, NEW q, NEW f, NEW g,
           SameUpTo(p, q, n), Steps(f, p, n), Steps(g, q, n)
    PROVE  \A k \in 0 .. n : f[k] = g[k]
<1> DEFINE T == {k \in Nat : k <= n => f[k] = g[k]}
<1>1. 0 \in T
    BY DEF Steps
<1>2. ASSUME NEW k \in Nat, k \in T
      PROVE  k + 1 \in T
  <2>1. SUFFICES ASSUME k + 1 <= n
                 PROVE  f[k + 1] = g[k + 1]
      OBVIOUS
  <2>2. f[k] = g[k] /\ k + 1 \in 1 .. n /\ (k + 1) - 1 = k
      BY <1>2, <2>1
  <2>3. p[k + 1] = q[k + 1]
      BY <2>2 DEF SameUpTo
  <2>4. QED
      BY <2>2, <2>3 DEF Steps
<1> HIDE DEF T
<1>3. Nat \subseteq T
    BY <1>1, <1>2, NatSetInduction
<1>4. QED
    BY <1>3 DEF T

\* Collapsed satisfies its recursive definition.
LEMMA CollapsedIs ==
    ASSUME NEW p \in Seq(Char)
    PROVE  \E out : CollapsedBy(out, p, Len(p)) /\ Collapsed(p) = out[Len(p)]
<1>1. PICK n \in Nat : n = Len(p)
    OBVIOUS
<1>2. PICK h : CollapsedBy(h, p, n)
    BY <1>1, CollapsedByExists
<1>3. h \in [0 .. n -> Seq(Char)] /\ h[0] = <<>> /\ \A k \in 1 .. n : h[k] = Added(h[k - 1], p[k])
    BY <1>2 DEF CollapsedBy, Steps
<1> DEFINE Rec(f) == f = [k \in 0 .. Len(p) |-> IF k = 0 THEN <<>> ELSE Added(f[k - 1], p[k])]
           g == CHOOSE f : Rec(f)
<1>4. Collapsed(p) = g[Len(p)]
    BY DEF Collapsed
<1>5. Rec(h)
  <2>1. h = [k \in 0 .. n |-> h[k]]
      BY <1>3
  <2>2. \A k \in 0 .. n : h[k] = IF k = 0 THEN <<>> ELSE Added(h[k - 1], p[k])
    <3>1. \A k \in 0 .. n : k = 0 \/ (k \in 1 .. n /\ k # 0)
        OBVIOUS
    <3>2. QED
        BY <1>3, <3>1
  <2>3. h = [k \in 0 .. n |-> IF k = 0 THEN <<>> ELSE Added(h[k - 1], p[k])]
      BY <2>1, <2>2
  <2>4. QED
      BY <1>1, <2>3
<1> HIDE DEF Rec
<1>6. Rec(g)
    BY <1>5
<1> HIDE DEF g
<1>7. g[0] = <<>> /\ \A k \in 1 .. n : g[k] = Added(g[k - 1], p[k])
  <2>1. g = [k \in 0 .. n |-> IF k = 0 THEN <<>> ELSE Added(g[k - 1], p[k])]
      BY <1>1, <1>6 DEF Rec
  <2>2. 0 \in 0 .. n /\ \A k \in 1 .. n : k \in 0 .. n /\ k # 0
      OBVIOUS
  <2>3. QED
      BY <2>1, <2>2
<1>8. n \in Nat /\ Steps(g, p, n) /\ Steps(h, p, n) /\ SameUpTo(p, p, n)
    BY <1>3, <1>7 DEF Steps, SameUpTo
<1>9. \A k \in 0 .. n : g[k] = h[k]
    BY ONLY <1>8, CollapsedByOne
<1>10. g[n] = h[n]
    BY <1>9
<1>11. QED
    BY <1>1, <1>2, <1>4, <1>10

LEMMA CollapsedType ==
    ASSUME NEW p \in Seq(Char)
    PROVE  Collapsed(p) \in Seq(Char)
<1>1. PICK n \in Nat : n = Len(p) /\ n \in 0 .. n
    OBVIOUS
<1>2. QED
    BY <1>1, CollapsedIs DEF CollapsedBy

LEMMA CollapsedEmpty == Collapsed(<<>>) = <<>>
<1>1. PICK p \in Seq(Char) : p = <<>> /\ Len(p) = 0
    <2>1. PICK e : e = <<>>
        OBVIOUS
    <2>2. e \in Seq(Char) /\ Len(e) = 0
        BY <2>1
    <2>3. QED
        BY <2>1, <2>2
<1>2. QED
    BY <1>1, CollapsedIs DEF CollapsedBy, Steps

LEMMA CollapsedAppend ==
    ASSUME NEW p \in Seq(Char), NEW c \in Char
    PROVE  Collapsed(Append(p, c)) = Added(Collapsed(p), c)
<1>1. PICK n \in Nat : n = Len(p)
    OBVIOUS
<1>2. PICK q : q = Append(p, c)
    OBVIOUS
<1>3. q \in Seq(Char) /\ Len(q) = n + 1 /\ q[n + 1] = c /\ \A k \in 1 .. n : q[k] = p[k]
    BY <1>1, <1>2, OneMore
<1>4. PICK f : Steps(f, p, n) /\ Collapsed(p) = f[n]
    BY <1>1, CollapsedIs DEF CollapsedBy
<1>5. PICK g : Steps(g, q, n + 1) /\ Collapsed(q) = g[n + 1]
    BY <1>3, CollapsedIs DEF CollapsedBy
<1>6. Steps(g, q, n) /\ SameUpTo(p, q, n)
  <2>1. \A k \in 1 .. n : k \in 1 .. n + 1
      OBVIOUS
  <2>2. QED
      BY <1>3, <1>5, <2>1 DEF Steps, SameUpTo
<1>7. n \in Nat /\ Steps(f, p, n) /\ Steps(g, q, n) /\ SameUpTo(p, q, n)
    BY <1>4, <1>6
<1>8. \A k \in 0 .. n : f[k] = g[k]
    BY ONLY <1>7, CollapsedByOne
<1>9. f[n] = g[n] /\ n + 1 \in 1 .. n + 1 /\ (n + 1) - 1 = n
    BY <1>8
<1>10. g[n + 1] = Added(g[n], c)
    BY <1>3, <1>5, <1>9 DEF Steps
<1>11. QED
    BY <1>2, <1>4, <1>5, <1>9, <1>10

\* A text that ends with a separator, of either kind or of the kind that is kept.
Ends(p) == p # <<>> /\ p[Len(p)] \in Separator
Slashed(p) == p # <<>> /\ p[Len(p)] = "\\"

LEMMA AddedIs ==
    ASSUME NEW out, NEW c
    PROVE  /\ c \notin Separator => Added(out, c) = Append(out, c)
           /\ c \in Separator /\ Slashed(out) => Added(out, c) = out
           /\ c \in Separator /\ ~ Slashed(out) => Added(out, c) = Append(out, "\\")
    BY DEF Added, Slashed

LEMMA AddedEnds ==
    ASSUME NEW out \in Seq(Char), NEW c \in Char
    PROVE  /\ Slashed(Added(out, c)) <=> c \in Separator
           /\ Added(out, c) # <<>> /\ Len(out) <= Len(Added(out, c)) /\ Len(Added(out, c)) <= Len(out) + 1
           /\ \A k \in 1 .. Len(out) : Added(out, c)[k] = out[k]
<1>1. PICK n \in Nat : n = Len(out)
    OBVIOUS
<1>2. CASE c \notin Separator
  <2>1. c # "\\"
      BY <1>2, CharFacts
  <2>2. Len(Append(out, c)) = n + 1 /\ Append(out, c)[n + 1] = c /\ Append(out, c) # <<>>
        /\ \A k \in 1 .. n : Append(out, c)[k] = out[k]
      BY <1>1, OneMore
  <2>3. QED
      BY <1>1, <1>2, <2>1, <2>2, AddedIs DEF Slashed
<1>3. CASE c \in Separator /\ Slashed(out)
    BY <1>1, <1>3, AddedIs DEF Slashed
<1>4. CASE c \in Separator /\ ~ Slashed(out)
  <2>1. PICK d \in Char : d = "\\"
      BY CharFacts
  <2>2. Len(Append(out, d)) = n + 1 /\ Append(out, d)[n + 1] = d /\ Append(out, d) # <<>>
        /\ \A k \in 1 .. n : Append(out, d)[k] = out[k]
      BY <1>1, OneMore
  <2>3. QED
      BY <1>1, <1>4, <2>1, <2>2, AddedIs DEF Slashed
<1>5. QED
    BY <1>2, <1>3, <1>4

LEMMA LastOne ==
    ASSUME NEW p \in Seq(Char), p # <<>>
    PROVE  \E q \in Seq(Char), c \in Char :
               p = Append(q, c) /\ Len(p) = Len(q) + 1 /\ p[Len(p)] = c
<1>1. PICK q \in Seq(Char), c \in Char : p = Append(q, c)
    BY SequenceEmptyOrAppend
<1>2. QED
    BY <1>1, OneMore

\* What a text ends with, and whether there is one at all, stays.
LEMMA CollapsedEnds ==
    ASSUME NEW p \in Seq(Char)
    PROVE  /\ Slashed(Collapsed(p)) <=> Ends(p)
           /\ Collapsed(p) = <<>> <=> p = <<>>
<1>1. CASE p = <<>>
    BY <1>1, CollapsedEmpty DEF Slashed, Ends
<1>2. CASE p # <<>>
  <2>1. PICK q \in Seq(Char), c \in Char : p = Append(q, c) /\ p[Len(p)] = c
      BY <1>2, LastOne
  <2>2. Collapsed(p) = Added(Collapsed(q), c) /\ Collapsed(q) \in Seq(Char)
      BY <2>1, CollapsedAppend, CollapsedType
  <2>3. QED
      BY <1>2, <2>1, <2>2, AddedEnds DEF Ends
<1>3. QED
    BY <1>1, <1>2

LEMMA CollapsedShort ==
    ASSUME NEW p \in Seq(Char)
    PROVE  Len(Collapsed(p)) <= Len(p)
<1> DEFINE T == {q \in Seq(Char) : Len(Collapsed(q)) <= Len(q)}
<1>1. <<>> \in T
  <2>1. PICK e : e = <<>>
      OBVIOUS
  <2>2. e \in Seq(Char) /\ Len(e) = 0 /\ Collapsed(e) = e
      BY <2>1, CollapsedEmpty
  <2>3. QED
      BY <2>1, <2>2
<1>2. ASSUME NEW q \in Seq(Char), NEW c \in Char, q \in T
      PROVE  Append(q, c) \in T
  <2>1. Collapsed(Append(q, c)) = Added(Collapsed(q), c) /\ Collapsed(q) \in Seq(Char)
      BY CollapsedAppend, CollapsedType
  <2>2. Len(Added(Collapsed(q), c)) <= Len(Collapsed(q)) + 1 /\ Added(Collapsed(q), c) \in Seq(Char)
      BY <2>1, AddedEnds, AddedType
  <2>3. Append(q, c) \in Seq(Char) /\ Len(Append(q, c)) = Len(q) + 1
      BY OneMore
  <2>4. Len(Collapsed(q)) \in Nat /\ Len(q) \in Nat /\ Len(Added(Collapsed(q), c)) \in Nat
      BY <2>1, <2>2
  <2>5. QED
      BY <1>2, <2>1, <2>2, <2>3, <2>4
<1> HIDE DEF T
<1>3. p \in T
    BY <1>1, <1>2, TextInduction
<1>4. QED
    BY <1>3 DEF T

\* Of a text only what it collapses to matters for what comes after it,
LEMMA SameFront ==
    ASSUME NEW x \in Seq(Char), NEW y \in Seq(Char), Collapsed(x) = Collapsed(y), NEW z \in Seq(Char)
    PROVE  Collapsed(x \o z) = Collapsed(y \o z)
<1> DEFINE T == {q \in Seq(Char) : Collapsed(x \o q) = Collapsed(y \o q)}
<1>1. <<>> \in T
  <2>1. PICK e \in Seq(Char) : e = <<>>
    <3>1. PICK e : e = <<>>
        OBVIOUS
    <3>2. e \in Seq(Char)
        BY <3>1
    <3>3. QED
        BY <3>1, <3>2
  <2>2. x \o e = x /\ y \o e = y
      BY <2>1, ConcatEmptySeq
  <2>3. QED
      BY <2>1, <2>2
<1>2. ASSUME NEW q \in Seq(Char), NEW c \in Char, q \in T
      PROVE  Append(q, c) \in T
  <2>1. x \o Append(q, c) = Append(x \o q, c) /\ y \o Append(q, c) = Append(y \o q, c)
      BY JoinAppend
  <2>2. x \o q \in Seq(Char) /\ y \o q \in Seq(Char) /\ Append(q, c) \in Seq(Char)
      BY OneMore
  <2>3. QED
      BY <1>2, <2>1, <2>2, CollapsedAppend
<1> HIDE DEF T
<1>3. z \in T
    BY <1>1, <1>2, TextInduction
<1>4. QED
    BY <1>3 DEF T

\* and for what comes before it.
LEMMA SameBack ==
    ASSUME NEW x \in Seq(Char), NEW y \in Seq(Char)
    PROVE  Collapsed(x \o Collapsed(y)) = Collapsed(x \o y)
<1> DEFINE T == {q \in Seq(Char) : Collapsed(x \o Collapsed(q)) = Collapsed(x \o q)}
<1>1. <<>> \in T
  <2>1. PICK e : e = <<>>
      OBVIOUS
  <2>2. e \in Seq(Char) /\ Collapsed(e) = e
      BY <2>1, CollapsedEmpty
  <2>3. QED
      BY <2>1, <2>2
<1>2. ASSUME NEW q \in Seq(Char), NEW c \in Char, q \in T
      PROVE  Append(q, c) \in T
  <2>1. PICK s \in Seq(Char) : s = Collapsed(q)
      BY CollapsedType
  <2>2. Collapsed(x \o s) = Collapsed(x \o q)
      BY <1>2, <2>1
  <2>3. Append(q, c) \in Seq(Char) /\ Collapsed(Append(q, c)) = Added(s, c)
      BY <2>1, OneMore, CollapsedAppend
  <2>4. x \o q \in Seq(Char) /\ x \o s \in Seq(Char)
      OBVIOUS
  <2>5. Collapsed(x \o Append(q, c)) = Added(Collapsed(x \o s), c)
    <3>1. x \o Append(q, c) = Append(x \o q, c)
        BY JoinAppend
    <3>2. PICK w \in Seq(Char) : w = x \o q
        BY <2>4
    <3>3. Collapsed(Append(w, c)) = Added(Collapsed(w), c)
        BY CollapsedAppend
    <3>4. QED
        BY ONLY <2>2, <3>1, <3>2, <3>3
  <2>6. Collapsed(x \o s) \in Seq(Char)
      BY <2>4, CollapsedType
  <2>7. Collapsed(x \o Added(s, c)) = Added(Collapsed(x \o s), c)
    <3>1. CASE c \notin Separator
      <4>1. Added(s, c) = Append(s, c)
          BY <3>1, AddedIs
      <4>2. Collapsed(x \o Append(s, c)) = Added(Collapsed(x \o s), c)
        <5>1. x \o Append(s, c) = Append(x \o s, c)
            BY JoinAppend
        <5>2. PICK w \in Seq(Char) : w = x \o s
            BY <2>4
        <5>3. Collapsed(Append(w, c)) = Added(Collapsed(w), c)
            BY CollapsedAppend
        <5>4. QED
            BY ONLY <5>1, <5>2, <5>3
      <4>3. QED
          BY <4>1, <4>2
    <3>2. CASE c \in Separator /\ Slashed(s)
      <4>1. Added(s, c) = s
          BY <3>2, AddedIs
      <4>2. Ends(x \o s)
        <5>1. PICK m \in Nat : m = Len(x)
            OBVIOUS
        <5>2. PICK n \in Nat : n = Len(s) /\ n # 0
            BY <3>2 DEF Slashed
        <5>3. Len(x \o s) = m + n /\ (x \o s)[m + n] = s[n] /\ x \o s # <<>>
            BY <5>1, <5>2
        <5>4. QED
            BY <3>2, <5>2, <5>3, CharFacts DEF Ends, Slashed
      <4>3. Slashed(Collapsed(x \o s))
          BY <2>4, <4>2, CollapsedEnds
      <4>4. QED
          BY <3>2, <4>1, <4>3, AddedIs
    <3>3. CASE c \in Separator /\ ~ Slashed(s)
      <4>1. PICK d \in Char : d = "\\" /\ d \in Separator
          BY CharFacts
      <4>2. Added(s, c) = Append(s, d)
          BY <3>3, <4>1, AddedIs
      <4>3. Collapsed(x \o Append(s, d)) = Added(Collapsed(x \o s), d)
          BY <2>4, <4>1, JoinAppend, CollapsedAppend
      <4>4. Added(Collapsed(x \o s), d) = Added(Collapsed(x \o s), c)
          BY <3>3, <4>1 DEF Added
      <4>5. QED
          BY <4>2, <4>3, <4>4
    <3>4. QED
        BY <3>1, <3>2, <3>3
  <2>8. QED
      BY <2>3, <2>5, <2>7
<1> HIDE DEF T
<1>3. y \in T
    BY <1>1, <1>2, TextInduction
<1>4. QED
    BY <1>3 DEF T

LEMMA CollapsedTwice ==
    ASSUME NEW p \in Seq(Char)
    PROVE  Collapsed(Collapsed(p)) = Collapsed(p)
<1>1. PICK e : e = <<>>
    OBVIOUS
<1>2. e \in Seq(Char) /\ Collapsed(p) \in Seq(Char)
    BY <1>1, CollapsedType
<1>3. e \o p = p /\ e \o Collapsed(p) = Collapsed(p)
    BY <1>1, <1>2, ConcatEmptySeq
<1>4. QED
    BY <1>2, <1>3, SameBack

\* What a text collapses to is not changed by what comes after.
LEMMA CollapsedFront ==
    ASSUME NEW x \in Seq(Char), NEW z \in Seq(Char)
    PROVE  /\ Len(Collapsed(x)) <= Len(Collapsed(x \o z))
           /\ \A k \in 1 .. Len(Collapsed(x)) : Collapsed(x \o z)[k] = Collapsed(x)[k]
<1>0. PICK s \in Seq(Char) : s = Collapsed(x)
    BY CollapsedType
<1> DEFINE Holds(t) == Len(s) <= Len(t) /\ \A k \in 1 .. Len(s) : t[k] = s[k]
           T == {q \in Seq(Char) : Holds(Collapsed(x \o q))}
<1>1. <<>> \in T
  <2>1. PICK e : e = <<>>
      OBVIOUS
  <2>2. e \in Seq(Char) /\ x \o e = x
      BY <2>1, ConcatEmptySeq
  <2>3. Holds(Collapsed(x \o e))
      BY <1>0, <2>2
  <2>4. QED
      BY <2>1, <2>2, <2>3
<1>2. ASSUME NEW q \in Seq(Char), NEW c \in Char, q \in T
      PROVE  Append(q, c) \in T
  <2>0. x \o q \in Seq(Char)
      OBVIOUS
  <2>1. PICK t \in Seq(Char) : t = Collapsed(x \o q)
      BY <2>0, CollapsedType
  <2>2. Holds(t)
      BY <1>2, <2>1
  <2>3. Collapsed(x \o Append(q, c)) = Added(t, c) /\ Append(q, c) \in Seq(Char)
    <3>1. x \o Append(q, c) = Append(x \o q, c) /\ Append(q, c) \in Seq(Char)
        BY JoinAppend, OneMore
    <3>2. Collapsed(Append(x \o q, c)) = Added(Collapsed(x \o q), c)
        BY <2>0, CollapsedAppend
    <3>3. QED
        BY <2>1, <3>1, <3>2
  <2>4. PICK u \in Seq(Char) : u = Added(t, c)
      BY AddedType
  <2>5. Len(t) <= Len(u) /\ \A k \in 1 .. Len(t) : u[k] = t[k]
      BY <2>4, AddedEnds
  <2>6. Holds(u)
    <3>1. PICK l \in Nat : l = Len(s)
        OBVIOUS
    <3>2. PICK m \in Nat : m = Len(t)
        OBVIOUS
    <3>3. l <= m /\ (\A k \in 1 .. l : t[k] = s[k]) /\ m <= Len(u) /\ \A k \in 1 .. m : u[k] = t[k]
        BY <2>2, <2>5, <3>1, <3>2
    <3>4. \A k \in 1 .. l : k \in 1 .. m
        BY <3>3
    <3>5. \A k \in 1 .. l : u[k] = s[k]
        BY <3>3, <3>4
    <3>6. l <= Len(u) /\ Len(u) \in Nat
        BY <3>3
    <3>7. QED
        BY <3>1, <3>5, <3>6
  <2>7. QED
      BY <2>3, <2>4, <2>6
<1> HIDE DEF T
<1>3. z \in T
    BY <1>1, <1>2, TextInduction
<1>4. QED
    BY <1>0, <1>3 DEF T

\* What is left has one kind of separator, and never two in a row.
LEMMA CollapsedSingle ==
    ASSUME NEW p \in Seq(Char)
    PROVE  \A k \in 1 .. Len(Collapsed(p)) :
               /\ Collapsed(p)[k] \in Separator => Collapsed(p)[k] = "\\"
               /\ k > 1 /\ Collapsed(p)[k] \in Separator => Collapsed(p)[k - 1] \notin Separator
<1> DEFINE Holds(t) == \A k \in 1 .. Len(t) : /\ t[k] \in Separator => t[k] = "\\"
                                              /\ k > 1 /\ t[k] \in Separator => t[k - 1] \notin Separator
           T == {q \in Seq(Char) : Holds(Collapsed(q))}
<1>1. <<>> \in T
  <2>1. PICK e : e = <<>>
      OBVIOUS
  <2>2. e \in Seq(Char) /\ Collapsed(e) = e /\ Len(e) = 0
      BY <2>1, CollapsedEmpty
  <2>3. Holds(e)
      BY <2>2
  <2>4. QED
      BY <2>1, <2>2, <2>3
<1>2. ASSUME NEW q \in Seq(Char), NEW c \in Char, q \in T
      PROVE  Append(q, c) \in T
  <2>1. PICK t \in Seq(Char) : t = Collapsed(q)
      BY CollapsedType
  <2>2. Holds(t)
      BY <1>2, <2>1
  <2>3. Collapsed(Append(q, c)) = Added(t, c) /\ Append(q, c) \in Seq(Char)
      BY <2>1, CollapsedAppend, OneMore
  <2>4. PICK n \in Nat : n = Len(t)
      OBVIOUS
  <2>5. ASSUME NEW d \in Char, d \in Separator => d = "\\" /\ ~ Slashed(t)
        PROVE  Holds(Append(t, d))
    <3>1. PICK u \in Seq(Char) : u = Append(t, d)
        BY OneMore
    <3>2. Len(u) = n + 1 /\ u[n + 1] = d /\ \A k \in 1 .. n : u[k] = t[k]
        BY <2>4, <3>1, OneMore
    <3>3. ASSUME NEW k \in 1 .. n + 1
          PROVE  /\ u[k] \in Separator => u[k] = "\\"
                 /\ k > 1 /\ u[k] \in Separator => u[k - 1] \notin Separator
      <4>1. CASE k \in 1 .. n
        <5>1. k > 1 => k - 1 \in 1 .. n
            OBVIOUS
        <5>2. QED
            BY <2>2, <2>4, <3>2, <4>1, <5>1
      <4>2. CASE k = n + 1
        <5>1. u[k] = d
            BY <3>2, <4>2
        <5>2. k > 1 => k - 1 = n /\ n \in 1 .. n /\ t # <<>>
            BY <2>4, <4>2
        <5>3. k > 1 => u[k - 1] = t[n]
            BY <3>2, <5>2
        <5>4. n \in 1 .. n => (t[n] \in Separator => t[n] = "\\")
            BY <2>2, <2>4
        <5>5. QED
            BY <2>4, <2>5, <5>1, <5>2, <5>3, <5>4 DEF Slashed
      <4>3. QED
          BY <4>1, <4>2
    <3>4. QED
        BY <3>1, <3>2, <3>3
  <2>6. Holds(Added(t, c))
    <3>1. CASE c \notin Separator
        BY <2>5, <3>1, AddedIs
    <3>2. CASE c \in Separator /\ Slashed(t)
        BY <2>2, <3>2, AddedIs
    <3>3. CASE c \in Separator /\ ~ Slashed(t)
      <4>1. PICK d \in Char : d = "\\"
          BY CharFacts
      <4>2. Holds(Append(t, d))
          BY <2>5, <3>3, <4>1
      <4>3. QED
          BY <3>3, <4>1, <4>2, AddedIs
    <3>4. QED
        BY <3>1, <3>2, <3>3
  <2>7. QED
      BY <2>3, <2>6
<1> HIDE DEF T
<1>3. p \in T
    BY <1>1, <1>2, TextInduction
<1>4. QED
    BY <1>3 DEF T

-----------------------------------------------------------------------------
(* normalize *)

\* A text in two parts.
LEMMA Halves ==
    ASSUME NEW p \in Seq(Char), NEW k \in 0 .. Len(p)
    PROVE  /\ Prefix(p, k) \in Seq(Char) /\ Len(Prefix(p, k)) = k
           /\ \A i \in 1 .. k : Prefix(p, k)[i] = p[i]
           /\ Suffix(p, k + 1) \in Seq(Char) /\ Len(Suffix(p, k + 1)) = Len(p) - k
           /\ \A i \in 1 .. Len(p) - k : Suffix(p, k + 1)[i] = p[k + i]
           /\ Prefix(p, k) \o Suffix(p, k + 1) = p
<1>1. PICK n \in Nat : n = Len(p) /\ k <= n /\ k \in Nat
    OBVIOUS
<1>2. PICK a : a = Prefix(p, k)
    OBVIOUS
<1>3. a \in Seq(Char) /\ Len(a) = k /\ \A i \in 1 .. k : a[i] = p[i]
    BY <1>1, <1>2 DEF Prefix
<1>4. PICK b : b = Suffix(p, k + 1)
    OBVIOUS
<1>5. b \in Seq(Char) /\ Len(b) = n - k /\ \A i \in 1 .. n - k : b[i] = p[k + i]
    BY <1>1, <1>4 DEF Suffix
<1>6. a \o b = p
  <2>1. a \o b \in Seq(Char) /\ Len(a \o b) = n
      BY <1>1, <1>3, <1>5
  <2>2. ASSUME NEW i \in 1 .. n
        PROVE  (a \o b)[i] = p[i]
    <3>1. (a \o b)[i] = IF i <= k THEN a[i] ELSE b[i - k]
        BY <1>1, <1>3, <1>5
    <3>2. i <= k => i \in 1 .. k
        BY <1>1
    <3>3. ~ (i <= k) => i - k \in 1 .. n - k /\ k + (i - k) = i
        BY <1>1
    <3>4. QED
        BY <1>3, <1>5, <3>1, <3>2, <3>3
  <2>3. QED
      BY <1>1, <2>1, <2>2, SeqEqual
<1>7. QED
    BY <1>1, <1>2, <1>3, <1>4, <1>5, <1>6

LEMMA CharKinds ==
    ASSUME LetterAssumption
    PROVE  /\ Letter \cap Separator = {} /\ ":" \notin Separator /\ "." \notin Separator
           /\ ":" \in Char /\ "." \in Char /\ ":" # "\\" /\ Letter \subseteq Char
    BY DEF LetterAssumption, Char, Separator

\* The drive stays.
LEMMA CollapsedDrive ==
    ASSUME LetterAssumption, NEW p \in Seq(Char)
    PROVE  HasDrive(Collapsed(p)) <=> HasDrive(p)
<1>1. PICK n \in Nat : n = Len(p)
    OBVIOUS
<1>2. PICK s \in Seq(Char) : s = Collapsed(p)
    BY CollapsedType
<1>3. Len(s) <= n
    BY <1>1, <1>2, CollapsedShort
<1>4. CASE n < 2
    BY <1>1, <1>2, <1>3, <1>4 DEF HasDrive
<1>5. CASE n >= 2
  <2>1. 2 \in 0 .. Len(p)
      BY <1>1, <1>5
  <2>2. PICK a \in Char : a = p[1]
      BY <1>1, <1>5
  <2>3. PICK b \in Char : b = p[2]
      BY <1>1, <1>5
  <2>4. PICK e : e = <<>>
      OBVIOUS
  <2>5. e \in Seq(Char) /\ Collapsed(e) = e /\ Len(e) = 0
      BY <2>4, CollapsedEmpty
  <2>6. PICK x \in Seq(Char) : x = Prefix(p, 2) /\ Len(x) = 2 /\ x[1] = a /\ x[2] = b
    <3>1. 1 \in 1 .. 2 /\ 2 \in 1 .. 2
        OBVIOUS
    <3>2. /\ Prefix(p, 2) \in Seq(Char) /\ Len(Prefix(p, 2)) = 2
          /\ \A i \in 1 .. 2 : Prefix(p, 2)[i] = p[i]
        BY <2>1, Halves
    <3>3. QED
        BY ONLY <2>2, <2>3, <3>1, <3>2
  <2>7. PICK z \in Seq(Char) : x \o z = p
      BY <2>1, <2>6, Halves
  <2>8. PICK y \in Seq(Char) : y = Append(e, a) /\ Len(y) = 1 /\ y[1] = a
    <3>1. Append(e, a) \in Seq(Char) /\ Len(Append(e, a)) = Len(e) + 1 /\ Append(e, a)[Len(e) + 1] = a
        BY <2>5, OneMore
    <3>2. Len(e) + 1 = 1
        BY <2>5
    <3>3. QED
        BY <3>1, <3>2
  <2>9. x = Append(y, b)
    <3>1. PICK v \in Seq(Char) : v = Append(y, b)
        BY <2>8, OneMore
    <3>2. Len(v) = 2 /\ v[1] = a /\ v[2] = b
      <4>1. Len(Append(y, b)) = Len(y) + 1 /\ Append(y, b)[Len(y) + 1] = b
            /\ \A k \in 1 .. Len(y) : Append(y, b)[k] = y[k]
          BY <2>8, OneMore
      <4>2. 1 \in 1 .. Len(y) /\ Len(y) + 1 = 2
          BY <2>8
      <4>3. QED
          BY <2>8, <3>1, <4>1, <4>2
    <3>3. \A k \in 1 .. 2 : k = 1 \/ k = 2
        OBVIOUS
    <3>4. \A k \in 1 .. Len(x) : x[k] = v[k]
        BY <2>6, <3>2, <3>3
    <3>5. x = v
        BY <2>6, <3>2, <3>4, SeqEqual
    <3>6. QED
        BY <3>1, <3>5
  <2>10. PICK u \in Seq(Char) : u = Collapsed(y) /\ u = Added(e, a)
    <3>1. Collapsed(Append(e, a)) = Added(Collapsed(e), a)
        BY <2>5, CollapsedAppend
    <3>2. Collapsed(y) \in Seq(Char)
        BY CollapsedType
    <3>3. QED
        BY <2>5, <2>8, <3>1, <3>2
  <2>11. PICK w \in Seq(Char) : w = Collapsed(x) /\ w = Added(u, b)
    <3>1. Collapsed(Append(y, b)) = Added(Collapsed(y), b)
        BY <2>8, CollapsedAppend
    <3>2. Collapsed(x) \in Seq(Char)
        BY <2>6, CollapsedType
    <3>3. QED
        BY <2>9, <2>10, <3>1, <3>2
  <2>12. Len(w) <= Len(s) /\ \A k \in 1 .. Len(w) : s[k] = w[k]
    <3>1. /\ Len(Collapsed(x)) <= Len(Collapsed(x \o z))
          /\ \A k \in 1 .. Len(Collapsed(x)) : Collapsed(x \o z)[k] = Collapsed(x)[k]
        BY CollapsedFront
    <3>2. QED
        BY <1>2, <2>7, <2>11, <3>1
  <2>13. Slashed(u) <=> a \in Separator
      BY <2>5, <2>10, AddedEnds
  <2>14. PICK one \in Char : u = Append(e, one) /\ (a \notin Separator => one = a) /\ (a \in Separator => one = "\\")
    <3>1. ~ Slashed(e)
        BY <2>4 DEF Slashed
    <3>2. QED
        BY <2>10, <3>1, AddedIs, CharFacts
  <2>15. Len(u) = 1 /\ u[1] = one
      BY <2>5, <2>14, OneMore
  <2>16. CASE a \in Separator
    <3>1. Len(u) <= Len(w) /\ \A k \in 1 .. Len(u) : w[k] = u[k]
      <4>1. /\ Len(u) <= Len(Added(u, b))
            /\ \A k \in 1 .. Len(u) : Added(u, b)[k] = u[k]
          BY AddedEnds
      <4>2. QED
          BY ONLY <2>11, <4>1
    <3>2. 1 \in 1 .. Len(w) /\ w[1] = one
        BY <2>15, <3>1
    <3>3. s[1] = "\\"
        BY <2>12, <2>14, <2>16, <3>2
    <3>4. QED
        BY <1>2, <2>2, <2>16, <3>3, CharKinds, CharFacts DEF HasDrive
  <2>17. CASE a \notin Separator
    <3>1. PICK two \in Char : w = Append(u, two) /\ (b \notin Separator => two = b) /\ (b \in Separator => two = "\\")
        BY <2>11, <2>13, <2>17, AddedIs, CharFacts
    <3>2. Len(w) = 2 /\ w[2] = two /\ w[1] = a
      <4>1. Len(Append(u, two)) = Len(u) + 1 /\ Append(u, two)[Len(u) + 1] = two
            /\ \A k \in 1 .. Len(u) : Append(u, two)[k] = u[k]
          BY OneMore
      <4>2. 1 \in 1 .. Len(u) /\ Len(u) + 1 = 2
          BY <2>15
      <4>3. QED
          BY <2>14, <2>15, <2>17, <3>1, <4>1, <4>2
    <3>3. 1 \in 1 .. Len(w) /\ 2 \in 1 .. Len(w)
        BY <3>2
    <3>4. Len(s) >= 2 /\ s[1] = a /\ s[2] = two
        BY <2>12, <3>2, <3>3
    <3>5. two = ":" <=> b = ":"
        BY <3>1, CharKinds
    <3>6. QED
        BY <1>1, <1>2, <1>5, <2>2, <2>3, <3>4, <3>5 DEF HasDrive
  <2>18. QED
      BY <2>16, <2>17
<1>6. QED
    BY <1>4, <1>5

\* A text that is trimmed has a separator to lose, and something before it.
LEMMA TrimmedIs ==
    ASSUME NEW out \in Seq(Char)
    PROVE  /\ Trimmed(out) \in Seq(Char)
           /\ ~ Slashed(out) => Trimmed(out) = out
           /\ Trimmed(out) # out => Trimmed(out) # <<>> /\ out = Append(Trimmed(out), "\\")
           /\ out # <<>> => Trimmed(out) # <<>>
<1>1. PICK n \in Nat : n = Len(out)
    OBVIOUS
<1>2. CASE Trimmed(out) = out
    BY <1>2
<1>3. CASE Trimmed(out) # out
  <2>1. n > 1 /\ out[n] = "\\" /\ Trimmed(out) = Prefix(out, n - 1)
      BY <1>1, <1>3 DEF Trimmed
  <2>2. PICK m \in Nat : m = n - 1 /\ m # 0 /\ m \in 0 .. Len(out)
      BY <1>1, <2>1
  <2>3. PICK t \in Seq(Char) : t = Prefix(out, m) /\ Len(t) = m /\ \A i \in 1 .. m : t[i] = out[i]
      BY <2>2, Halves
  <2>4. PICK d \in Char : d = "\\"
      BY CharFacts
  <2>5. PICK u \in Seq(Char) : u = Append(t, d)
      BY OneMore
  <2>6. Len(u) = m + 1 /\ u[m + 1] = d /\ \A i \in 1 .. m : u[i] = t[i]
      BY <2>3, <2>5, OneMore
  <2>7. \A i \in 1 .. n : i \in 1 .. m \/ i = m + 1
      BY <2>2
  <2>8. n = m + 1
      BY <2>2
  <2>9. \A i \in 1 .. n : u[i] = out[i]
      BY <2>1, <2>3, <2>4, <2>6, <2>7, <2>8
  <2>10. u = out
      BY <1>1, <2>6, <2>8, <2>9, SeqEqual
  <2>11. t # <<>> /\ Trimmed(out) = t
      BY <2>1, <2>2, <2>3
  <2>12. Slashed(out)
      BY <1>1, <2>1 DEF Slashed
  <2>13. QED
      BY <2>4, <2>5, <2>10, <2>11, <2>12
<1>4. QED
    BY <1>2, <1>3

\* The normal form of a text has nothing left to collapse or to trim.
LEMMA NormalizedIs ==
    ASSUME NEW p \in Seq(Char)
    PROVE  /\ normalize(p) \in Seq(Char)
           /\ Collapsed(normalize(p)) = normalize(p) /\ Trimmed(normalize(p)) = normalize(p)
<1>1. PICK s \in Seq(Char) : s = Collapsed(p) /\ Collapsed(s) = s
    BY CollapsedType, CollapsedTwice
<1>2. PICK t \in Seq(Char) : t = normalize(p) /\ t = Trimmed(s)
    BY <1>1, TrimmedIs DEF normalize
<1>3. CASE t = s
    BY <1>1, <1>2, <1>3
<1>4. CASE t # s
  <2>1. PICK d \in Char : d = "\\" /\ d \in Separator
      BY CharFacts
  <2>2. s = Append(t, d)
      BY <1>2, <1>4, <2>1, TrimmedIs
  <2>3. PICK v \in Seq(Char) : v = Collapsed(t) /\ Len(v) <= Len(t)
      BY CollapsedType, CollapsedShort
  <2>4. Added(v, d) = s
      BY <1>1, <2>2, <2>3, CollapsedAppend
  <2>5. ~ Slashed(v)
    <3>1. SUFFICES ASSUME Slashed(v)
                   PROVE  FALSE
        OBVIOUS
    <3>2. v = s
        BY <2>1, <2>4, <3>1, AddedIs
    <3>3. Len(s) = Len(t) + 1
        BY <2>2, OneMore
    <3>4. Len(t) \in Nat
        OBVIOUS
    <3>5. QED
        BY <2>3, <3>2, <3>3, <3>4
  <2>6. Append(v, d) = Append(t, d)
      BY <2>1, <2>2, <2>4, <2>5, AddedIs
  <2>7. v = t
      BY <2>6, AppendInjective
  <2>8. QED
      BY <1>2, <2>3, <2>5, <2>7, TrimmedIs
<1>5. QED
    BY <1>3, <1>4

LEMMA TrimmedDrive ==
    ASSUME LetterAssumption, NEW out \in Seq(Char)
    PROVE  HasDrive(Trimmed(out)) <=> HasDrive(out)
<1>1. CASE Trimmed(out) = out
    BY <1>1
<1>2. CASE Trimmed(out) # out
  <2>1. PICK d \in Char : d = "\\"
      BY CharFacts
  <2>2. PICK t \in Seq(Char) : t = Trimmed(out)
      BY TrimmedIs
  <2>3. PICK m \in Nat : m = Len(t)
      OBVIOUS
  <2>4. out = Append(t, d)
      BY <1>2, <2>1, <2>2, TrimmedIs
  <2>5. Len(out) = m + 1 /\ out[m + 1] = d /\ \A i \in 1 .. m : out[i] = t[i]
      BY <2>3, <2>4, OneMore
  <2>6. CASE m >= 2
    <3>1. 1 \in 1 .. m /\ 2 \in 1 .. m
        BY <2>6
    <3>2. out[1] = t[1] /\ out[2] = t[2] /\ Len(out) >= 2
        BY <2>5, <2>6, <3>1
    <3>3. QED
        BY <2>2, <2>3, <2>6, <3>2 DEF HasDrive
  <2>7. CASE m = 1
    <3>1. out[2] = d
        BY <2>5, <2>7
    <3>2. QED
        BY <2>1, <2>2, <2>3, <2>7, <3>1, CharKinds DEF HasDrive
  <2>8. CASE m = 0
      BY <2>2, <2>3, <2>5, <2>8 DEF HasDrive
  <2>9. QED
      BY <2>6, <2>7, <2>8
<1>3. QED
    BY <1>1, <1>2

LEMMA NormalFormHolds ==
    ASSUME LetterAssumption, NEW p \in Seq(Char)
    PROVE  NormalForm(p)
<1>1. PICK s \in Seq(Char) : s = Collapsed(p)
    BY CollapsedType
<1>2. PICK t \in Seq(Char) : t = normalize(p) /\ t = Trimmed(s) /\ Collapsed(t) = t /\ Trimmed(t) = t
    BY <1>1, NormalizedIs DEF normalize
<1>3. normalize(t) = t
    BY <1>2 DEF normalize
<1>4. HasDrive(t) <=> HasDrive(p)
    BY <1>1, <1>2, TrimmedDrive, CollapsedDrive
<1>5. ~ IsUNC(t)
  <2>1. SUFFICES ASSUME Len(t) >= 2, t[1] \in Separator, t[2] \in Separator
                 PROVE  FALSE
      BY DEF IsUNC
  <2>2. 2 \in 1 .. Len(t) /\ 2 > 1 /\ 2 - 1 = 1
      BY <2>1
  <2>3. t[2 - 1] \notin Separator
      BY <1>2, <2>1, <2>2, CollapsedSingle
  <2>4. QED
      BY <2>1, <2>2, <2>3
<1>6. is_absolute(t) <=> HasDrive(p)
    BY <1>4, <1>5 DEF is_absolute
<1>7. QED
    BY <1>2, <1>3, <1>4, <1>6 DEF NormalForm

-----------------------------------------------------------------------------
(* Names *)

LEMMA LastOf ==
    ASSUME NEW p \in Seq(Char), NEW S
    PROVE  /\ find_last_of(p, S) \in 0 .. Len(p)
           /\ find_last_of(p, S) # 0 => p[find_last_of(p, S)] \in S
           /\ \A i \in 1 .. Len(p) : i > find_last_of(p, S) => p[i] \notin S
<1>1. PICK n \in Nat : n = Len(p)
    OBVIOUS
<1> DEFINE at == {i \in DOMAIN p : p[i] \in S}
<1>2. at = {i \in 1 .. n : p[i] \in S}
    BY <1>1
<1>3. find_last_of(p, S) = IF at = {} THEN 0 ELSE CHOOSE i \in at : \A j \in at : j <= i
    BY DEF find_last_of
<1> HIDE DEF at
<1>4. CASE at = {}
    BY <1>1, <1>2, <1>3, <1>4
<1>5. CASE at # {}
  <2>1. PICK B : B = {m \in Nat : \A j \in at : j <= m}
      OBVIOUS
  <2>2. B \in SUBSET Nat /\ n \in B
      BY <1>1, <1>2, <2>1
  <2>3. PICK m \in B : \A x \in B : m <= x
      BY <2>2, LeastNumber
  <2>4. m \in Nat /\ \A j \in at : j <= m
      BY <2>1
  <2>5. m \in at
    <3>1. SUFFICES ASSUME m \notin at
                   PROVE  FALSE
        OBVIOUS
    <3>2. \A j \in at : j \in Nat /\ j # m /\ j >= 1
        BY <1>2, <3>1
    <3>3. \A j \in at : j <= m - 1
        BY <2>4, <3>2
    <3>4. m >= 1
        BY <1>5, <2>4, <3>2
    <3>5. m - 1 \in B
        BY <2>1, <2>4, <3>3, <3>4
    <3>6. QED
        BY <2>3, <2>4, <3>5
  <2>6. PICK pos \in at : pos = find_last_of(p, S) /\ \A j \in at : j <= pos
      BY <1>3, <1>5, <2>4, <2>5
  <2>7. pos \in 1 .. n /\ p[pos] \in S
      BY <1>2
  <2>8. ASSUME NEW i \in 1 .. n, i > pos
        PROVE  p[i] \notin S
      BY <1>2, <2>6, <2>7, <2>8
  <2>9. QED
      BY <1>1, <2>6, <2>7, <2>8
<1>6. QED
    BY <1>4, <1>5

LEMMA LastIs ==
    ASSUME NEW p \in Seq(Char), NEW S, NEW k \in 0 .. Len(p), k # 0 => p[k] \in S,
           \A i \in 1 .. Len(p) : i > k => p[i] \notin S
    PROVE  find_last_of(p, S) = k
<1>1. PICK n \in Nat : n = Len(p)
    OBVIOUS
<1>2. PICK pos \in 0 .. n : /\ pos = find_last_of(p, S) /\ (pos # 0 => p[pos] \in S)
                            /\ \A i \in 1 .. n : i > pos => p[i] \notin S
    BY <1>1, LastOf
<1>3. ~ (pos < k)
  <2>1. pos < k => k \in 1 .. n /\ k # 0 /\ k > pos
      BY <1>1
  <2>2. QED
      BY <1>2, <2>1
<1>4. ~ (k < pos)
  <2>1. k < pos => pos \in 1 .. n /\ pos # 0 /\ pos > k
      BY <1>1
  <2>2. QED
      BY <1>1, <1>2, <2>1
<1>5. QED
    BY <1>1, <1>2, <1>3, <1>4

LEMMA EndsConcat ==
    ASSUME NEW x \in Seq(Char), NEW y \in Seq(Char), Ends(y) \/ (y = <<>> /\ Ends(x))
    PROVE  Ends(x \o y)
<1>1. PICK m \in Nat : m = Len(x)
    OBVIOUS
<1>2. PICK n \in Nat : n = Len(y)
    OBVIOUS
<1>0. PICK z : z = x \o y
    OBVIOUS
<1>3. /\ z \in Seq(Char) /\ z = x \o y /\ Len(z) = m + n
      /\ \A i \in 1 .. m + n : z[i] = IF i <= m THEN x[i] ELSE y[i - m]
    BY <1>0, <1>1, <1>2
<1>4. CASE Ends(y)
  <2>1. n # 0 /\ y[n] \in Separator
      BY <1>2, <1>4 DEF Ends
  <2>2. m + n \in 1 .. m + n /\ ~ (m + n <= m) /\ (m + n) - m = n
      BY <2>1
  <2>3. z[m + n] = y[n] /\ z # <<>>
      BY <1>3, <2>2
  <2>4. QED
      BY <1>3, <2>1, <2>3 DEF Ends
<1>5. CASE y = <<>> /\ Ends(x)
  <2>1. x \o y = x
      BY <1>5, ConcatEmptySeq
  <2>2. QED
      BY <1>5, <2>1
<1>6. QED
    BY <1>4, <1>5

Plain(f) == \A i \in 1 .. Len(f) : f[i] \notin Separator

\* The name is what comes after the last separator.
LEMMA NameIs ==
    ASSUME NEW d \in Seq(Char), NEW f \in Seq(Char), Plain(f), d = <<>> \/ Ends(d)
    PROVE  filename(d \o f) = f
<1>1. PICK m \in Nat : m = Len(d)
    OBVIOUS
<1>2. PICK n \in Nat : n = Len(f)
    OBVIOUS
<1>0. PICK p : p = d \o f
    OBVIOUS
<1>3. /\ p \in Seq(Char) /\ p = d \o f /\ Len(p) = m + n
      /\ \A i \in 1 .. m + n : p[i] = IF i <= m THEN d[i] ELSE f[i - m]
    BY <1>0, <1>1, <1>2
<1>4. m # 0 => p[m] \in Separator
  <2>1. m # 0 => m \in 1 .. m + n /\ d # <<>>
      BY <1>1
  <2>2. QED
      BY <1>1, <1>3, <2>1 DEF Ends
<1>5. \A i \in 1 .. Len(p) : i > m => p[i] \notin Separator
  <2>1. SUFFICES ASSUME NEW i \in 1 .. m + n, i > m
                 PROVE  p[i] \notin Separator
      BY <1>3
  <2>2. i - m \in 1 .. n /\ ~ (i <= m)
      BY <2>1
  <2>3. QED
      BY <1>2, <1>3, <2>2 DEF Plain
<1>6. m \in 0 .. Len(p)
    BY <1>3
<1>7. find_last_of(p, Separator) = m
    BY <1>3, <1>4, <1>5, <1>6, LastIs
<1>8. PICK g \in Seq(Char) : g = Suffix(p, m + 1) /\ Len(g) = Len(p) - m
                             /\ \A i \in 1 .. Len(p) - m : g[i] = p[m + i]
    BY <1>3, <1>6, Halves
<1>9. Len(g) = n
    BY <1>3, <1>8
<1>10. ASSUME NEW i \in 1 .. n
       PROVE  g[i] = f[i]
  <2>1. m + i \in 1 .. m + n /\ ~ (m + i <= m) /\ (m + i) - m = i /\ i \in 1 .. Len(p) - m
      BY <1>3
  <2>2. QED
      BY <1>3, <1>8, <2>1
<1>11. g = f
    BY <1>2, <1>9, <1>10, SeqEqual
<1>12. QED
    BY <1>3, <1>7, <1>8, <1>11 DEF filename

LEMMA NameOf ==
    ASSUME NEW p \in Seq(Char)
    PROVE  \E d, f \in Seq(Char) :
               /\ p = d \o f /\ f = filename(p) /\ Plain(f) /\ (d = <<>> \/ Ends(d))
               /\ Len(d) = find_last_of(p, Separator) /\ d = Prefix(p, find_last_of(p, Separator))
<1>1. PICK n \in Nat : n = Len(p)
    OBVIOUS
<1>2. PICK pos \in 0 .. n : /\ pos = find_last_of(p, Separator) /\ (pos # 0 => p[pos] \in Separator)
                            /\ \A i \in 1 .. n : i > pos => p[i] \notin Separator
    BY <1>1, LastOf
<1>3. PICK d \in Seq(Char) : d = Prefix(p, pos) /\ Len(d) = pos /\ \A i \in 1 .. pos : d[i] = p[i]
    BY <1>1, Halves
<1>4. PICK f \in Seq(Char) : f = Suffix(p, pos + 1) /\ Len(f) = n - pos
                             /\ \A i \in 1 .. n - pos : f[i] = p[pos + i]
    BY <1>1, Halves
<1>5. p = d \o f
    BY <1>1, <1>3, <1>4, Halves
<1>6. f = filename(p)
    BY <1>2, <1>4 DEF filename
<1>7. Plain(f)
  <2>1. ASSUME NEW i \in 1 .. n - pos
        PROVE  f[i] \notin Separator
    <3>1. pos + i \in 1 .. n /\ pos + i > pos
        OBVIOUS
    <3>2. QED
        BY <1>2, <1>4, <3>1
  <2>2. QED
      BY <1>4, <2>1 DEF Plain
<1>8. d = <<>> \/ Ends(d)
  <2>1. CASE pos = 0
      BY <1>3, <2>1
  <2>2. CASE pos # 0
    <3>1. pos \in 1 .. pos
        BY <2>2
    <3>2. d[pos] = p[pos] /\ d # <<>>
        BY <1>3, <2>2, <3>1
    <3>3. QED
        BY <1>2, <1>3, <2>2, <3>2 DEF Ends
  <2>3. QED
      BY <2>1, <2>2
<1>9. QED
    BY <1>2, <1>3, <1>4, <1>5, <1>6, <1>7, <1>8

-----------------------------------------------------------------------------
(* join *)

LEMMA HeadTail ==
    ASSUME NEW b \in Seq(Char), b # <<>>
    PROVE  \E one, rest \in Seq(Char) :
               /\ Len(one) = 1 /\ one[1] = b[1] /\ b[1] \in Char /\ rest = Tail(b) /\ b = one \o rest
<1>1. PICK n \in Nat : n = Len(b) /\ n # 0
    OBVIOUS
<1>2. 1 \in 0 .. Len(b) /\ 1 \in 1 .. 1
    BY <1>1
<1>3. PICK one \in Seq(Char) : one = Prefix(b, 1) /\ Len(one) = 1 /\ one[1] = b[1]
    BY <1>2, Halves
<1>4. PICK rest \in Seq(Char) : rest = Suffix(b, 1 + 1) /\ b = one \o rest
    BY <1>2, <1>3, Halves
<1>5. rest = Tail(b)
  <2>1. rest = SubSeq(b, 2, Len(b))
      BY <1>4 DEF Suffix
  <2>2. Tail(b) = SubSeq(b, 2, Len(b))
      BY TailIsSubSeq
  <2>3. QED
      BY <2>1, <2>2
<1>6. b[1] \in Char
    BY <1>1
<1>7. QED
    BY <1>3, <1>4, <1>5, <1>6

\* A text of one character.
LEMMA OneChar ==
    ASSUME NEW one \in Seq(Char), Len(one) = 1, NEW x \in Seq(Char)
    PROVE  x \o one = Append(x, one[1]) /\ one[1] \in Char /\ one = <<one[1]>>
<1>1. PICK c \in Char : c = one[1]
    OBVIOUS
<1>2. one = <<c>>
    BY <1>1
<1>3. QED
    BY <1>1, <1>2, AppendIsConcat

\* Which separator it is, and whether there is another one, does not matter.
LEMMA Separators ==
    ASSUME NEW x \in Seq(Char), NEW c \in Separator, NEW d \in Separator
    PROVE  /\ Collapsed(Append(x, c)) = Collapsed(Append(x, d))
           /\ Collapsed(Append(Append(x, c), d)) = Collapsed(Append(x, c))
           /\ Ends(x) => Collapsed(Append(x, c)) = Collapsed(x)
<1>1. c \in Char /\ d \in Char
    BY CharFacts
<1>2. PICK s \in Seq(Char) : s = Collapsed(x)
    BY CollapsedType
<1>3. PICK y \in Seq(Char) : y = Append(x, c)
    BY <1>1, OneMore
<1>4. Collapsed(y) = Added(s, c) /\ Collapsed(Append(x, d)) = Added(s, d)
    BY <1>1, <1>2, <1>3, CollapsedAppend
<1>5. Added(s, c) = Added(s, d)
    BY DEF Added
<1>6. Slashed(Collapsed(y))
    BY <1>1, <1>2, <1>4, AddedEnds
<1>7. Collapsed(Append(y, d)) = Added(Collapsed(y), d)
    BY <1>1, CollapsedAppend
<1>8. Added(Collapsed(y), d) = Collapsed(y)
    BY <1>6, AddedIs
<1>9. Ends(x) => Added(s, c) = s
    BY <1>2, CollapsedEnds, AddedIs
<1>10. QED
    BY <1>2, <1>3, <1>4, <1>5, <1>7, <1>8, <1>9

Bar == <<"\\">>

LEMMA BarIs ==
    ASSUME NEW x \in Seq(Char)
    PROVE  Bar \in Seq(Char) /\ Bar # <<>> /\ Len(Bar) = 1 /\ x \o Bar = Append(x, "\\") /\ Ends(Bar)
<1>1. PICK d \in Char : d = "\\" /\ d \in Separator
    BY CharFacts
<1>2. PICK bar : bar = <<d>>
    OBVIOUS
<1>3. bar \in Seq(Char) /\ Len(bar) = 1 /\ bar[1] = d
    BY <1>2
<1>4. x \o bar = Append(x, d)
    BY <1>3, OneChar
<1>5. Bar = bar
    BY <1>1, <1>2 DEF Bar
<1>6. bar # <<>>
    BY <1>3
<1>7. QED
    BY <1>1, <1>3, <1>4, <1>5, <1>6 DEF Ends

LEMMA Concat == \A x, y \in Seq(Char) : x \o y \in Seq(Char)
    OBVIOUS

Assoc(x, y, z) == x \o (y \o z) = (x \o y) \o z

LEMMA ConcatThree ==
    ASSUME NEW x \in Seq(Char), NEW y \in Seq(Char), NEW z \in Seq(Char)
    PROVE  Assoc(x, y, z)
<1>1. (x \o y) \o z = x \o (y \o z)
    BY ConcatAssociative, SMTT(30)
<1>2. QED
    BY ONLY <1>1 DEF Assoc

\* z is x and y, which have m and n characters.
Joined(z, x, y, m, n) ==
    /\ Len(z) = m + n
    /\ \A k \in 1 .. m : z[k] = x[k]
    /\ \A k \in 1 .. n : z[m + k] = y[k]

LEMMA ConcatAt ==
    ASSUME NEW x \in Seq(Char), NEW y \in Seq(Char), NEW m \in Nat, m = Len(x), NEW n \in Nat, n = Len(y)
    PROVE  Joined(x \o y, x, y, m, n)
<1>1. PICK z : z = x \o y
    OBVIOUS
<1>2. /\ Len(z) = m + n
      /\ \A k \in 1 .. m + n : z[k] = IF k <= m THEN x[k] ELSE y[k - m]
    BY <1>1
<1>3. \A k \in 1 .. m : k \in 1 .. m + n /\ k <= m
    OBVIOUS
<1>4. \A k \in 1 .. n : m + k \in 1 .. m + n /\ ~ (m + k <= m) /\ (m + k) - m = k
    OBVIOUS
<1>5. QED
    BY <1>1, <1>2, <1>3, <1>4 DEF Joined

LEMMA JoinEmpty ==
    ASSUME NEW a, NEW b
    PROVE  /\ a = <<>> => join(a, b) = b
           /\ b = <<>> => join(a, b) = a
    BY DEF join

\* What is joined is a text, and collapses to what a separator between them makes.
LEMMA JoinCollapsed ==
    ASSUME NEW a \in Seq(Char), NEW b \in Seq(Char), a # <<>>, b # <<>>
    PROVE  /\ join(a, b) \in Seq(Char) /\ join(a, b) # <<>>
           /\ Collapsed(join(a, b)) = Collapsed((a \o Bar) \o b)
<1>1. PICK one \in Seq(Char), rest \in Seq(Char) :
          Len(one) = 1 /\ one[1] = b[1] /\ b[1] \in Char /\ rest = Tail(b) /\ b = one \o rest
    BY HeadTail
<1>2. PICK c \in Char : c = b[1]
    BY <1>1
<1>3. PICK d \in Char : d = "\\" /\ d \in Separator
    BY CharFacts
<1>4. PICK y \in Seq(Char) : y = a \o Bar /\ y = Append(a, d)
    BY <1>3, BarIs, OneMore
<1>5. y \o b = Append(y, c) \o rest
  <2>1. y \o (one \o rest) = (y \o one) \o rest
    <3>1. Assoc(y, one, rest)
        BY ConcatThree
    <3>2. QED
        BY <3>1 DEF Assoc
  <2>2. y \o one = Append(y, c)
      BY <1>1, <1>2, OneChar
  <2>3. QED
      BY <1>1, <2>1, <2>2
<1>6. a \o b = Append(a, c) \o rest
  <2>1. a \o (one \o rest) = (a \o one) \o rest
    <3>1. Assoc(a, one, rest)
        BY ConcatThree
    <3>2. QED
        BY <3>1 DEF Assoc
  <2>2. a \o one = Append(a, c)
      BY <1>1, <1>2, OneChar
  <2>3. QED
      BY <1>1, <2>1, <2>2
<1>7. PICK ac \in Seq(Char), yc \in Seq(Char) : ac = Append(a, c) /\ yc = Append(y, c)
    BY OneMore
<1>8. Ends(a) <=> a[Len(a)] \in Separator
    BY DEF Ends
<1>9. \A x \in Seq(Char) : a \o x \in Seq(Char) /\ a \o x # <<>>
  <2>1. SUFFICES ASSUME NEW x \in Seq(Char)
                 PROVE  a \o x \in Seq(Char) /\ a \o x # <<>>
      OBVIOUS
  <2>2. Len(a \o x) = Len(a) + Len(x) /\ Len(a) # 0 /\ a \o x \in Seq(Char)
      OBVIOUS
  <2>3. Len(a) \in Nat /\ Len(x) \in Nat
      OBVIOUS
  <2>4. Len(a \o x) # 0
      BY <2>2, <2>3
  <2>5. QED
      BY <2>2, <2>4
<1>10. CASE Ends(a) /\ c \in Separator
  <2>1. join(a, b) = a \o rest
      BY <1>1, <1>2, <1>8, <1>10 DEF join
  <2>2. Collapsed(Append(y, c)) = Collapsed(y) /\ Collapsed(y) = Collapsed(a)
      BY <1>3, <1>4, <1>10, Separators
  <2>3. Collapsed(a \o rest) = Collapsed(yc \o rest)
    <3>1. a \in Seq(Char) /\ yc \in Seq(Char) /\ rest \in Seq(Char) /\ Collapsed(a) = Collapsed(yc)
        BY <1>7, <2>2
    <3>2. QED
        BY ONLY <3>1, SameFront
  <2>4. QED
      BY <1>4, <1>5, <1>7, <1>9, <2>1, <2>3
<1>11. CASE ~ Ends(a) /\ c \notin Separator
  <2>1. join(a, b) = a \o Bar \o b
      BY <1>1, <1>2, <1>8, <1>11 DEF join, Bar
  <2>2. a \o Bar \o b = a \o (Bar \o b)
    <3>1. Assoc(a, Bar, b)
        BY BarIs, ConcatThree
    <3>2. QED
        BY <3>1 DEF Assoc
  <2>3. Bar \o b \in Seq(Char)
      BY BarIs
  <2>4. QED
      BY <1>9, <2>1, <2>2, <2>3
<1>12. CASE Ends(a) /\ c \notin Separator
  <2>1. join(a, b) = a \o b
      BY <1>1, <1>2, <1>8, <1>12 DEF join
  <2>2. Collapsed(y) = Collapsed(a)
      BY <1>3, <1>4, <1>12, Separators
  <2>3. Collapsed(a \o b) = Collapsed(y \o b)
      BY <2>2, SameFront
  <2>4. QED
      BY <1>4, <1>9, <2>1, <2>3
<1>13. CASE ~ Ends(a) /\ c \in Separator
  <2>1. join(a, b) = a \o b
      BY <1>1, <1>2, <1>8, <1>13 DEF join
  <2>2. Collapsed(Append(y, c)) = Collapsed(y) /\ Collapsed(y) = Collapsed(Append(a, c))
      BY <1>3, <1>4, <1>13, Separators
  <2>3. Collapsed(ac \o rest) = Collapsed(yc \o rest)
    <3>1. ac \in Seq(Char) /\ yc \in Seq(Char) /\ rest \in Seq(Char) /\ Collapsed(ac) = Collapsed(yc)
        BY <1>7, <2>2
    <3>2. QED
        BY ONLY <3>1, SameFront
  <2>4. QED
      BY <1>4, <1>5, <1>6, <1>7, <1>9, <2>1, <2>3
<1>14. QED
    BY <1>10, <1>11, <1>12, <1>13

LEMMA JoinType ==
    ASSUME NEW a \in Seq(Char), NEW b \in Seq(Char)
    PROVE  join(a, b) \in Seq(Char)
    BY JoinEmpty, JoinCollapsed

\* The order of joining does not matter.
LEMMA JoinInAnyOrder ==
    ASSUME NEW a \in Seq(Char), NEW b \in Seq(Char), NEW c \in Seq(Char)
    PROVE  normalize(join(join(a, b), c)) = normalize(join(a, join(b, c)))
<1>1. CASE a = <<>> \/ b = <<>> \/ c = <<>>
    BY <1>1, JoinEmpty
<1>2. CASE a # <<>> /\ b # <<>> /\ c # <<>>
  <2>1. Bar \in Seq(Char)
      BY BarIs
  <2>2. PICK x \in Seq(Char) : x = join(a, b) /\ x # <<>> /\ Collapsed(x) = Collapsed((a \o Bar) \o b)
      BY <1>2, JoinCollapsed
  <2>3. PICK z \in Seq(Char) : z = join(b, c) /\ z # <<>> /\ Collapsed(z) = Collapsed((b \o Bar) \o c)
      BY <1>2, JoinCollapsed
  <2>4. PICK ab \in Seq(Char) : ab = a \o Bar
      BY <2>1, Concat
  <2>5. PICK bb \in Seq(Char) : bb = b \o Bar
      BY <2>1, Concat
  <2>6. PICK bc \in Seq(Char) : bc = Bar \o c
      BY <2>1, Concat
  <2>7. PICK abb \in Seq(Char) : abb = ab \o b
      BY Concat
  <2>8. PICK bbc \in Seq(Char) : bbc = bb \o c
      BY Concat
  <2>9. Collapsed(join(x, c)) = Collapsed(abb \o bc)
    <3>1. Collapsed(join(x, c)) = Collapsed((x \o Bar) \o c)
        BY <1>2, <2>2, JoinCollapsed
    <3>2. (x \o Bar) \o c = x \o bc
      <4>0. x \in Seq(Char) /\ Bar \in Seq(Char) /\ c \in Seq(Char)
          BY <2>1
      <4>1. x \o (Bar \o c) = (x \o Bar) \o c
        <5>1. Assoc(x, Bar, c)
            BY ONLY <4>0, ConcatThree
        <5>2. QED
            BY <5>1 DEF Assoc
      <4>2. QED
          BY <2>6, <4>1
    <3>3. Collapsed(x) = Collapsed(abb)
        BY <2>2, <2>4, <2>7
    <3>4. Collapsed(x \o bc) = Collapsed(abb \o bc)
        BY <3>3, SameFront
    <3>5. QED
        BY <3>1, <3>2, <3>4
  <2>10. Collapsed(join(a, z)) = Collapsed(ab \o bbc)
    <3>1. Collapsed(join(a, z)) = Collapsed(ab \o z)
        BY <1>2, <2>3, <2>4, JoinCollapsed
    <3>2. Collapsed(ab \o Collapsed(z)) = Collapsed(ab \o z)
        BY SameBack
    <3>3. Collapsed(ab \o Collapsed(bbc)) = Collapsed(ab \o bbc)
        BY SameBack
    <3>4. Collapsed(z) = Collapsed(bbc)
        BY <2>3, <2>5, <2>8
    <3>5. QED
        BY <3>1, <3>2, <3>3, <3>4
  <2>11. abb \o bc = ab \o bbc
    <3>1. abb \o bc = ab \o (b \o bc)
      <4>0. ab \in Seq(Char) /\ b \in Seq(Char) /\ bc \in Seq(Char)
          OBVIOUS
      <4>1. ab \o (b \o bc) = (ab \o b) \o bc
        <5>1. Assoc(ab, b, bc)
            BY ONLY <4>0, ConcatThree
        <5>2. QED
            BY <5>1 DEF Assoc
      <4>2. QED
          BY <2>7, <4>1
    <3>2. b \o bc = bbc
      <4>0. b \in Seq(Char) /\ Bar \in Seq(Char) /\ c \in Seq(Char)
          BY <2>1
      <4>1. b \o (Bar \o c) = (b \o Bar) \o c
        <5>1. Assoc(b, Bar, c)
            BY ONLY <4>0, ConcatThree
        <5>2. QED
            BY <5>1 DEF Assoc
      <4>2. QED
          BY <2>5, <2>6, <2>8, <4>1
    <3>3. QED
        BY <3>1, <3>2
  <2>12. Collapsed(join(join(a, b), c)) = Collapsed(join(a, join(b, c)))
      BY <2>2, <2>3, <2>9, <2>10, <2>11
  <2>13. QED
      BY <2>12 DEF normalize
<1>3. QED
    BY <1>1, <1>2

\* The name of what is joined is the name of its last part.
LEMMA JoinName ==
    ASSUME NEW a \in Seq(Char), NEW b \in Seq(Char), b # <<>>
    PROVE  filename(join(a, b)) = filename(b)
<1>1. CASE a = <<>>
    BY <1>1, JoinEmpty
<1>2. CASE a # <<>>
  <2>1. PICK d \in Seq(Char), f \in Seq(Char) : b = d \o f /\ f = filename(b) /\ Plain(f) /\ (d = <<>> \/ Ends(d))
      BY NameOf
  <2>2. PICK one \in Seq(Char), rest \in Seq(Char) :
            Len(one) = 1 /\ one[1] = b[1] /\ b[1] \in Char /\ rest = Tail(b) /\ b = one \o rest
      BY HeadTail
  <2>3. Ends(a) <=> a[Len(a)] \in Separator
      BY <1>2 DEF Ends
  <2>4. \A e \in Seq(Char) : (e = <<>> \/ Ends(e)) => filename(e \o f) = f
      BY <2>1, NameIs
  <2>6. b[1] \in Separator => d # <<>>
    <3>1. SUFFICES ASSUME d = <<>>
                   PROVE  b[1] \notin Separator
        OBVIOUS
    <3>2. b = f
        BY <2>1, <3>1, ConcatEmptySeq
    <3>3. 1 \in 1 .. Len(f)
        BY <3>2
    <3>4. QED
        BY <2>1, <3>2, <3>3 DEF Plain
  <2>7. \A x \in Seq(Char) : (d = <<>> => Ends(x)) => filename(x \o b) = f
    <3>1. SUFFICES ASSUME NEW x \in Seq(Char), d = <<>> => Ends(x)
                   PROVE  filename(x \o b) = f
        OBVIOUS
    <3>2. Ends(x \o d)
        BY <2>1, <3>1, EndsConcat
    <3>3. x \o d \in Seq(Char)
        OBVIOUS
    <3>4. filename((x \o d) \o f) = f
        BY <2>4, <3>2, <3>3
    <3>5. x \o (d \o f) = (x \o d) \o f
      <4>1. Assoc(x, d, f)
          BY ConcatThree
      <4>2. QED
          BY <4>1 DEF Assoc
    <3>6. QED
        BY <2>1, <3>4, <3>5
  <2>8. CASE Ends(a) /\ b[1] \in Separator
    <3>1. join(a, b) = a \o rest
        BY <1>2, <2>2, <2>3, <2>8 DEF join
    <3>2. PICK g \in Seq(Char), dr \in Seq(Char) :
              Len(g) = 1 /\ dr = Tail(d) /\ d = g \o dr
        BY <2>6, <2>8, HeadTail
    <3>3. rest = dr \o f
      <4>1. g \o (dr \o f) = one \o rest
        <5>1. g \o (dr \o f) = (g \o dr) \o f
          <6>1. Assoc(g, dr, f)
              BY ConcatThree
          <6>2. QED
              BY <6>1 DEF Assoc
        <5>2. QED
            BY <2>1, <2>2, <3>2, <5>1
      <4>2. PICK v \in Seq(Char) : v = dr \o f
          BY Concat
      <4>3. Tail(g \o v) = v /\ Tail(one \o rest) = rest
        <5>1. \A p, q \in Seq(Char) : Len(p) = 1 => Tail(p \o q) = q
          <6>1. SUFFICES ASSUME NEW p \in Seq(Char), NEW q \in Seq(Char), Len(p) = 1
                         PROVE  Tail(p \o q) = q
              OBVIOUS
          <6>2. PICK w \in Seq(Char) : w = p \o q
              BY Concat
          <6>3. PICK n \in Nat : n = Len(q)
              OBVIOUS
          <6>4. Len(w) = 1 + n /\ \A k \in 1 .. n : w[1 + k] = q[k]
            <7>1. p \in Seq(Char) /\ q \in Seq(Char) /\ 1 \in Nat /\ 1 = Len(p) /\ n \in Nat /\ n = Len(q)
                BY <6>1, <6>3
            <7>2. Joined(p \o q, p, q, 1, n)
                BY <7>1, ConcatAt
            <7>3. QED
                BY <6>2, <7>2 DEF Joined
          <6>5. w # <<>>
              BY <6>4
          <6>6. Tail(w) \in Seq(Char) /\ Len(Tail(w)) = n /\ \A k \in 1 .. n : Tail(w)[k] = w[k + 1]
            <7>1. Tail(w) \in Seq(Char) /\ Len(Tail(w)) = Len(w) - 1 /\ \A k \in 1 .. Len(Tail(w)) : Tail(w)[k] = w[k + 1]
                BY <6>4, <6>5, HeadTailProperties
            <7>2. Len(w) - 1 = n
                BY <6>4
            <7>3. QED
                BY <7>1, <7>2
          <6>7. ASSUME NEW k \in 1 .. n
                PROVE  Tail(w)[k] = q[k]
            <7>1. k + 1 = 1 + k
                OBVIOUS
            <7>2. QED
                BY <6>4, <6>6, <7>1
          <6>8. Tail(w) = q
              BY <6>3, <6>6, <6>7, SeqEqual
          <6>9. QED
              BY <6>2, <6>8
        <5>2. QED
            BY <2>2, <3>2, <5>1
      <4>4. QED
          BY <4>1, <4>2, <4>3
    <3>4. Ends(dr) \/ (dr = <<>> /\ Ends(a))
      <4>1. PICK m \in Nat : m = Len(dr)
          OBVIOUS
      <4>2. Len(d) = 1 + m /\ \A k \in 1 .. m : d[1 + k] = dr[k]
        <5>1. g \in Seq(Char) /\ dr \in Seq(Char) /\ 1 \in Nat /\ 1 = Len(g) /\ m \in Nat /\ m = Len(dr)
            BY <3>2, <4>1
        <5>2. Joined(g \o dr, g, dr, 1, m)
            BY <5>1, ConcatAt
        <5>3. QED
            BY <3>2, <5>2 DEF Joined
      <4>3. d[1 + m] \in Separator
          BY <2>1, <2>6, <2>8, <4>2 DEF Ends
      <4>4. CASE m = 0
        <5>1. dr = <<>>
            BY <4>1, <4>4, EmptySeq
        <5>2. QED
            BY <2>8, <5>1
      <4>5. CASE m # 0
        <5>1. m \in 1 .. m
            BY <4>5
        <5>2. dr[m] \in Separator /\ dr # <<>>
            BY <4>1, <4>2, <4>3, <4>5, <5>1
        <5>3. QED
            BY <4>1, <5>2 DEF Ends
      <4>6. QED
          BY <4>4, <4>5
    <3>5. Ends(a \o dr) /\ a \o dr \in Seq(Char)
        BY <3>4, EndsConcat
    <3>6. a \o (dr \o f) = (a \o dr) \o f
      <4>1. Assoc(a, dr, f)
          BY ConcatThree
      <4>2. QED
          BY <4>1 DEF Assoc
    <3>7. QED
        BY <2>1, <2>4, <3>1, <3>3, <3>5, <3>6
  <2>9. CASE ~ Ends(a) /\ b[1] \notin Separator
    <3>1. join(a, b) = (a \o Bar) \o b
        BY <1>2, <2>3, <2>9 DEF join, Bar
    <3>2. Bar \in Seq(Char) /\ Ends(Bar)
        BY BarIs
    <3>3. Ends(a \o Bar) /\ a \o Bar \in Seq(Char)
        BY <3>2, EndsConcat
    <3>4. filename((a \o Bar) \o b) = f
        BY <2>7, <3>3
    <3>5. QED
        BY <2>1, <3>1, <3>4
  <2>10. CASE ~ (Ends(a) <=> b[1] \in Separator)
    <3>1. join(a, b) = a \o b
        BY <1>2, <2>3, <2>10 DEF join
    <3>2. d = <<>> => Ends(a)
        BY <2>6, <2>10
    <3>3. QED
        BY <2>1, <2>7, <3>1, <3>2
  <2>11. QED
      BY <2>8, <2>9, <2>10
<1>3. QED
    BY <1>1, <1>2

-----------------------------------------------------------------------------
(* The parts of a path *)

LEMMA EmptyOrNot ==
    ASSUME NEW p \in Seq(Char)
    PROVE  Len(p) \in Nat /\ (p = <<>> <=> Len(p) = 0)
    BY EmptySeq

\* A drive and something after it is longer than a drive.
LEMMA DriveOnly ==
    ASSUME LetterAssumption, NEW q \in Seq(Char), HasDrive(q), Len(q) # 2
    PROVE  Len(Collapsed(q)) > 2
<1>1. PICK n \in Nat : n = Len(q) /\ n > 2 /\ q[1] \in Letter /\ q[2] = ":"
  <2>1. Len(q) >= 2 /\ q[1] \in Letter /\ q[2] = ":"
      BY DEF HasDrive
  <2>2. PICK n \in Nat : n = Len(q)
      OBVIOUS
  <2>3. n > 2
      BY <2>1, <2>2
  <2>4. QED
      BY <2>1, <2>2, <2>3
<1>2. 2 \in 0 .. Len(q) /\ 3 \in 0 .. Len(q) /\ 1 \in 1 .. 2 /\ 2 \in 1 .. 2
      /\ 1 \in 1 .. 3 /\ 2 \in 1 .. 3 /\ 3 \in 1 .. 3
    BY <1>1
<1>3. PICK x \in Seq(Char) : x = Prefix(q, 2) /\ Len(x) = 2 /\ x[1] = q[1] /\ x[2] = q[2]
  <2>1. /\ Prefix(q, 2) \in Seq(Char) /\ Len(Prefix(q, 2)) = 2
        /\ \A i \in 1 .. 2 : Prefix(q, 2)[i] = q[i]
      BY <1>2, Halves
  <2>2. QED
      BY ONLY <1>2, <2>1
<1>4. PICK y \in Seq(Char) : /\ y = Prefix(q, 3) /\ Len(y) = 3
                             /\ y[1] = q[1] /\ y[2] = q[2] /\ y[3] = q[3]
  <2>1. /\ Prefix(q, 3) \in Seq(Char) /\ Len(Prefix(q, 3)) = 3
        /\ \A i \in 1 .. 3 : Prefix(q, 3)[i] = q[i]
      BY <1>2, Halves
  <2>2. QED
      BY ONLY <1>2, <2>1
<1>5. PICK z \in Seq(Char) : y \o z = q
  <2>1. Suffix(q, 3 + 1) \in Seq(Char) /\ Prefix(q, 3) \o Suffix(q, 3 + 1) = q
      BY <1>2, Halves
  <2>2. PICK z \in Seq(Char) : z = Suffix(q, 3 + 1)
      BY <2>1
  <2>3. QED
      BY ONLY <1>4, <2>1, <2>2
<1>6. PICK c \in Char : c = q[3]
    BY <1>1
<1>7. y = Append(x, c)
  <2>1. PICK v \in Seq(Char) : v = Append(x, c)
      BY OneMore
  <2>2. Len(v) = 3 /\ v[1] = x[1] /\ v[2] = x[2] /\ v[3] = c
    <3>1. Len(Append(x, c)) = Len(x) + 1 /\ Append(x, c)[Len(x) + 1] = c
          /\ \A k \in 1 .. Len(x) : Append(x, c)[k] = x[k]
        BY OneMore
    <3>2. PICK n2 \in Nat : n2 = Len(x) /\ n2 = 2
        BY ONLY <1>3
    <3>3. Len(v) = n2 + 1 /\ v[n2 + 1] = c /\ \A k \in 1 .. n2 : v[k] = x[k]
        BY ONLY <2>1, <3>1, <3>2
    <3>4. n2 + 1 = 3 /\ 1 \in 1 .. n2 /\ 2 \in 1 .. n2
        BY ONLY <3>2
    <3>5. QED
        BY ONLY <3>3, <3>4
  <2>3. \A k \in 1 .. 3 : k = 1 \/ k = 2 \/ k = 3
      OBVIOUS
  <2>4. \A k \in 1 .. Len(y) : y[k] = v[k]
      BY <1>3, <1>4, <1>6, <2>2, <2>3
  <2>5. y = v
      BY <1>4, <2>2, <2>4, SeqEqual
  <2>6. QED
      BY <2>1, <2>5
<1>8. PICK s \in Seq(Char) : s = Collapsed(x)
    BY CollapsedType
<1>9. Len(s) >= 2
  <2>1. HasDrive(x)
      BY <1>1, <1>3 DEF HasDrive
  <2>2. HasDrive(s)
      BY <1>8, <2>1, CollapsedDrive
  <2>3. QED
      BY <2>2 DEF HasDrive
<1>10. ~ Slashed(s)
  <2>1. ~ Ends(x)
      BY <1>1, <1>3, CharKinds DEF Ends
  <2>2. QED
      BY <1>8, <2>1, CollapsedEnds
<1>11. PICK t \in Seq(Char) : t = Collapsed(y) /\ t = Added(s, c)
  <2>1. Collapsed(y) \in Seq(Char)
      BY CollapsedType
  <2>2. Collapsed(Append(x, c)) = Added(Collapsed(x), c)
      BY CollapsedAppend
  <2>3. QED
      BY <1>7, <1>8, <2>1, <2>2
<1>12. Len(t) = Len(s) + 1
  <2>1. PICK e \in Char : Added(s, c) = Append(s, e)
      BY <1>10, AddedIs, CharFacts
  <2>2. QED
      BY <1>11, <2>1, OneMore
<1>13. Len(t) <= Len(Collapsed(q))
  <2>1. Len(Collapsed(y)) <= Len(Collapsed(y \o z))
      BY CollapsedFront
  <2>2. QED
      BY <1>5, <1>11, <2>1
<1>14. Collapsed(q) \in Seq(Char)
    BY CollapsedType
<1>15. Len(t) \in Nat /\ Len(s) \in Nat /\ Len(Collapsed(q)) \in Nat
    BY <1>14
<1>16. QED
    BY <1>9, <1>12, <1>13, <1>15

\* A separator after a path is lost, except after a drive.
LEMMA LastSeparatorGoes ==
    ASSUME LetterAssumption, NEW q \in Seq(Char), q # <<>>, NEW c \in Separator,
           ~ (Len(q) = 2 /\ HasDrive(q))
    PROVE  normalize(Append(q, c)) = normalize(q)
<1>1. PICK s \in Seq(Char) : s = Collapsed(q)
    BY CollapsedType
<1>2. c \in Char
    BY CharFacts
<1>3. Collapsed(Append(q, c)) = Added(s, c)
    BY <1>1, <1>2, CollapsedAppend
<1>4. CASE Slashed(s)
  <2>1. Added(s, c) = s
      BY <1>4, AddedIs
  <2>2. QED
      BY <1>1, <1>3, <2>1 DEF normalize
<1>5. CASE ~ Slashed(s)
  <2>1. PICK d \in Char : d = "\\"
      BY CharFacts
  <2>2. PICK u \in Seq(Char) : u = Append(s, d) /\ u = Collapsed(Append(q, c))
      BY <1>3, <1>5, <2>1, AddedIs, OneMore
  <2>3. PICK m \in Nat : m = Len(s)
      OBVIOUS
  <2>4. Len(u) = m + 1 /\ u[m + 1] = d /\ \A k \in 1 .. m : u[k] = s[k]
    <3>1. /\ Len(Append(s, d)) = Len(s) + 1 /\ Append(s, d)[Len(s) + 1] = d
          /\ \A k \in 1 .. Len(s) : Append(s, d)[k] = s[k]
        BY OneMore
    <3>2. QED
        BY ONLY <2>2, <2>3, <3>1
  <2>5. m # 0
      BY <1>1, <2>3, CollapsedEnds, EmptyOrNot
  <2>6. ~ (Len(u) = 3 /\ u[1] \in Letter /\ u[2] = ":" /\ u[3] = "\\")
    <3>1. SUFFICES ASSUME m = 2, u[1] \in Letter, u[2] = ":"
                   PROVE  FALSE
        BY <2>4
    <3>2. 1 \in 1 .. m /\ 2 \in 1 .. m
        BY <3>1
    <3>3. s[1] \in Letter /\ s[2] = ":" /\ Len(s) = 2
        BY <2>3, <2>4, <3>1, <3>2
    <3>4. HasDrive(s)
        BY <3>3 DEF HasDrive
    <3>5. HasDrive(q)
        BY <1>1, <3>4, CollapsedDrive
    <3>6. Len(q) # 2
        BY <3>5
    <3>7. Len(s) > 2
        BY <1>1, <3>5, <3>6, DriveOnly
    <3>8. QED
        BY <3>3, <3>7
  <2>7. Trimmed(u) = Prefix(u, Len(u) - 1)
      BY <2>1, <2>4, <2>5, <2>6 DEF Trimmed
  <2>8. Len(u) - 1 = m /\ m \in 0 .. Len(u)
      BY <2>4
  <2>9. PICK v \in Seq(Char) : v = Prefix(u, m) /\ Len(v) = m /\ \A k \in 1 .. m : v[k] = u[k]
    <3>1. /\ Prefix(u, m) \in Seq(Char) /\ Len(Prefix(u, m)) = m
          /\ \A k \in 1 .. m : Prefix(u, m)[k] = u[k]
        BY <2>8, Halves
    <3>2. QED
        BY ONLY <3>1
  <2>10. \A k \in 1 .. Len(v) : v[k] = s[k]
      BY <2>4, <2>9
  <2>11. v = s
      BY <2>3, <2>9, <2>10, SeqEqual
  <2>12. Trimmed(s) = s
      BY <1>5, TrimmedIs
  <2>13. Trimmed(u) = Trimmed(s)
      BY <2>7, <2>8, <2>9, <2>11, <2>12
  <2>14. QED
      BY <1>1, <2>2, <2>13 DEF normalize
<1>6. QED
    BY <1>4, <1>5

\* Where the last separator is, and what is before and after it.
Cut(p, pos, q, c, f) ==
    /\ pos = find_last_of(p, Separator) /\ pos \in 1 .. Len(p)
    /\ q = Prefix(p, pos - 1) /\ Len(q) = pos - 1 /\ \A k \in 1 .. pos - 1 : q[k] = p[k]
    /\ c = p[pos] /\ c \in Separator
    /\ Append(q, c) = Prefix(p, pos) /\ f = filename(p) /\ p = Append(q, c) \o f

LEMMA CutIs ==
    ASSUME NEW p \in Seq(Char), find_last_of(p, Separator) # 0
    PROVE  \E q \in Seq(Char), c \in Char, f \in Seq(Char) :
               Cut(p, find_last_of(p, Separator), q, c, f) /\ Plain(f)
<1>1. PICK n \in Nat : n = Len(p)
    OBVIOUS
<1>2. PICK pos \in 1 .. n : pos = find_last_of(p, Separator) /\ p[pos] \in Separator
    BY <1>1, LastOf
<1>3. PICK c \in Char : c = p[pos]
    BY <1>1
<1>4. PICK m \in Nat : m = pos - 1 /\ m \in 0 .. Len(p)
    BY <1>1
<1>5. PICK q \in Seq(Char) : q = Prefix(p, m) /\ Len(q) = m /\ \A k \in 1 .. m : q[k] = p[k]
    BY <1>4, Halves
<1>6. PICK d \in Seq(Char), f \in Seq(Char) :
          p = d \o f /\ f = filename(p) /\ Plain(f) /\ Len(d) = pos /\ d = Prefix(p, pos)
    BY <1>2, NameOf
<1>7. d = Append(q, c)
  <2>1. PICK v \in Seq(Char) : v = Append(q, c)
      BY OneMore
  <2>2. Len(v) = m + 1 /\ v[m + 1] = c /\ \A k \in 1 .. m : v[k] = q[k]
      BY <1>5, <2>1, OneMore
  <2>3. pos \in 0 .. Len(p) /\ pos = m + 1
      BY <1>1, <1>4
  <2>4. \A k \in 1 .. pos : d[k] = p[k]
      BY <1>6, <2>3, Halves
  <2>5. \A k \in 1 .. pos : k = m + 1 \/ k \in 1 .. m
      BY <2>3
  <2>6. \A k \in 1 .. Len(d) : d[k] = v[k]
      BY <1>3, <1>5, <1>6, <2>2, <2>3, <2>4, <2>5
  <2>7. d = v
      BY <1>6, <2>2, <2>3, <2>6, SeqEqual
  <2>8. QED
      BY <2>1, <2>7
<1>8. Cut(p, pos, q, c, f)
    BY <1>1, <1>2, <1>3, <1>4, <1>5, <1>6, <1>7 DEF Cut
<1>9. QED
    BY <1>2, <1>6, <1>8

\* The parent and the name make the path again.
LEMMA ParentAndName ==
    ASSUME LetterAssumption, NEW p \in Seq(Char)
    PROVE  normalize(join(parent_path(p), filename(p))) = normalize(p)
<1>1. CASE find_last_of(p, Separator) = 0
  <2>1. parent_path(p) = <<>>
      BY <1>1 DEF parent_path
  <2>2. filename(p) = p
    <3>1. PICK d \in Seq(Char), f \in Seq(Char) : p = d \o f /\ f = filename(p) /\ Len(d) = 0
        BY <1>1, NameOf
    <3>2. d = <<>>
        BY <3>1, EmptyOrNot
    <3>3. QED
        BY <3>1, <3>2, ConcatEmptySeq
  <2>3. QED
      BY <2>1, <2>2, JoinEmpty
<1>2. CASE find_last_of(p, Separator) # 0
  <2>1. PICK pos : pos = find_last_of(p, Separator)
      OBVIOUS
  <2>2. PICK q \in Seq(Char), c \in Char, f \in Seq(Char) : Cut(p, pos, q, c, f) /\ Plain(f)
      BY <1>2, <2>1, CutIs
  <2>3. pos \in Nat /\ pos # 0 /\ Len(q) = pos - 1 /\ c \in Separator /\ f = filename(p)
      BY <2>2 DEF Cut
  <2>4. PICK d \in Seq(Char) : d = Append(q, c) /\ d = Prefix(p, pos) /\ p = d \o f
      BY <2>2, OneMore DEF Cut
  <2>5. d # <<>> /\ Ends(d)
    <3>1. Len(d) = Len(q) + 1 /\ d[Len(q) + 1] = c /\ d # <<>>
        BY <2>4, OneMore
    <3>2. QED
        BY <2>3, <3>1 DEF Ends
  <2>6. f = <<>> => d = p
      BY <2>4, ConcatEmptySeq
  <2>7. CASE parent_path(p) = d
    <3>1. CASE f = <<>>
        BY <2>3, <2>6, <2>7, <3>1, JoinEmpty
    <3>2. CASE f # <<>>
      <4>1. f[1] \notin Separator
        <5>1. 1 \in 1 .. Len(f)
            BY <3>2, EmptyOrNot
        <5>2. QED
            BY <2>2, <5>1 DEF Plain
      <4>2. d[Len(d)] \in Separator
          BY <2>5 DEF Ends
      <4>3. join(d, f) = d \o f
          BY <2>5, <3>2, <4>1, <4>2 DEF join
      <4>4. QED
          BY <2>3, <2>4, <2>7, <4>3
    <3>3. QED
        BY <3>1, <3>2
  <2>8. CASE parent_path(p) # d
    <3>1. pos # 1 /\ ~ (pos = 3 /\ p[2] = ":") /\ parent_path(p) = q
      <4>1. parent_path(p) = CASE pos = 0 -> <<>>
                               [] pos = 1 -> Prefix(p, 1)
                               [] pos = 3 /\ p[2] = ":" -> Prefix(p, 3)
                               [] OTHER -> Prefix(p, pos - 1)
          BY <2>1 DEF parent_path
      <4>2. q = Prefix(p, pos - 1)
          BY <2>2 DEF Cut
      <4>3. QED
          BY <2>3, <2>4, <2>8, <4>1, <4>2
    <3>2. q # <<>>
        BY <2>3, <3>1, EmptyOrNot
    <3>3. CASE f = <<>>
      <4>1. ~ (Len(q) = 2 /\ HasDrive(q))
        <5>1. SUFFICES ASSUME Len(q) = 2, HasDrive(q)
                       PROVE  FALSE
            OBVIOUS
        <5>2. pos = 3 /\ q[2] = ":"
          <6>1. q[2] = ":"
              BY <5>1 DEF HasDrive
          <6>2. pos \in Nat /\ pos - 1 = 2
              BY ONLY <2>3, <5>1
          <6>3. QED
              BY ONLY <6>1, <6>2
        <5>3. 2 \in 1 .. pos - 1
            BY <5>2
        <5>4. q[2] = p[2]
            BY <2>2, <5>3 DEF Cut
        <5>5. QED
            BY <3>1, <5>2, <5>4
      <4>2. normalize(Append(q, c)) = normalize(q)
          BY <2>3, <3>2, <4>1, LastSeparatorGoes
      <4>3. QED
          BY <2>3, <2>4, <2>6, <3>1, <3>3, <4>2, JoinEmpty
    <3>4. CASE f # <<>>
      <4>1. Collapsed(join(q, f)) = Collapsed((q \o Bar) \o f)
          BY <3>2, <3>4, JoinCollapsed
      <4>2. PICK y \in Seq(Char) : y = q \o Bar /\ y = Append(q, "\\")
        <5>1. Bar \in Seq(Char) /\ q \o Bar = Append(q, "\\")
            BY BarIs
        <5>2. q \o Bar \in Seq(Char)
            BY <5>1, Concat
        <5>3. QED
            BY <5>1, <5>2
      <4>3. Collapsed(y) = Collapsed(d)
        <5>1. PICK e \in Separator : e = "\\"
            BY CharFacts
        <5>2. Collapsed(Append(q, c)) = Collapsed(Append(q, e))
            BY <2>3, Separators
        <5>3. QED
            BY <2>4, <4>2, <5>1, <5>2
      <4>4. Collapsed(y \o f) = Collapsed(d \o f)
          BY <4>3, SameFront
      <4>5. Collapsed(join(q, f)) = Collapsed(p)
          BY <2>4, <4>1, <4>2, <4>4
      <4>6. QED
          BY <2>3, <3>1, <4>5 DEF normalize
    <3>5. QED
        BY <3>3, <3>4
  <2>9. QED
      BY <2>7, <2>8
<1>3. QED
    BY <1>1, <1>2

\* The stem, a dot and the extension make the name again.
LEMMA StemAndExtension ==
    ASSUME NEW file \in Seq(Char), NEW pos, pos = find_last_of(file, {"."}), pos # 0
    PROVE  /\ pos \in 1 .. Len(file)
           /\ Prefix(file, pos - 1) \in Seq(Char) /\ Suffix(file, pos + 1) \in Seq(Char)
           /\ file = Prefix(file, pos - 1) \o <<".">> \o Suffix(file, pos + 1)
<1>1. PICK n \in Nat : n = Len(file)
    OBVIOUS
<1>2. pos \in 1 .. n /\ file[pos] = "."
    BY <1>1, LastOf
<1>3. PICK m \in Nat : m = pos - 1 /\ m \in 0 .. Len(file) /\ pos = m + 1
    BY <1>1, <1>2
<1>4. PICK a \in Seq(Char) : a = Prefix(file, m) /\ Len(a) = m /\ \A k \in 1 .. m : a[k] = file[k]
    BY <1>3, Halves
<1>5. pos \in 0 .. Len(file)
    BY <1>1, <1>2
<1>6. PICK e \in Seq(Char) : e = Suffix(file, pos + 1)
    BY <1>5, Halves
<1>7. PICK v \in Seq(Char) : v = Prefix(file, pos) /\ Len(v) = pos /\ \A k \in 1 .. pos : v[k] = file[k]
    BY <1>5, Halves
<1>8. v \o e = file
    BY <1>5, <1>6, <1>7, Halves
<1>9. PICK dot \in Char : dot = "."
    BY <1>1, <1>2
<1>10. PICK u \in Seq(Char) : u = Append(a, dot)
    BY OneMore
<1>11. Len(u) = m + 1 /\ u[m + 1] = dot /\ \A k \in 1 .. m : u[k] = a[k]
    BY <1>4, <1>10, OneMore
<1>12. \A k \in 1 .. Len(u) : u[k] = v[k]
  <2>1. \A k \in 1 .. m + 1 : k = m + 1 \/ k \in 1 .. m
      OBVIOUS
  <2>2. QED
      BY <1>2, <1>3, <1>4, <1>7, <1>9, <1>11, <2>1
<1>13. u = v
    BY <1>3, <1>7, <1>11, <1>12, SeqEqual
<1>14. u = a \o <<".">>
    BY <1>9, <1>10, AppendIsConcat
<1>15. QED
    BY <1>1, <1>2, <1>3, <1>4, <1>6, <1>8, <1>13, <1>14

LEMMA PartsHold ==
    ASSUME LetterAssumption, NEW p \in Seq(Char)
    PROVE  PartsMakeWhole(p)
<1>1. PICK d \in Seq(Char), file \in Seq(Char) : file = filename(p)
    BY NameOf
<1>2. PICK pos : pos = find_last_of(file, {"."})
    OBVIOUS
<1>3. CASE pos \in {0, 1}
  <2>1. stem(p) = file /\ extension(p) = <<>>
      BY <1>1, <1>2, <1>3 DEF stem, extension
  <2>2. QED
      BY <1>1, <2>1, ParentAndName DEF PartsMakeWhole
<1>4. CASE pos \notin {0, 1}
  <2>1. stem(p) = Prefix(file, pos - 1) /\ extension(p) = Suffix(file, pos + 1)
      BY <1>1, <1>2, <1>4 DEF stem, extension
  <2>2. file = Prefix(file, pos - 1) \o <<".">> \o Suffix(file, pos + 1)
      BY <1>2, <1>4, StemAndExtension
  <2>3. filename(p) = stem(p) \o <<".">> \o extension(p)
      BY <1>1, <2>1, <2>2
  <2>4. QED
      BY <2>3, ParentAndName DEF PartsMakeWhole
<1>5. QED
    BY <1>3, <1>4

\* The parent of a path is empty or a front of it.
LEMMA ParentIs ==
    ASSUME NEW p \in Seq(Char), NEW pos \in Nat, pos = find_last_of(p, Separator), pos # 0
    PROVE  parent_path(p) = IF pos = 1 THEN Prefix(p, 1)
                            ELSE IF pos = 3 /\ p[2] = ":" THEN Prefix(p, 3)
                            ELSE Prefix(p, pos - 1)
<1>1. parent_path(p) = CASE pos = 0 -> <<>>
                         [] pos = 1 -> Prefix(p, 1)
                         [] pos = 3 /\ p[2] = ":" -> Prefix(p, 3)
                         [] OTHER -> Prefix(p, pos - 1)
    BY DEF parent_path
<1>2. QED
    BY <1>1

LEMMA ParentFront ==
    ASSUME NEW p \in Seq(Char)
    PROVE  \/ find_last_of(p, Separator) = 0 /\ parent_path(p) = <<>>
           \/ \E k \in 0 .. Len(p) : parent_path(p) = Prefix(p, k)
<1>1. PICK n \in Nat : n = Len(p)
    OBVIOUS
<1>2. PICK pos \in 0 .. n : pos = find_last_of(p, Separator)
    BY <1>1, LastOf
<1>3. CASE pos = 0
    BY <1>2, <1>3 DEF parent_path
<1>4. CASE pos # 0
  <2>1. PICK k \in 0 .. n : k = IF pos = 1 THEN 1 ELSE IF pos = 3 /\ p[2] = ":" THEN 3 ELSE pos - 1
      BY <1>4
  <2>2. parent_path(p) = Prefix(p, k)
      BY <1>2, <1>4, <2>1, ParentIs
  <2>3. QED
      BY <1>1, <2>2
<1>5. QED
    BY <1>3, <1>4

LEMMA ParentType ==
    ASSUME NEW p \in Seq(Char)
    PROVE  parent_path(p) \in Seq(Char)
<1>1. <<>> \in Seq(Char)
    OBVIOUS
<1>2. QED
    BY <1>1, ParentFront, Halves

\* A front that is not the whole is shorter; the whole is the path.
LEMMA WholeFront ==
    ASSUME NEW p \in Seq(Char), NEW k \in 0 .. Len(p)
    PROVE  /\ k = Len(p) => Prefix(p, k) = p
           /\ k # Len(p) => Len(Prefix(p, k)) < Len(p)
<1>1. PICK n \in Nat : n = Len(p)
    OBVIOUS
<1>2. PICK a \in Seq(Char) : a = Prefix(p, k) /\ Len(a) = k /\ \A i \in 1 .. k : a[i] = p[i]
    BY Halves
<1>3. k = n => a = p
    BY <1>1, <1>2, SeqEqual
<1>4. k # n => k < n
    BY <1>1
<1>5. QED
    BY <1>1, <1>2, <1>3, <1>4

LEMMA WayUpHolds ==
    ASSUME LetterAssumption, NEW p \in Seq(Char)
    PROVE  WayUpEnds(p)
<1>1. PICK n \in Nat : n = Len(p)
    OBVIOUS
<1>2. PICK pos \in 0 .. n : pos = find_last_of(p, Separator) /\ (pos # 0 => p[pos] \in Separator)
    BY <1>1, LastOf
<1>3. CASE pos = 0
  <2>1. parent_path(p) = <<>>
      BY <1>2, <1>3 DEF parent_path
  <2>2. PICK e \in Seq(Char) : e = <<>> /\ Len(e) = 0
      BY EmptySeq
  <2>3. Len(parent_path(p)) < Len(p) \/ parent_path(p) = p
      BY <1>1, <2>1, <2>2, EmptyOrNot
  <2>4. ~ is_absolute(parent_path(p))
      BY <2>1, <2>2 DEF is_absolute, HasDrive, IsUNC
  <2>5. QED
      BY <1>2, <1>3, <2>1, <2>3, <2>4 DEF WayUpEnds
<1>4. CASE pos # 0
  <2>1. PICK k \in 0 .. n : k = IF pos = 1 THEN 1 ELSE IF pos = 3 /\ p[2] = ":" THEN 3 ELSE pos - 1
      BY <1>4
  <2>2. parent_path(p) = Prefix(p, k)
      BY <1>2, <1>4, <2>1, ParentIs
  <2>3. Len(parent_path(p)) < Len(p) \/ parent_path(p) = p
      BY <1>1, <2>2, WholeFront
  <2>4. ASSUME parent_path(p) = p
        PROVE  p \in {<<s>> : s \in Separator} \/ (Len(p) = 3 /\ p[2] = ":" /\ p[3] \in Separator)
    <3>1. k = n
      <4>1. Len(Prefix(p, k)) = k
          BY <1>1, Halves
      <4>2. QED
          BY <1>1, <2>2, <2>4, <4>1
    <3>2. pos = 1 \/ (pos = 3 /\ p[2] = ":")
        BY <1>4, <2>1, <3>1
    <3>3. CASE pos = 1
      <4>1. Len(p) = 1 /\ p[1] \in Separator
          BY <1>1, <1>2, <1>4, <2>1, <3>1, <3>3
      <4>2. PICK s \in Separator : s = p[1]
          BY <4>1
      <4>3. <<s>> \in Seq(Char) /\ Len(<<s>>) = 1 /\ <<s>>[1] = s
          BY CharFacts
      <4>4. PICK v \in Seq(Char) : v = <<s>> /\ Len(v) = 1 /\ v[1] = s
          BY <4>3
      <4>5. \A i \in 1 .. 1 : i = 1
          OBVIOUS
      <4>6. v = p
          BY <4>1, <4>2, <4>4, <4>5, SeqEqual
      <4>7. p = <<s>>
          BY ONLY <4>4, <4>6
      <4>8. QED
          BY <4>2, <4>7
    <3>4. CASE pos = 3 /\ p[2] = ":"
      <4>1. n = 3
          BY ONLY <2>1, <3>1, <3>4
      <4>2. Len(p) = 3 /\ p[2] = ":" /\ p[3] \in Separator
          BY <1>1, <1>2, <1>4, <3>4, <4>1
      <4>3. QED
          BY ONLY <4>2
    <3>5. QED
        BY <3>2, <3>3, <3>4
  <2>5. ASSUME HasDrive(p), parent_path(p) # <<>>
        PROVE  HasDrive(parent_path(p))
    <3>1. n >= 2 /\ p[1] \in Letter /\ p[2] = ":"
        BY <1>1, <2>5 DEF HasDrive
    <3>2. pos > 2
      <4>1. p[pos] # p[1] /\ p[pos] # p[2]
          BY <1>2, <1>4, <3>1, CharKinds
      <4>2. pos # 1 /\ pos # 2
          BY <4>1
      <4>3. QED
          BY <1>4, <4>2
    <3>3. k >= 2
        BY <2>1, <3>2
    <3>4. Len(Prefix(p, k)) = k /\ \A i \in 1 .. k : Prefix(p, k)[i] = p[i]
        BY <1>1, Halves
    <3>5. 1 \in 1 .. k /\ 2 \in 1 .. k
        BY <3>3
    <3>6. QED
        BY <2>2, <3>1, <3>3, <3>4, <3>5 DEF HasDrive
  <2>6. ASSUME is_absolute(p)
        PROVE  ~ is_absolute(parent_path(p)) <=> NamesServer(p)
    <3>1. CASE HasDrive(p)
      <4>1. p[1] \in Letter /\ Len(p) >= 2 /\ p[2] = ":"
          BY <3>1 DEF HasDrive
      <4>2. p[1] \notin Separator
          BY <4>1, CharKinds
      <4>3. p[pos] # p[1] /\ p[pos] # p[2]
          BY <1>2, <1>4, <4>1, CharKinds
      <4>4. pos # 1 /\ pos # 2
          BY <4>3
      <4>5. ~ NamesServer(p)
          BY <4>2 DEF NamesServer, IsUNC
      <4>6. k >= 2
          BY <1>4, <2>1, <4>4
      <4>7. Len(Prefix(p, k)) = k
          BY <1>1, Halves
      <4>8. parent_path(p) # <<>>
        <5>1. PICK e \in Seq(Char) : e = <<>> /\ Len(e) = 0
            BY EmptySeq
        <5>2. QED
            BY <2>2, <4>6, <4>7, <5>1
      <4>9. HasDrive(parent_path(p))
          BY <2>5, <3>1, <4>8
      <4>10. QED
          BY <4>5, <4>9 DEF is_absolute
    <3>2. CASE ~ HasDrive(p)
      <4>1. IsUNC(p)
          BY <2>6, <3>2 DEF is_absolute
      <4>2. n >= 2 /\ p[1] \in Separator /\ p[2] \in Separator
          BY <1>1, <4>1 DEF IsUNC
      <4>3. pos >= 2
          BY <1>1, <1>2, <4>2, LastOf
      <4>4. p[2] # ":"
          BY <4>2, CharKinds
      <4>5. k = pos - 1
          BY <2>1, <4>3, <4>4
      <4>6. Len(Prefix(p, k)) = k /\ \A i \in 1 .. k : Prefix(p, k)[i] = p[i]
          BY <1>1, Halves
      <4>7. CASE pos = 2
        <5>1. NamesServer(p)
            BY <1>2, <4>1, <4>7 DEF NamesServer
        <5>2. Len(parent_path(p)) = 1
            BY <2>2, <4>5, <4>6, <4>7
        <5>3. QED
            BY <5>1, <5>2 DEF is_absolute, HasDrive, IsUNC
      <4>8. CASE pos # 2
        <5>1. ~ NamesServer(p)
            BY <1>2, <4>8 DEF NamesServer
        <5>2. 1 \in 1 .. k /\ 2 \in 1 .. k /\ k >= 2
            BY <4>3, <4>5, <4>8
        <5>3. IsUNC(parent_path(p))
            BY <2>2, <4>2, <4>6, <5>2 DEF IsUNC
        <5>4. QED
            BY <5>1, <5>3 DEF is_absolute
      <4>9. QED
          BY <4>7, <4>8
    <3>3. QED
        BY <3>1, <3>2
  <2>7. QED
      BY <1>2, <1>4, <2>3, <2>4, <2>5, <2>6 DEF WayUpEnds
<1>5. QED
    BY <1>3, <1>4

-----------------------------------------------------------------------------
(* Every path that the functions make is a sequence of characters *)

LEMMA TextsType == \A n \in Nat : Texts(n) \subseteq Seq(Char)
<1> SUFFICES ASSUME NEW n \in Nat, NEW x \in Texts(n)
             PROVE  x \in Seq(Char)
    OBVIOUS
<1>1. PICK k \in 0 .. n : x \in [1 .. k -> Char]
    BY DEF Texts
<1>2. QED
    BY <1>1, IsASeq

LEMMA NameType ==
    ASSUME NEW p \in Seq(Char)
    PROVE  filename(p) \in Seq(Char) /\ stem(p) \in Seq(Char) /\ extension(p) \in Seq(Char)
<1>1. PICK file \in Seq(Char) : file = filename(p)
    BY NameOf
<1>2. PICK pos : pos = find_last_of(file, {"."})
    OBVIOUS
<1>3. CASE pos \in {0, 1}
  <2>1. <<>> \in Seq(Char)
      OBVIOUS
  <2>2. stem(p) = file /\ extension(p) = <<>>
      BY <1>1, <1>2, <1>3 DEF stem, extension
  <2>3. QED
      BY <1>1, <2>1, <2>2
<1>4. CASE pos \notin {0, 1}
  <2>1. stem(p) = Prefix(file, pos - 1) /\ extension(p) = Suffix(file, pos + 1)
      BY <1>1, <1>2, <1>4 DEF stem, extension
  <2>2. QED
      BY <1>1, <1>2, <1>4, <2>1, StemAndExtension
<1>5. QED
    BY <1>3, <1>4

LEMMA MadeType ==
    ASSUME text \in Seq(Char), MakeText
    PROVE  text' \in Seq(Char)
<1>1. text' \in Made
    BY DEF MakeText
<1>2. normalize(text) \in Seq(Char)
    BY NormalizedIs
<1>3. parent_path(text) \in Seq(Char)
    BY ParentType
<1>4. filename(text) \in Seq(Char) /\ stem(text) \in Seq(Char) /\ extension(text) \in Seq(Char)
    BY NameType
<1>5. \A b \in Texts(2) : b \in Seq(Char) /\ join(text, b) \in Seq(Char)
    BY TextsType, JoinType
<1>6. QED
    BY <1>1, <1>2, <1>3, <1>4, <1>5 DEF Made

LEMMA JoinsHold ==
    ASSUME NEW a \in Seq(Char), NEW b \in Seq(Char), NEW c \in Seq(Char)
    PROVE  JoinsAgree(a, b, c)
<1>1. normalize(join(join(a, b), c)) = normalize(join(a, join(b, c)))
    BY JoinInAnyOrder
<1>2. b # <<>> => filename(join(a, b)) = filename(b)
    BY JoinName
<1>3. QED
    BY <1>1, <1>2 DEF JoinsAgree

LEMMA PathLawsHold ==
    ASSUME LetterAssumption, text \in Seq(Char)
    PROVE  PathLaws
<1>1. NormalForm(text)
    BY NormalFormHolds
<1>2. PartsMakeWhole(text)
    BY PartsHold
<1>3. WayUpEnds(text)
    BY WayUpHolds
<1>4. \A b, c \in Texts(2) : JoinsAgree(text, b, c)
    BY TextsType, JoinsHold
<1>5. QED
    BY <1>1, <1>2, <1>3, <1>4 DEF PathLaws

-----------------------------------------------------------------------------

TextOK == text \in Seq(Char)

LEMMA TextHolds == AllSpec => []TextOK
<1>1. AllInit => TextOK
    BY DEF AllInit, TextInit, TextOK
<1>2. TextOK /\ [AllNext]_AllVars => TextOK'
  <2>1. TextOK /\ MakeText => TextOK'
      BY MadeType DEF TextOK
  <2>2. TextOK /\ UNCHANGED text => TextOK'
      BY DEF TextOK
  <2>3. QED
      BY <2>1, <2>2 DEF AllNext, AllVars
<1>3. QED
    BY <1>1, <1>2, PTL DEF AllSpec

\* What the functions on paths promise together, of paths of any length made by
\* them: normalize gives a normal form, absolute exactly if there is a drive; the
\* parts of a path make it again; going up ends, keeps the drive, and leaves what is
\* absolute only from "C:foo" and from \\server; and joining any two paths more
\* does not depend on the order.
THEOREM PathsLawful ==
    AllSpec => [](PathLaws /\ \A b, c \in Seq(Char) : JoinsAgree(text, b, c))
<1> DEFINE AnyJoin == \A b, c \in Seq(Char) : JoinsAgree(text, b, c)
<1>1. TextOK => PathLaws
    BY LetterAssumption, PathLawsHold DEF TextOK
<1>2. TextOK => AnyJoin
    BY JoinsHold DEF TextOK
<1> HIDE DEF AnyJoin
<1>3. AllSpec => [](PathLaws /\ AnyJoin)
    BY <1>1, <1>2, TextHolds, PTL
<1>4. QED
    BY <1>3 DEF AnyJoin
=============================================================================
