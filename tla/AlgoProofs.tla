------------------------------ MODULE AlgoProofs ------------------------------
(***************************************************************************)
(* Machine-checked proofs about Buffer and Algo: what the views over one   *)
(* storage keep true of it, and that every generation of the algorithms    *)
(* pushes what the reference says, for all elements, functions, filters,   *)
(* storage, slices and lists of operations.                                *)
(*                                                                         *)
(* The sections: functions defined by recursion over 0 .. n exist and are  *)
(* unique, by induction in the form of a set closed under successors; Each *)
(* and Passes as equations, and Fusion, which says that one pass through   *)
(* all operations makes what a pass for each of them makes; PushesOf, the  *)
(* state after a list of pushes, eager or up to the first failure; the     *)
(* loop, which by induction over the elements reached is PushesOf what     *)
(* they emit, as long as none is overwritten before its turn; the runs, in *)
(* each generation; and the inductive invariant BufferInd, with a lemma    *)
(* for each operation.                                                     *)
(***************************************************************************)
EXTENDS Algo, SequenceTheorems, TLAPS, WellFoundedInduction

-----------------------------------------------------------------------------
(* Recursion over numbers *)

\* A set with 0 and every successor has all numbers.
LEMMA NatSetInduction ==
    ASSUME NEW T, 0 \in T, \A m \in Nat : m \in T => m + 1 \in T
    PROVE  Nat \subseteq T
<1> DEFINE R == OpToRel(<, Nat)
           U == Nat \ T
<1>1. IsWellFoundedOn(R, Nat)
    BY NatLessThanWellFounded
<1>2. \A x, y \in Nat : y < x => <<y, x>> \in R
    BY DEF OpToRel
<1>3. SUFFICES ASSUME U # {}
               PROVE  FALSE
    OBVIOUS
<1>4. U \subseteq Nat
    OBVIOUS
<1> HIDE DEF R
<1>5. PICK x \in U : \A y \in U : ~ (<<y, x>> \in R)
  <2> HIDE DEF U
  <2> QED
      BY <1>1, <1>3, <1>4, WFMin
<1>6. x \in Nat /\ x # 0
    BY <1>5
<1>7. x - 1 \in Nat /\ x - 1 < x
    BY <1>6
<1>8. <<x - 1, x>> \in R
    BY <1>2, <1>6, <1>7
<1>9. x - 1 \notin U
    BY <1>5, <1>8
<1>10. (x - 1) + 1 \in T
    BY <1>7, <1>9
<1>11. QED
    BY <1>5, <1>6, <1>10

\* h is defined by recursion on 0 .. n, from base and by step, which stays in D.
Recursive(h, D, base, n, step) ==
    h \in [0 .. n -> D] /\ h[0] = base /\ \A k \in 1 .. n : h[k] = step[<<k, h[k - 1]>>]
StaysIn(step, D, n) == \A k \in 1 .. n : \A d \in D : step[<<k, d>>] \in D

\* A function over 0 .. n that is defined by recursion exists.
LEMMA RecursionExists ==
    ASSUME NEW D, NEW base \in D, NEW n \in Nat, NEW step, StaysIn(step, D, n)
    PROVE  \E h : Recursive(h, D, base, n, step)
<1> DEFINE Is(h, m) == /\ h[0] = base
                       /\ \A k \in 1 .. m : h[k] = step[<<k, h[k - 1]>>]
           T == {m \in Nat : m <= n => \E h \in [0 .. m -> D] : Is(h, m)}
<1>1. 0 \in T
  <2>1. PICK h : h = [k \in 0 .. 0 |-> base]
      OBVIOUS
  <2>2. h \in [0 .. 0 -> D] /\ Is(h, 0)
      BY <2>1
  <2>3. QED
      BY <2>2
<1>2. ASSUME NEW m \in Nat, m \in T
      PROVE  m + 1 \in T
  <2>1. SUFFICES ASSUME m + 1 <= n
                 PROVE  \E h \in [0 .. m + 1 -> D] : Is(h, m + 1)
      OBVIOUS
  <2>2. PICK f \in [0 .. m -> D] : Is(f, m)
      BY <1>2, <2>1
  <2>3. PICK d \in D : d = step[<<m + 1, f[m]>>]
    <3>1. m + 1 \in 1 .. n /\ f[m] \in D
        BY <2>1
    <3>2. QED
        BY <3>1 DEF StaysIn
  <2>4. PICK h : h = [k \in 0 .. m + 1 |-> IF k = m + 1 THEN d ELSE f[k]]
      OBVIOUS
  <2>5. h \in [0 .. m + 1 -> D] /\ h[m + 1] = d /\ \A k \in 0 .. m : h[k] = f[k]
      BY <2>4
  <2>6. h[0] = base
      BY <2>2, <2>5
  <2>7. \A k \in 1 .. m + 1 : h[k] = step[<<k, h[k - 1]>>]
    <3>1. SUFFICES ASSUME NEW k \in 1 .. m + 1
                   PROVE  h[k] = step[<<k, h[k - 1]>>]
        OBVIOUS
    <3>2. k - 1 \in 0 .. m /\ h[k - 1] = f[k - 1]
        BY <2>5
    <3>3. CASE k = m + 1
        BY <2>3, <2>5, <3>2, <3>3
    <3>4. CASE k \in 1 .. m
        BY <2>2, <2>5, <3>2, <3>4
    <3>5. QED
        BY <3>3, <3>4
  <2>8. QED
      BY <2>5, <2>6, <2>7
<1> HIDE DEF T
<1>3. n \in T
    BY <1>1, <1>2, NatSetInduction
<1>4. PICK h \in [0 .. n -> D] : Is(h, n)
    BY <1>3 DEF T
<1>5. QED
    BY <1>4 DEF Recursive

\* What satisfies the equations of such a function is that function.
InStep(g, h, n) ==
    g[0] = h[0] /\ \A k \in 0 .. n : k < n /\ g[k] = h[k] => g[k + 1] = h[k + 1]

LEMMA SameRecursion ==
    ASSUME NEW n \in Nat, NEW g, NEW h, InStep(g, h, n)
    PROVE  \A k \in 0 .. n : g[k] = h[k]
<1>a. g[0] = h[0] /\ \A k \in 0 .. n : k < n /\ g[k] = h[k] => g[k + 1] = h[k + 1]
    BY DEF InStep
<1> DEFINE S == {k \in Nat : k <= n => g[k] = h[k]}
<1>1. 0 \in S
    BY <1>a
<1>2. ASSUME NEW k \in Nat, k \in S
      PROVE  k + 1 \in S
  <2>1. SUFFICES ASSUME k + 1 <= n
                 PROVE  g[k + 1] = h[k + 1]
      OBVIOUS
  <2>2. g[k] = h[k] /\ k \in 0 .. n /\ k < n
      BY <1>2, <2>1
  <2>3. QED
      BY <1>a, <2>2
<1> HIDE DEF S
<1>3. Nat \subseteq S
    BY <1>1, <1>2, NatSetInduction
<1>4. QED
    BY <1>3 DEF S

-----------------------------------------------------------------------------
(* What becomes of the elements of a list *)

\* ys[k] is what emit makes of the first k elements, and ys[n] of all.
EachBy(ys, emit, xs, n, B) ==
    /\ ys \in [0 .. n -> Seq(B)]
    /\ ys[0] = <<>>
    /\ \A k \in 1 .. n : ys[k] = ys[k - 1] \o emit[xs[k]]
    /\ Each(emit, xs) = ys[n]

\* Each satisfies its recursive definition.
LEMMA EachIs ==
    ASSUME NEW A, NEW B, NEW emit \in [A -> Seq(B)], NEW xs \in Seq(A)
    PROVE  \E ys : EachBy(ys, emit, xs, Len(xs), B)
<1>0. PICK n \in Nat : n = Len(xs)
    OBVIOUS
<1>1. PICK step : step = [p \in (1 .. n) \X Seq(B) |-> p[2] \o emit[xs[p[1]]]]
    OBVIOUS
<1>2. \A k \in 1 .. n : emit[xs[k]] \in Seq(B)
  <2>1. \A k \in 1 .. n : xs[k] \in A
      BY <1>0
  <2>2. QED
      BY <2>1
<1>3. \A k \in 1 .. n : \A d \in Seq(B) : step[<<k, d>>] = d \o emit[xs[k]]
    BY <1>1
<1>4. \A u, v \in Seq(B) : u \o v \in Seq(B)
    OBVIOUS
<1>5. \A k \in 1 .. n : \A d \in Seq(B) : step[<<k, d>>] \in Seq(B)
    BY <1>2, <1>3, <1>4
<1>6. PICK D : D = Seq(B)
    OBVIOUS
<1>a. PICK e : e = <<>>
    OBVIOUS
<1>b. e \in D
    BY <1>6, <1>a
<1>c. StaysIn(step, D, n)
    BY <1>5, <1>6 DEF StaysIn
<1>d. n \in Nat
    OBVIOUS
<1>e. \E h : Recursive(h, D, e, n, step)
    BY <1>b, <1>c, RecursionExists
<1>7. PICK h \in [0 .. n -> Seq(B)] : h[0] = e /\ \A k \in 1 .. n : h[k] = step[<<k, h[k - 1]>>]
    BY <1>e, <1>6 DEF Recursive
<1>8. h[0] = <<>> /\ \A k \in 1 .. n : h[k] = step[<<k, h[k - 1]>>]
    BY <1>7, <1>a
<1>9. \A k \in 1 .. n : h[k - 1] \in Seq(B)
  <2>1. \A k \in 1 .. n : k - 1 \in 0 .. n
      OBVIOUS
  <2>2. QED
      BY <2>1
<1>10. \A k \in 1 .. n : h[k] = h[k - 1] \o emit[xs[k]]
    BY <1>3, <1>8, <1>9
<1> DEFINE Rec(f) == f = [k \in 0 .. Len(xs) |-> IF k = 0 THEN <<>> ELSE f[k - 1] \o emit[xs[k]]]
           g == CHOOSE f : Rec(f)
<1>11. Each(emit, xs) = g[Len(xs)]
    BY DEF Each
<1>12. Rec(h)
  <2>1. h = [k \in 0 .. n |-> h[k]]
      OBVIOUS
  <2>2. \A k \in 0 .. n : h[k] = IF k = 0 THEN <<>> ELSE h[k - 1] \o emit[xs[k]]
    <3>1. \A k \in 0 .. n : k = 0 \/ k \in 1 .. n
        OBVIOUS
    <3>2. \A k \in 1 .. n : k # 0
        OBVIOUS
    <3>3. QED
        BY <1>8, <1>10, <3>1, <3>2
  <2>3. h = [k \in 0 .. n |-> IF k = 0 THEN <<>> ELSE h[k - 1] \o emit[xs[k]]]
      BY <2>1, <2>2
  <2>4. QED
      BY <1>0, <2>3
<1> HIDE DEF Rec
<1>13. Rec(g)
    BY <1>12
<1> HIDE DEF g
<1>14. g[0] = <<>> /\ \A k \in 1 .. n : g[k] = g[k - 1] \o emit[xs[k]]
  <2>1. g = [k \in 0 .. n |-> IF k = 0 THEN <<>> ELSE g[k - 1] \o emit[xs[k]]]
      BY <1>0, <1>13 DEF Rec
  <2>2. 0 \in 0 .. n /\ \A k \in 1 .. n : k \in 0 .. n /\ k # 0
      OBVIOUS
  <2>3. QED
      BY <2>1, <2>2
<1>15. ASSUME NEW k \in 0 .. n, k < n, g[k] = h[k]
       PROVE  g[k + 1] = h[k + 1]
  <2>1. k + 1 \in 1 .. n /\ (k + 1) - 1 = k
      BY <1>15
  <2>2. QED
      BY <1>10, <1>14, <1>15, <2>1
<1>16. g[0] = h[0]
    BY <1>8, <1>14
<1>17. \A k \in 0 .. n : k < n /\ g[k] = h[k] => g[k + 1] = h[k + 1]
    BY <1>15
<1>18. \A k \in 0 .. n : g[k] = h[k]
  <2>1. InStep(g, h, n) /\ n \in Nat
      BY ONLY <1>d, <1>16, <1>17 DEF InStep
  <2>2. QED
      BY ONLY <2>1, SameRecursion
<1>19. g[n] = h[n]
    BY <1>18
<1>20. EachBy(h, emit, xs, n, B)
    BY <1>0, <1>8, <1>10, <1>11, <1>19 DEF EachBy
<1>21. QED
    BY <1>0, <1>20

\* What holds of the empty sequence, and of a longer one if of a shorter, holds of all.
LEMMA SeqSetInduction ==
    ASSUME NEW A, NEW T, <<>> \in T, \A xs \in Seq(A) : \A x \in A : xs \in T => Append(xs, x) \in T
    PROVE  Seq(A) \subseteq T
<1> DEFINE S == {n \in Nat : \A xs \in Seq(A) : Len(xs) = n => xs \in T}
<1>1. 0 \in S
  <2>1. \A xs \in Seq(A) : Len(xs) = 0 => xs = <<>>
      OBVIOUS
  <2>2. QED
      BY <2>1
<1>2. ASSUME NEW n \in Nat, n \in S
      PROVE  n + 1 \in S
  <2>1. SUFFICES ASSUME NEW xs \in Seq(A), Len(xs) = n + 1
                 PROVE  xs \in T
      OBVIOUS
  <2>2. PICK ys : ys = SubSeq(xs, 1, n)
      OBVIOUS
  <2>3. ys \in Seq(A) /\ Len(ys) = n /\ xs[n + 1] \in A
      BY <2>1, <2>2
  <2>4. xs = Append(ys, xs[n + 1])
      BY <2>1, <2>2
  <2>5. ys \in T
      BY <1>2, <2>3
  <2>6. QED
      BY <2>3, <2>4, <2>5
<1> HIDE DEF S
<1>3. Nat \subseteq S
    BY <1>1, <1>2, NatSetInduction
<1>4. QED
    BY <1>3 DEF S

LEMMA EachType ==
    ASSUME NEW A, NEW B, NEW emit \in [A -> Seq(B)], NEW xs \in Seq(A)
    PROVE  Each(emit, xs) \in Seq(B)
<1>1. PICK ys : EachBy(ys, emit, xs, Len(xs), B)
    BY EachIs
<1>2. PICK n \in Nat : n = Len(xs)
    OBVIOUS
<1>3. n \in 0 .. n
    OBVIOUS
<1>4. QED
    BY <1>1, <1>2, <1>3 DEF EachBy

LEMMA EachEmpty ==
    ASSUME NEW A, NEW B, NEW emit \in [A -> Seq(B)]
    PROVE  Each(emit, <<>>) = <<>>
<1>1. PICK xs : xs = <<>>
    OBVIOUS
<1>2. xs \in Seq(A) /\ Len(xs) = 0
    BY <1>1
<1>3. PICK ys : EachBy(ys, emit, xs, Len(xs), B)
    BY <1>2, EachIs
<1>4. QED
    BY <1>1, <1>2, <1>3 DEF EachBy

\* One more element: what it becomes is added at the end.
LEMMA EachAppend ==
    ASSUME NEW A, NEW B, NEW emit \in [A -> Seq(B)], NEW xs \in Seq(A), NEW x \in A
    PROVE  Each(emit, Append(xs, x)) = Each(emit, xs) \o emit[x]
<1>1. PICK n \in Nat : n = Len(xs)
    OBVIOUS
<1>2. PICK zs : zs = Append(xs, x)
    OBVIOUS
<1>3. zs \in Seq(A) /\ n + 1 = Len(zs) /\ n + 1 \in Nat /\ zs[n + 1] = x
      /\ \A k \in 1 .. n : zs[k] = xs[k]
    BY <1>1, <1>2
<1>a. PICK us : EachBy(us, emit, xs, Len(xs), B)
    BY EachIs
<1>b. PICK vs : EachBy(vs, emit, zs, Len(zs), B)
    BY <1>3, EachIs
<1>4. PICK ys \in [0 .. n -> Seq(B)] :
               /\ ys[0] = <<>>
               /\ \A k \in 1 .. n : ys[k] = ys[k - 1] \o emit[xs[k]]
               /\ Each(emit, xs) = ys[n]
    BY <1>1, <1>a DEF EachBy
<1>5. PICK ws \in [0 .. n + 1 -> Seq(B)] :
               /\ ws[0] = <<>>
               /\ \A k \in 1 .. n + 1 : ws[k] = ws[k - 1] \o emit[zs[k]]
               /\ Each(emit, zs) = ws[n + 1]
    BY <1>3, <1>b DEF EachBy
<1>6. ASSUME NEW k \in 0 .. n, k < n, ys[k] = ws[k]
      PROVE  ys[k + 1] = ws[k + 1]
  <2>1. k + 1 \in 1 .. n /\ k + 1 \in 1 .. n + 1 /\ (k + 1) - 1 = k
      BY <1>6
  <2>2. zs[k + 1] = xs[k + 1]
      BY <1>3, <2>1
  <2>3. QED
      BY <1>4, <1>5, <1>6, <2>1, <2>2
<1>7. \A k \in 0 .. n : k < n /\ ys[k] = ws[k] => ys[k + 1] = ws[k + 1]
    BY <1>6
<1>8. n \in Nat /\ ys[0] = ws[0]
    BY <1>4, <1>5
<1>9. \A k \in 0 .. n : ys[k] = ws[k]
  <2>1. PICK g, h : g = ys /\ h = ws
      OBVIOUS
  <2>2. InStep(g, h, n) /\ n \in Nat
      BY ONLY <1>7, <1>8, <2>1 DEF InStep
  <2>3. \A k \in 0 .. n : g[k] = h[k]
      BY ONLY <2>2, SameRecursion
  <2>4. QED
      BY ONLY <2>1, <2>3
<1>10. n \in 0 .. n /\ n + 1 \in 1 .. n + 1 /\ (n + 1) - 1 = n
    OBVIOUS
<1>11. ws[n + 1] = ws[n] \o emit[x]
    BY <1>3, <1>5, <1>10
<1>12. QED
    BY <1>2, <1>4, <1>5, <1>9, <1>10, <1>11

LEMMA EachOne ==
    ASSUME NEW A, NEW B, NEW emit \in [A -> Seq(B)], NEW x \in A
    PROVE  Each(emit, <<x>>) = emit[x]
<1>1. PICK e : e = <<>>
    OBVIOUS
<1>2. e \in Seq(A) /\ Append(e, x) = <<x>>
    BY <1>1
<1>3. Each(emit, Append(e, x)) = Each(emit, e) \o emit[x]
    BY <1>2, EachAppend
<1>4. Each(emit, e) = <<>>
    BY <1>1, EachEmpty
<1>5. emit[x] \in Seq(B) /\ \A s \in Seq(B) : <<>> \o s = s
    OBVIOUS
<1>6. QED
    BY <1>2, <1>3, <1>4, <1>5

Splits(emit, A) == \A xs, ys \in Seq(A) : Each(emit, xs \o ys) = Each(emit, xs) \o Each(emit, ys)

\* What becomes of two lists, one after the other.
LEMMA EachConcat ==
    ASSUME NEW A, NEW B, NEW emit \in [A -> Seq(B)]
    PROVE  Splits(emit, A)
<1> SUFFICES ASSUME NEW xs \in Seq(A)
             PROVE  \A ys \in Seq(A) : Each(emit, xs \o ys) = Each(emit, xs) \o Each(emit, ys)
    BY DEF Splits
<1> DEFINE T == {zs \in Seq(A) : Each(emit, xs \o zs) = Each(emit, xs) \o Each(emit, zs)}
<1>1. <<>> \in T
  <2>1. PICK e : e = <<>>
      OBVIOUS
  <2>2. e \in Seq(A) /\ xs \o e = xs
      BY <2>1
  <2>3. Each(emit, e) = <<>>
      BY <2>1, EachEmpty
  <2>4. PICK u \in Seq(B) : u = Each(emit, xs)
      BY EachType
  <2>5. u \o <<>> = u
      OBVIOUS
  <2>6. QED
      BY <2>1, <2>2, <2>3, <2>4, <2>5
<1>2. ASSUME NEW zs \in Seq(A), NEW z \in A, zs \in T
      PROVE  Append(zs, z) \in T
  <2>1. Append(zs, z) \in Seq(A) /\ xs \o zs \in Seq(A) /\ xs \o Append(zs, z) = Append(xs \o zs, z)
      OBVIOUS
  <2>2. Each(emit, Append(xs \o zs, z)) = Each(emit, xs \o zs) \o emit[z]
      BY <2>1, EachAppend
  <2>3. Each(emit, Append(zs, z)) = Each(emit, zs) \o emit[z]
      BY EachAppend
  <2>4. Each(emit, xs) \in Seq(B) /\ Each(emit, zs) \in Seq(B) /\ emit[z] \in Seq(B)
      BY EachType
  <2>a. PICK u \in Seq(B) : u = Each(emit, xs)
      BY <2>4
  <2>b. PICK v \in Seq(B) : v = Each(emit, zs)
      BY <2>4
  <2>c. PICK w \in Seq(B) : w = emit[z]
      BY <2>4
  <2>5. (u \o v) \o w = u \o (v \o w)
      OBVIOUS
  <2>6. Each(emit, xs \o zs) = Each(emit, xs) \o Each(emit, zs)
      BY <1>2
  <2> HIDE DEF T
  <2>7. Each(emit, xs \o Append(zs, z)) = Each(emit, xs) \o Each(emit, Append(zs, z))
      BY <2>1, <2>2, <2>3, <2>a, <2>b, <2>c, <2>5, <2>6
  <2>8. QED
      BY <2>1, <2>7 DEF T
<1> HIDE DEF T
<1>3. \A zs \in Seq(A) : \A z \in A : zs \in T => Append(zs, z) \in T
    BY <1>2
<1>4. Seq(A) \subseteq T
    BY <1>1, <1>3, SeqSetInduction
<1>5. QED
    BY <1>4 DEF T

\* One function after the other, or both at once for each element.
Composed(both, g, h, A) == both = [x \in A |-> Each(h, g[x])]
Composes(both, g, h, A) == \A xs \in Seq(A) : Each(h, Each(g, xs)) = Each(both, xs)

\* Two passes are one pass of the composition.
LEMMA EachEach ==
    ASSUME NEW A, NEW g \in [A -> Seq(A)], NEW h \in [A -> Seq(A)],
           NEW both, Composed(both, g, h, A)
    PROVE  Composes(both, g, h, A)
<1> SUFFICES ASSUME NEW xs \in Seq(A)
             PROVE  Each(h, Each(g, xs)) = Each(both, xs)
    BY DEF Composes
<1>1. both \in [A -> Seq(A)] /\ \A x \in A : both[x] = Each(h, g[x])
  <2>1. \A x \in A : g[x] \in Seq(A)
      OBVIOUS
  <2>2. \A x \in A : Each(h, g[x]) \in Seq(A)
      BY <2>1, EachType
  <2>3. QED
      BY <2>2 DEF Composed
<1> DEFINE T == {zs \in Seq(A) : Each(h, Each(g, zs)) = Each(both, zs)}
<1>2. <<>> \in T
  <2>1. <<>> \in Seq(A) /\ Each(g, <<>>) = <<>> /\ Each(h, <<>>) = <<>>
      BY EachEmpty
  <2>2. Each(both, <<>>) = <<>>
      BY <1>1, EachEmpty
  <2>3. QED
      BY <2>1, <2>2
<1>3. ASSUME NEW zs \in Seq(A), NEW z \in A, zs \in T
      PROVE  Append(zs, z) \in T
  <2>1. Append(zs, z) \in Seq(A) /\ g[z] \in Seq(A)
      OBVIOUS
  <2>2. Each(g, Append(zs, z)) = Each(g, zs) \o g[z] /\ Each(g, zs) \in Seq(A)
      BY EachAppend, EachType
  <2>3. Each(h, Each(g, zs) \o g[z]) = Each(h, Each(g, zs)) \o Each(h, g[z])
    <3>1. h \in [A -> Seq(A)]
        OBVIOUS
    <3>2. \A us, vs \in Seq(A) : Each(h, us \o vs) = Each(h, us) \o Each(h, vs)
      <4>1. Splits(h, A)
          BY ONLY <3>1, EachConcat
      <4>2. QED
          BY ONLY <4>1 DEF Splits
    <3>3. QED
        BY ONLY <2>1, <2>2, <3>2
  <2>e. zs \in Seq(A) /\ z \in A /\ both \in [A -> Seq(A)]
      BY <1>1
  <2>4. Each(both, Append(zs, z)) = Each(both, zs) \o both[z]
      BY ONLY <2>e, EachAppend
  <2>5. QED
      BY <1>1, <1>3, <2>1, <2>2, <2>3, <2>4
<1> HIDE DEF T
<1>4. \A zs \in Seq(A) : \A z \in A : zs \in T => Append(zs, z) \in T
    BY <1>3
<1>5. Seq(A) \subseteq T
    BY <1>2, <1>4, SeqSetInduction
<1>6. QED
    BY <1>5 DEF T

\* A pass that keeps every element changes nothing.
LEMMA EachSelf ==
    ASSUME NEW A, NEW id, id = [x \in A |-> <<x>>], NEW xs \in Seq(A)
    PROVE  Each(id, xs) = xs
<1>1. id \in [A -> Seq(A)] /\ \A x \in A : id[x] = <<x>>
    OBVIOUS
<1> DEFINE T == {zs \in Seq(A) : Each(id, zs) = zs}
<1>a. id \in [A -> Seq(A)]
    BY <1>1
<1>b. Each(id, <<>>) = <<>>
    BY ONLY <1>a, EachEmpty
<1>2. <<>> \in T
    BY <1>b
<1>3. ASSUME NEW zs \in Seq(A), NEW z \in A, zs \in T
      PROVE  Append(zs, z) \in T
  <2>1. Append(zs, z) \in Seq(A) /\ zs \o <<z>> = Append(zs, z)
      OBVIOUS
  <2>a. zs \in Seq(A) /\ z \in A
      OBVIOUS
  <2>2. Each(id, Append(zs, z)) = Each(id, zs) \o id[z]
      BY ONLY <1>a, <2>a, EachAppend
  <2>3. QED
      BY <1>1, <1>3, <2>1, <2>2
<1> HIDE DEF T
<1>4. \A zs \in Seq(A) : \A z \in A : zs \in T => Append(zs, z) \in T
    BY <1>3
<1>5. Seq(A) \subseteq T
    BY <1>2, <1>4, SeqSetInduction
<1>6. QED
    BY <1>5 DEF T

\* Where each element becomes one at most, there are no more than there were.
LEMMA EachLength ==
    ASSUME NEW A, NEW B, NEW emit \in [A -> Seq(B)], \A x \in A : Len(emit[x]) <= 1, NEW xs \in Seq(A)
    PROVE  Len(Each(emit, xs)) <= Len(xs)
<1> DEFINE T == {zs \in Seq(A) : Len(Each(emit, zs)) <= Len(zs)}
<1>1. <<>> \in T
    BY EachEmpty
<1>2. ASSUME NEW zs \in Seq(A), NEW z \in A, zs \in T
      PROVE  Append(zs, z) \in T
  <2>1. Each(emit, Append(zs, z)) = Each(emit, zs) \o emit[z]
      BY EachAppend
  <2>2. Each(emit, zs) \in Seq(B) /\ emit[z] \in Seq(B)
      BY EachType
  <2>3. Append(zs, z) \in Seq(A) /\ Len(Append(zs, z)) = Len(zs) + 1 /\ Len(zs) \in Nat
      OBVIOUS
  <2>4. PICK m \in Nat : m = Len(Each(emit, zs))
      BY <2>2
  <2>5. PICK k \in Nat : k = Len(emit[z]) /\ k <= 1
      BY <2>2
  <2>6. Len(Each(emit, zs) \o emit[z]) = m + k
      BY <2>2, <2>4, <2>5
  <2>7. m <= Len(zs)
      BY <1>2, <2>4
  <2>8. QED
      BY <2>1, <2>3, <2>5, <2>6, <2>7
<1> HIDE DEF T
<1>3. \A zs \in Seq(A) : \A z \in A : zs \in T => Append(zs, z) \in T
    BY <1>2
<1>4. Seq(A) \subseteq T
    BY <1>1, <1>3, SeqSetInduction
<1>5. QED
    BY <1>4 DEF T

-----------------------------------------------------------------------------
(* The operations, in one pass or in many *)

Ops == DOMAIN Map \cup DOMAIN Keep

LEMMA EmitType ==
    ASSUME ListsAssumption, NEW op \in Ops
    PROVE  Emit(op) \in [Value -> Seq(Value)] /\ \A x \in Value : Len(Emit(op)[x]) <= 1
<1>1. ASSUME NEW x \in Value
      PROVE  /\ (IF IsMap(op) THEN <<Map[op][x]>>
                 ELSE IF x \in Keep[op] THEN <<x>> ELSE <<>>) \in Seq(Value)
             /\ Len(IF IsMap(op) THEN <<Map[op][x]>>
                    ELSE IF x \in Keep[op] THEN <<x>> ELSE <<>>) <= 1
  <2>1. CASE IsMap(op)
    <3>1. Map[op][x] \in Value
        BY <2>1 DEF ListsAssumption, IsMap
    <3>2. QED
        BY <2>1, <3>1
  <2>2. CASE ~ IsMap(op)
      BY <2>2
  <2>3. QED
      BY <2>1, <2>2
<1>2. QED
    BY <1>1 DEF Emit

\* ys[k] is what the first k operations make of xs, and ys[n] what all do.
PassesBy(ys, ops, xs, n) ==
    /\ ys \in [0 .. n -> Seq(Value)]
    /\ ys[0] = xs
    /\ \A k \in 1 .. n : ys[k] = Each(Emit(ops[k]), ys[k - 1])
    /\ Passes(ops, xs) = ys[n]

\* Passes satisfies its recursive definition.
LEMMA PassesIs ==
    ASSUME ListsAssumption, NEW ops \in Seq(Ops), NEW xs \in Seq(Value)
    PROVE  \E ys : PassesBy(ys, ops, xs, Len(ops))
<1>0. PICK n \in Nat : n = Len(ops)
    OBVIOUS
<1>1. PICK step : step = [p \in (1 .. n) \X Seq(Value) |-> Each(Emit(ops[p[1]]), p[2])]
    OBVIOUS
<1>2. \A k \in 1 .. n : \A d \in Seq(Value) : step[<<k, d>>] = Each(Emit(ops[k]), d)
    BY <1>1
<1>3. \A k \in 1 .. n : \A d \in Seq(Value) : Each(Emit(ops[k]), d) \in Seq(Value)
  <2>1. SUFFICES ASSUME NEW k \in 1 .. n, NEW d \in Seq(Value)
                 PROVE  Each(Emit(ops[k]), d) \in Seq(Value)
      OBVIOUS
  <2>2. ops[k] \in Ops
      BY <1>0
  <2>3. Emit(ops[k]) \in [Value -> Seq(Value)]
      BY <2>2, EmitType
  <2>4. QED
      BY <2>3, EachType
<1>4. PICK D : D = Seq(Value)
    OBVIOUS
<1>5. StaysIn(step, D, n) /\ xs \in D
    BY <1>2, <1>3, <1>4 DEF StaysIn
<1>6. \E h : Recursive(h, D, xs, n, step)
    BY <1>5, RecursionExists
<1>7. PICK h \in [0 .. n -> Seq(Value)] : h[0] = xs /\ \A k \in 1 .. n : h[k] = step[<<k, h[k - 1]>>]
    BY <1>4, <1>6 DEF Recursive
<1>8. \A k \in 1 .. n : h[k - 1] \in Seq(Value)
  <2>1. \A k \in 1 .. n : k - 1 \in 0 .. n
      OBVIOUS
  <2>2. QED
      BY <2>1
<1>9. \A k \in 1 .. n : h[k] = Each(Emit(ops[k]), h[k - 1])
    BY <1>2, <1>7, <1>8
<1> DEFINE Rec(f) == f = [k \in 0 .. Len(ops) |-> IF k = 0 THEN xs ELSE Each(Emit(ops[k]), f[k - 1])]
           g == CHOOSE f : Rec(f)
<1>11. Passes(ops, xs) = g[Len(ops)]
    BY DEF Passes
<1>12. Rec(h)
  <2>1. h = [k \in 0 .. n |-> h[k]]
      OBVIOUS
  <2>2. \A k \in 0 .. n : h[k] = IF k = 0 THEN xs ELSE Each(Emit(ops[k]), h[k - 1])
    <3>1. \A k \in 0 .. n : k = 0 \/ k \in 1 .. n
        OBVIOUS
    <3>2. \A k \in 1 .. n : k # 0
        OBVIOUS
    <3>3. QED
        BY <1>7, <1>9, <3>1, <3>2
  <2>3. h = [k \in 0 .. n |-> IF k = 0 THEN xs ELSE Each(Emit(ops[k]), h[k - 1])]
      BY <2>1, <2>2
  <2>4. QED
      BY <1>0, <2>3
<1> HIDE DEF Rec
<1>13. Rec(g)
    BY <1>12
<1> HIDE DEF g
<1>14. g[0] = xs /\ \A k \in 1 .. n : g[k] = Each(Emit(ops[k]), g[k - 1])
  <2>1. g = [k \in 0 .. n |-> IF k = 0 THEN xs ELSE Each(Emit(ops[k]), g[k - 1])]
      BY <1>0, <1>13 DEF Rec
  <2>2. 0 \in 0 .. n /\ \A k \in 1 .. n : k \in 0 .. n /\ k # 0
      OBVIOUS
  <2>3. QED
      BY <2>1, <2>2
<1>15. ASSUME NEW k \in 0 .. n, k < n, g[k] = h[k]
       PROVE  g[k + 1] = h[k + 1]
  <2>1. k + 1 \in 1 .. n /\ (k + 1) - 1 = k
      BY <1>15
  <2>2. QED
      BY <1>9, <1>14, <1>15, <2>1
<1>16. n \in Nat /\ g[0] = h[0]
    BY <1>7, <1>14
<1>17. \A k \in 0 .. n : k < n /\ g[k] = h[k] => g[k + 1] = h[k + 1]
    BY <1>15
<1>18. \A k \in 0 .. n : g[k] = h[k]
  <2>1. InStep(g, h, n) /\ n \in Nat
      BY ONLY <1>16, <1>17 DEF InStep
  <2>2. QED
      BY ONLY <2>1, SameRecursion
<1>19. g[n] = h[n]
    BY <1>18
<1>20. PassesBy(h, ops, xs, n)
    BY <1>0, <1>7, <1>9, <1>11, <1>19 DEF PassesBy
<1>21. QED
    BY <1>0, <1>20

LEMMA PassesType ==
    ASSUME ListsAssumption, NEW ops \in Seq(Ops), NEW xs \in Seq(Value)
    PROVE  Passes(ops, xs) \in Seq(Value)
<1>1. PICK n \in Nat : n = Len(ops)
    OBVIOUS
<1>2. PICK ys : PassesBy(ys, ops, xs, n)
    BY <1>1, PassesIs
<1>3. n \in 0 .. n
    OBVIOUS
<1>4. QED
    BY <1>2, <1>3 DEF PassesBy

LEMMA PassesNone ==
    ASSUME ListsAssumption, NEW ops, ops = <<>>, NEW xs \in Seq(Value)
    PROVE  Passes(ops, xs) = xs
<1>1. ops \in Seq(Ops) /\ Len(ops) = 0
    OBVIOUS
<1>2. PICK ys : PassesBy(ys, ops, xs, 0)
    BY <1>1, PassesIs
<1>3. QED
    BY <1>2 DEF PassesBy

\* One more operation is one more pass.
LEMMA PassesAppend ==
    ASSUME ListsAssumption, NEW ops \in Seq(Ops), NEW op \in Ops, NEW xs \in Seq(Value)
    PROVE  Passes(Append(ops, op), xs) = Each(Emit(op), Passes(ops, xs))
<1>1. PICK n \in Nat : n = Len(ops)
    OBVIOUS
<1>2. PICK all : all = Append(ops, op)
    OBVIOUS
<1>3. all \in Seq(Ops) /\ n + 1 = Len(all) /\ n + 1 \in Nat /\ all[n + 1] = op
      /\ \A k \in 1 .. n : all[k] = ops[k]
    BY <1>1, <1>2
<1>4. PICK ys : PassesBy(ys, ops, xs, n)
    BY <1>1, PassesIs
<1>5. PICK ws : PassesBy(ws, all, xs, n + 1)
  <2>1. PICK zs : PassesBy(zs, all, xs, Len(all))
      BY <1>3, PassesIs
  <2>2. QED
      BY <1>3, <2>1
<1>6. ASSUME NEW k \in 0 .. n, k < n, ys[k] = ws[k]
      PROVE  ys[k + 1] = ws[k + 1]
  <2>1. k + 1 \in 1 .. n /\ k + 1 \in 1 .. n + 1 /\ (k + 1) - 1 = k
      BY <1>6
  <2>2. all[k + 1] = ops[k + 1]
      BY <1>3, <2>1
  <2>3. QED
      BY <1>4, <1>5, <1>6, <2>1, <2>2 DEF PassesBy
<1>7. \A k \in 0 .. n : k < n /\ ys[k] = ws[k] => ys[k + 1] = ws[k + 1]
    BY <1>6
<1>8. n \in Nat /\ ys[0] = ws[0]
    BY <1>4, <1>5 DEF PassesBy
<1>9. \A k \in 0 .. n : ys[k] = ws[k]
  <2>1. PICK g, h : g = ys /\ h = ws
      OBVIOUS
  <2>2. InStep(g, h, n) /\ n \in Nat
      BY ONLY <1>7, <1>8, <2>1 DEF InStep
  <2>3. \A k \in 0 .. n : g[k] = h[k]
      BY ONLY <2>2, SameRecursion
  <2>4. QED
      BY ONLY <2>1, <2>3
<1>10. n \in 0 .. n /\ n + 1 \in 1 .. n + 1 /\ (n + 1) - 1 = n
    OBVIOUS
<1>11. ws[n + 1] = Each(Emit(op), ws[n])
    BY <1>3, <1>5, <1>10 DEF PassesBy
<1>12. Passes(all, xs) = ws[n + 1] /\ Passes(ops, xs) = ys[n]
    BY <1>4, <1>5 DEF PassesBy
<1>13. ys[n] = ws[n]
    BY <1>9, <1>10
<1>14. QED
    BY <1>2, <1>11, <1>12, <1>13

\* No operation makes more elements of a list than it has.
LEMMA PassesLength ==
    ASSUME ListsAssumption, NEW ops \in Seq(Ops), NEW xs \in Seq(Value)
    PROVE  Len(Passes(ops, xs)) <= Len(xs)
<1> DEFINE T == {os \in Seq(Ops) : Len(Passes(os, xs)) <= Len(xs)}
<1>1. <<>> \in T
  <2>1. PICK e : e = <<>>
      OBVIOUS
  <2>2. e \in Seq(Ops) /\ Passes(e, xs) = xs
      BY <2>1, PassesNone
  <2>3. QED
      BY <2>1, <2>2
<1>2. ASSUME NEW os \in Seq(Ops), NEW op \in Ops, os \in T
      PROVE  Append(os, op) \in T
  <2>1. Passes(Append(os, op), xs) = Each(Emit(op), Passes(os, xs))
      BY PassesAppend
  <2>2. PICK ys \in Seq(Value) : ys = Passes(os, xs)
      BY PassesType
  <2>3. Emit(op) \in [Value -> Seq(Value)] /\ \A x \in Value : Len(Emit(op)[x]) <= 1
      BY EmitType
  <2>4. PICK emit : emit = Emit(op)
      OBVIOUS
  <2>5. emit \in [Value -> Seq(Value)] /\ \A x \in Value : Len(emit[x]) <= 1
      BY <2>3, <2>4
  <2>6. Len(Each(emit, ys)) <= Len(ys) /\ Each(emit, ys) \in Seq(Value)
      BY <2>5, EachLength, EachType
  <2>7. Len(ys) <= Len(xs)
      BY <1>2, <2>2
  <2>8. PICK zs \in Seq(Value) : zs = Each(emit, ys)
      BY <2>6
  <2>9. Len(zs) <= Len(xs)
      BY <2>6, <2>7, <2>8
  <2>10. Append(os, op) \in Seq(Ops)
      OBVIOUS
  <2>11. QED
      BY <2>1, <2>2, <2>4, <2>8, <2>9, <2>10
<1> HIDE DEF T
<1>3. \A os \in Seq(Ops) : \A op \in Ops : os \in T => Append(os, op) \in T
    BY <1>2
<1>4. Seq(Ops) \subseteq T
    BY <1>1, <1>3, SeqSetInduction
<1>5. QED
    BY <1>4 DEF T

LEMMA EmittedType ==
    ASSUME ListsAssumption, NEW ops \in Seq(Ops)
    PROVE  Emitted(ops) \in [Value -> Seq(Value)] /\ \A x \in Value : Len(Emitted(ops)[x]) <= 1
<1>1. ASSUME NEW x \in Value
      PROVE  Passes(ops, <<x>>) \in Seq(Value) /\ Len(Passes(ops, <<x>>)) <= 1
  <2>1. PICK xs : xs = <<x>>
      OBVIOUS
  <2>2. xs \in Seq(Value) /\ Len(xs) = 1
      BY <2>1
  <2>3. Passes(ops, xs) \in Seq(Value) /\ Len(Passes(ops, xs)) <= Len(xs)
      BY <2>2, PassesType, PassesLength
  <2>4. QED
      BY <2>1, <2>2, <2>3
<1>2. QED
    BY <1>1 DEF Emitted

\* Each element through every operation, or every element through one operation
\* after the other.
LEMMA Fusion ==
    ASSUME ListsAssumption, NEW ops \in Seq(Ops), NEW xs \in Seq(Value)
    PROVE  Each(Emitted(ops), xs) = Passes(ops, xs)
<1> DEFINE T == {os \in Seq(Ops) : Each(Emitted(os), xs) = Passes(os, xs)}
<1>1. <<>> \in T
  <2>1. PICK e : e = <<>>
      OBVIOUS
  <2>2. e \in Seq(Ops) /\ Passes(e, xs) = xs
      BY <2>1, PassesNone
  <2>3. Emitted(e) = [x \in Value |-> <<x>>]
    <3>1. \A x \in Value : Passes(e, <<x>>) = <<x>>
      <4>1. \A x \in Value : <<x>> \in Seq(Value)
          OBVIOUS
      <4>2. QED
          BY <2>1, <4>1, PassesNone
    <3>2. QED
        BY <3>1 DEF Emitted
  <2>4. Each(Emitted(e), xs) = xs
      BY <2>3, EachSelf
  <2>5. QED
      BY <2>1, <2>2, <2>4
<1>2. ASSUME NEW os \in Seq(Ops), NEW op \in Ops, os \in T
      PROVE  Append(os, op) \in T
  <2>1. PICK more : more = Append(os, op)
      OBVIOUS
  <2>2. PICK h : h = Emit(op)
      OBVIOUS
  <2>3. PICK g : g = Emitted(os)
      OBVIOUS
  <2>4. PICK both : both = Emitted(more)
      OBVIOUS
  <2>5. h \in [Value -> Seq(Value)] /\ g \in [Value -> Seq(Value)]
      BY <2>2, <2>3, EmitType, EmittedType
  <2>6. Composed(both, g, h, Value)
    <3>1. ASSUME NEW x \in Value
          PROVE  Passes(more, <<x>>) = Each(h, g[x])
      <4>1. <<x>> \in Seq(Value)
          OBVIOUS
      <4>2. Passes(more, <<x>>) = Each(h, Passes(os, <<x>>))
          BY <2>1, <2>2, <4>1, PassesAppend
      <4>3. g[x] = Passes(os, <<x>>)
          BY <2>3 DEF Emitted
      <4>4. QED
          BY <4>2, <4>3
    <3>2. QED
        BY <2>4, <3>1 DEF Emitted, Composed
  <2>7. Each(h, Each(g, xs)) = Each(both, xs)
    <3>1. g \in [Value -> Seq(Value)] /\ h \in [Value -> Seq(Value)] /\ xs \in Seq(Value)
        BY <2>5
    <3>2. QED
      <4>1. Composes(both, g, h, Value)
          BY ONLY <2>6, <3>1, EachEach
      <4>2. QED
          BY ONLY <3>1, <4>1 DEF Composes
  <2>8. Each(g, xs) = Passes(os, xs)
      BY <1>2, <2>3
  <2>9. Passes(more, xs) = Each(h, Passes(os, xs))
      BY <2>1, <2>2, PassesAppend
  <2>10. more \in Seq(Ops)
      BY <2>1
  <2> HIDE DEF T
  <2>11. Each(Emitted(more), xs) = Passes(more, xs)
      BY <2>4, <2>7, <2>8, <2>9
  <2>12. QED
      BY <2>1, <2>10, <2>11 DEF T
<1> HIDE DEF T
<1>3. \A os \in Seq(Ops) : \A op \in Ops : os \in T => Append(os, op) \in T
    BY <1>2
<1>4. Seq(Ops) \subseteq T
    BY <1>1, <1>3, SeqSetInduction
<1>5. QED
    BY <1>4 DEF T

-----------------------------------------------------------------------------
(* A state of the storage and of the views named in V *)

ViewType == [base : 0 .. Size, count : Nat, capacity : Nat, overflow : Nat]
Sound(w) == w \in ViewType /\ w.count <= w.capacity /\ w.base + w.capacity <= Size

StateOK(s, V) ==
    /\ s \in [mem : [1 .. Size -> Value], views : [V -> ViewType]]
    /\ \A v \in V : Sound(s.views[v])

\* What one push does to w, the view pushed through.
PushedView(w, x) ==
    IF w.count >= w.capacity THEN [w EXCEPT !.overflow = @ + 1] ELSE [w EXCEPT !.count = @ + 1]

LEMMA PushedViewIs ==
    ASSUME StorageAssumption, NEW w, Sound(w), NEW x
    PROVE  /\ Sound(PushedView(w, x))
           /\ PushedView(w, x).base = w.base /\ PushedView(w, x).capacity = w.capacity
           /\ w.count >= w.capacity => /\ PushedView(w, x).count = w.count
                                       /\ PushedView(w, x).overflow = w.overflow + 1
           /\ w.count < w.capacity => /\ PushedView(w, x).count = w.count + 1
                                      /\ PushedView(w, x).overflow = w.overflow
<1>1. w \in ViewType /\ w.count \in Nat /\ w.capacity \in Nat /\ w.overflow \in Nat /\ w.base \in 0 .. Size
    BY DEF Sound, ViewType
<1>2. Size \in Nat
    BY DEF StorageAssumption
<1>3. CASE w.count >= w.capacity
  <2>1. PICK u : u = [w EXCEPT !.overflow = @ + 1]
      OBVIOUS
  <2>2. /\ u \in ViewType /\ u.overflow = w.overflow + 1
        /\ u.base = w.base /\ u.count = w.count /\ u.capacity = w.capacity
      BY <1>1, <2>1 DEF ViewType
  <2>3. PushedView(w, x) = u
      BY <1>3, <2>1 DEF PushedView
  <2>4. QED
      BY <1>1, <1>3, <2>2, <2>3 DEF Sound
<1>4. CASE w.count < w.capacity
  <2>1. PICK u : u = [w EXCEPT !.count = @ + 1]
      OBVIOUS
  <2>2. /\ u \in ViewType /\ u.count = w.count + 1
        /\ u.base = w.base /\ u.overflow = w.overflow /\ u.capacity = w.capacity
      BY <1>1, <2>1 DEF ViewType
  <2>3. PushedView(w, x) = u
      BY <1>1, <1>4, <2>1 DEF PushedView
  <2>4. u.count <= u.capacity
      BY <1>1, <1>4, <2>2
  <2>5. QED
      BY <1>1, <1>4, <2>2, <2>3, <2>4 DEF Sound
<1>5. QED
    BY <1>1, <1>3, <1>4

\* A push, element by element of the storage.
LEMMA PushedIs ==
    ASSUME StorageAssumption, NEW V, NEW t, StateOK(t, V), NEW o \in V, NEW x \in Value
    PROVE  /\ StateOK(Pushed(t, o, x), V)
           /\ \A v \in V : v # o => Pushed(t, o, x).views[v] = t.views[v]
           /\ Pushed(t, o, x).views[o] = PushedView(t.views[o], x)
           /\ \A a \in 1 .. Size : Pushed(t, o, x).mem[a] =
                 IF /\ t.views[o].count < t.views[o].capacity
                    /\ a = t.views[o].base + t.views[o].count + 1
                 THEN x ELSE t.mem[a]
<1>1. PICK w : w = t.views[o]
    OBVIOUS
<1>2. Sound(w) /\ w.count \in Nat /\ w.capacity \in Nat /\ w.base \in 0 .. Size
    BY <1>1 DEF StateOK, Sound, ViewType
<1>3. PICK u : u = PushedView(w, x)
    OBVIOUS
<1>4. Sound(u) /\ u \in ViewType
    BY <1>2, <1>3, PushedViewIs DEF Sound
<1>5. t \in [mem : [1 .. Size -> Value], views : [V -> ViewType]]
    BY DEF StateOK
<1>6. PICK views2 : views2 = [t.views EXCEPT ![o] = u]
    OBVIOUS
<1>7. views2 \in [V -> ViewType] /\ views2[o] = u /\ \A v \in V : v # o => views2[v] = t.views[v]
    BY <1>4, <1>5, <1>6
<1>8. \A v \in V : Sound(views2[v])
    BY <1>4, <1>7 DEF StateOK
<1>9. CASE w.count >= w.capacity
  <2>1. Pushed(t, o, x) = [mem |-> t.mem, views |-> views2]
      BY <1>1, <1>3, <1>5, <1>6, <1>9 DEF Pushed, PushedView
  <2>2. QED
      BY <1>1, <1>2, <1>3, <1>5, <1>7, <1>8, <1>9, <2>1 DEF StateOK
<1>10. CASE w.count < w.capacity
  <2>1. PICK mem2 : mem2 = [t.mem EXCEPT ![w.base + w.count + 1] = x]
      OBVIOUS
  <2>2. mem2 \in [1 .. Size -> Value] /\
        \A a \in 1 .. Size : mem2[a] = IF a = w.base + w.count + 1 THEN x ELSE t.mem[a]
      BY <1>5, <2>1
  <2>3. Pushed(t, o, x) = [mem |-> mem2, views |-> views2]
    <3>1. ~ (t.views[o].count >= t.views[o].capacity)
        BY <1>1, <1>2, <1>10
    <3>2. Pushed(t, o, x) = [mem |-> [t.mem EXCEPT ![t.views[o].base + t.views[o].count + 1] = x],
                             views |-> [t.views EXCEPT ![o].count = @ + 1]]
        BY <3>1 DEF Pushed
    <3>3. u = [w EXCEPT !.count = @ + 1]
        BY <1>1, <1>3, <3>1 DEF PushedView
    <3>4. views2 = [t.views EXCEPT ![o].count = @ + 1]
        BY <1>1, <1>5, <1>6, <3>3
    <3>5. mem2 = [t.mem EXCEPT ![t.views[o].base + t.views[o].count + 1] = x]
        BY <1>1, <2>1
    <3>6. QED
        BY <3>2, <3>4, <3>5
  <2>4. QED
      BY <1>1, <1>2, <1>3, <1>5, <1>7, <1>8, <1>10, <2>2, <2>3 DEF StateOK
<1>11. QED
    BY <1>2, <1>9, <1>10

-----------------------------------------------------------------------------
(* A state after several pushes *)

Space(s, o) == s.views[o].capacity - s.views[o].count
End(s, o) == s.views[o].base + s.views[o].count
Fit(rs, room) == IF Len(rs) < room THEN Len(rs) ELSE room
Lost(rs, room, lazy) == IF lazy /\ Len(rs) > room THEN 1 ELSE Len(rs) - Fit(rs, room)

\* t is s after the elements of rs were pushed through o; if lazy, up to the
\* first that did not fit.
PushesOf(s, t, o, rs, lazy, V) ==
    /\ StateOK(t, V)
    /\ \A v \in V : v # o => t.views[v] = s.views[v]
    /\ t.views[o].base = s.views[o].base /\ t.views[o].capacity = s.views[o].capacity
    /\ t.views[o].count = s.views[o].count + Fit(rs, Space(s, o))
    /\ t.views[o].overflow = s.views[o].overflow + Lost(rs, Space(s, o), lazy)
    /\ \A a \in 1 .. Size :
          t.mem[a] = IF a - End(s, o) \in 1 .. Fit(rs, Space(s, o)) THEN rs[a - End(s, o)] ELSE s.mem[a]

Over(s, o, rs, lazy) == lazy /\ Len(rs) > Space(s, o)

LEMMA SpaceType ==
    ASSUME StorageAssumption, NEW V, NEW s, StateOK(s, V), NEW o \in V
    PROVE  Space(s, o) \in Nat /\ End(s, o) \in Nat /\ End(s, o) + Space(s, o) <= Size
<1>1. PICK w : w = s.views[o]
    OBVIOUS
<1>2. Sound(w) /\ w.count \in Nat /\ w.capacity \in Nat /\ w.base \in 0 .. Size /\ Size \in Nat
    BY <1>1 DEF StateOK, Sound, ViewType, StorageAssumption
<1>3. w.count <= w.capacity /\ w.base + w.capacity <= Size
    BY <1>2 DEF Sound
<1>4. w.base \in Nat
    BY <1>2
<1>5. w.capacity - w.count \in Nat /\ w.base + w.count \in Nat
      /\ (w.base + w.count) + (w.capacity - w.count) <= Size
    BY <1>2, <1>3, <1>4
<1>6. QED
    BY <1>1, <1>5 DEF Space, End

\* No element pushed.
LEMMA PushNone ==
    ASSUME StorageAssumption, NEW V, NEW s, StateOK(s, V), NEW o \in V, NEW rs, rs = <<>>, NEW lazy \in BOOLEAN
    PROVE  PushesOf(s, s, o, rs, lazy, V)
<1>1. PICK room \in Nat : room = Space(s, o)
    BY SpaceType
<1>2. Len(rs) = 0
    OBVIOUS
<1>3. Fit(rs, room) = 0 /\ Lost(rs, room, lazy) = 0
    BY <1>2 DEF Fit, Lost
<1>4. PICK w : w = s.views[o]
    OBVIOUS
<1>5. w.count \in Nat /\ w.overflow \in Nat
    BY <1>4 DEF StateOK, Sound, ViewType
<1>6. w.count = w.count + 0 /\ w.overflow = w.overflow + 0
    BY <1>5
<1>7. \A k : k \notin 1 .. 0
    OBVIOUS
<1>8. QED
    BY <1>1, <1>3, <1>4, <1>6, <1>7 DEF PushesOf

\* One more element is pushed after rs, and none has failed in a lazy loop.
LEMMA PushOne ==
    ASSUME StorageAssumption, NEW V, NEW s, StateOK(s, V), NEW o \in V, NEW lazy \in BOOLEAN,
           NEW rs \in Seq(Value), NEW t, PushesOf(s, t, o, rs, lazy, V), NEW x \in Value,
           ~ Over(s, o, rs, lazy)
    PROVE  /\ PushesOf(s, Pushed(t, o, x), o, Append(rs, x), lazy, V)
           /\ Stops(lazy, t, o) <=> Over(s, o, Append(rs, x), lazy)
<1>1. PICK room \in Nat : room = Space(s, o)
    BY SpaceType
<1>2. PICK n \in Nat : n = Len(rs)
    OBVIOUS
<1>3. PICK new : new = Append(rs, x)
    OBVIOUS
<1>4. new \in Seq(Value) /\ Len(new) = n + 1 /\ new[n + 1] = x /\ \A k \in 1 .. n : new[k] = rs[k]
    BY <1>2, <1>3
<1>5. PICK w : w = s.views[o]
    OBVIOUS
<1>6. PICK y : y = t.views[o]
    OBVIOUS
<1>7. /\ w.count \in Nat /\ w.overflow \in Nat /\ w.capacity \in Nat /\ w.base \in 0 .. Size /\ Size \in Nat
      /\ w.count <= w.capacity /\ room = w.capacity - w.count
    BY <1>1, <1>5 DEF StateOK, Sound, ViewType, StorageAssumption, Space
<1>8. PICK fit \in Nat : fit = Fit(rs, room) /\ (n < room => fit = n) /\ (n >= room => fit = room)
    BY <1>1, <1>2 DEF Fit
<1>9. PICK u : u = Pushed(t, o, x)
    OBVIOUS
<1>10. StateOK(t, V)
    BY DEF PushesOf
<1>11. /\ StateOK(u, V) /\ \A v \in V : v # o => u.views[v] = t.views[v]
       /\ u.views[o] = PushedView(y, x)
       /\ \A a \in 1 .. Size : u.mem[a] =
                 IF y.count < y.capacity /\ a = y.base + y.count + 1 THEN x ELSE t.mem[a]
    BY <1>6, <1>9, <1>10, PushedIs
<1>12. Sound(y) /\ y.count \in Nat /\ y.overflow \in Nat /\ y.capacity \in Nat /\ y.base \in 0 .. Size
    BY <1>6, <1>10 DEF StateOK, Sound, ViewType
<1>13. /\ y.base = w.base /\ y.capacity = w.capacity /\ y.count = w.count + fit
       /\ y.overflow = w.overflow + Lost(rs, room, lazy)
    BY <1>1, <1>5, <1>6, <1>8 DEF PushesOf
<1>14. y.count < y.capacity <=> n < room
    BY <1>7, <1>8, <1>13
<1>15. Fit(new, room) = IF n < room THEN fit + 1 ELSE fit
    BY <1>4, <1>8 DEF Fit
<1>16. End(s, o) = w.base + w.count /\ w.base + w.count \in Nat
  <2>1. End(s, o) = w.base + w.count
      BY ONLY <1>5 DEF End
  <2>2. w.base + w.count \in Nat
      BY ONLY <1>7
  <2>3. QED
      BY ONLY <2>1, <2>2
<1>17. u.views[o].base = w.base /\ u.views[o].capacity = w.capacity
    BY <1>11, <1>12, <1>13, PushedViewIs
<1>18. u.views[o].count = w.count + Fit(new, room)
  <2>1. CASE n < room
    <3>1. y.count < y.capacity
        BY <1>14, <2>1
    <3>2. u.views[o].count = y.count + 1
        BY <1>11, <1>12, <3>1, PushedViewIs
    <3>3. Fit(new, room) = fit + 1
        BY <1>15, <2>1
    <3>4. y.count + 1 = w.count + (fit + 1)
      <4>1. w.count \in Nat /\ fit \in Nat /\ y.count = w.count + fit
          BY <1>7, <1>13
      <4>2. QED
          BY ONLY <4>1
    <3>5. QED
        BY <3>2, <3>3, <3>4
  <2>2. CASE ~ (n < room)
    <3>1. y.count >= y.capacity
        BY <1>12, <1>14, <2>2
    <3>2. u.views[o].count = y.count
        BY <1>11, <1>12, <3>1, PushedViewIs
    <3>3. Fit(new, room) = fit
        BY <1>15, <2>2
    <3>4. QED
        BY <1>13, <3>2, <3>3
  <2>3. QED
      BY <2>1, <2>2
<1>19. u.views[o].overflow = w.overflow + Lost(new, room, lazy)
  <2>1. CASE n < room
    <3>1. y.count < y.capacity
        BY <1>14, <2>1
    <3>2. u.views[o].overflow = y.overflow
        BY <1>11, <1>12, <3>1, PushedViewIs
    <3>3. Lost(rs, room, lazy) = 0
        BY <1>2, <1>8, <2>1 DEF Lost
    <3>4. Lost(new, room, lazy) = 0
        BY <1>4, <1>8, <1>15, <2>1 DEF Lost
    <3>5. QED
        BY <1>7, <1>13, <3>2, <3>3, <3>4
  <2>2. CASE ~ (n < room)
    <3>1. y.count >= y.capacity
        BY <1>12, <1>14, <2>2
    <3>2. u.views[o].overflow = y.overflow + 1
        BY <1>11, <1>12, <3>1, PushedViewIs
    <3>3. CASE lazy
      <4>1. n = room
          BY <1>1, <1>2, <2>2, <3>3 DEF Over
      <4>2. Lost(rs, room, lazy) = 0
          BY <1>2, <1>8, <4>1 DEF Lost
      <4>3. Lost(new, room, lazy) = 1
          BY <1>4, <3>3, <4>1 DEF Lost
      <4>4. QED
          BY <1>7, <1>13, <3>2, <4>2, <4>3
    <3>4. CASE ~ lazy
      <4>1. Lost(rs, room, lazy) = n - room
          BY <1>2, <1>8, <2>2, <3>4 DEF Lost
      <4>2. Lost(new, room, lazy) = (n + 1) - room
          BY <1>4, <1>8, <1>15, <2>2, <3>4 DEF Lost
      <4>3. QED
          BY ONLY <1>7, <1>8, <1>13, <3>2, <4>1, <4>2, <1>2, <1>1
    <3>5. QED
        BY <3>3, <3>4
  <2>3. QED
      BY <2>1, <2>2
<1>20. ASSUME NEW a \in 1 .. Size
       PROVE  u.mem[a] = IF a - End(s, o) \in 1 .. Fit(new, room) THEN new[a - End(s, o)] ELSE s.mem[a]
  <2>1. PICK e \in Nat : e = End(s, o) /\ e = w.base + w.count
      BY <1>16
  <2>2. t.mem[a] = IF a - e \in 1 .. fit THEN rs[a - e] ELSE s.mem[a]
      BY <1>1, <1>8, <2>1 DEF PushesOf
  <2>3. y.base + y.count + 1 = e + fit + 1
    <3>1. PICK m \in Nat, b \in Nat : m = w.count /\ b = w.base
        BY <1>7
    <3>2. y.base = b /\ y.count = m + fit /\ e = b + m
        BY ONLY <1>13, <2>1, <3>1
    <3>3. fit \in Nat
        OBVIOUS
    <3>4. b + (m + fit) + 1 = (b + m) + fit + 1
        BY ONLY <3>1, <3>3
    <3>5. QED
        BY ONLY <3>2, <3>4
  <2>4. PICK k \in Int : k = a - e
      BY <1>7
  <2>5. a = e + fit + 1 <=> k = fit + 1
      BY <1>7, <2>4
  <2>6. u.mem[a] = IF n < room /\ k = fit + 1 THEN x ELSE t.mem[a]
      BY <1>11, <1>14, <2>3, <2>5
  <2>7. CASE n < room
    <3>1. fit = n /\ Fit(new, room) = n + 1
        BY <1>8, <1>15, <2>7
    <3>2. CASE k = n + 1
      <4>1. k \in 1 .. n + 1
          BY <3>2
      <4>2. QED
          BY <1>4, <2>1, <2>4, <2>6, <2>7, <3>1, <3>2, <4>1
    <3>3. CASE k # n + 1
      <4>1. k \in 1 .. n + 1 <=> k \in 1 .. n
          BY <3>3
      <4>2. k \in 1 .. n => new[k] = rs[k]
          BY <1>4
      <4>3. u.mem[a] = IF k \in 1 .. n THEN rs[k] ELSE s.mem[a]
          BY <2>2, <2>4, <2>6, <3>1, <3>3
      <4>4. QED
          BY <2>1, <2>4, <3>1, <4>1, <4>2, <4>3
    <3>4. QED
        BY <3>2, <3>3
  <2>8. CASE ~ (n < room)
    <3>1. fit = room /\ Fit(new, room) = room /\ room <= n
        BY <1>8, <1>15, <2>8
    <3>2. k \in 1 .. room => k \in 1 .. n
        BY <3>1
    <3>3. k \in 1 .. room => new[k] = rs[k]
        BY <1>4, <3>2
    <3>4. u.mem[a] = IF k \in 1 .. room THEN rs[k] ELSE s.mem[a]
        BY <2>2, <2>4, <2>6, <2>8, <3>1
    <3>5. QED
        BY <2>1, <2>4, <3>1, <3>3, <3>4
  <2>9. QED
      BY <2>7, <2>8
<1>21. \A v \in V : v # o => u.views[v] = s.views[v]
    BY <1>11 DEF PushesOf
<1>22. PushesOf(s, u, o, new, lazy, V)
    BY <1>1, <1>5, <1>11, <1>17, <1>18, <1>19, <1>20, <1>21 DEF PushesOf
<1>23. Stops(lazy, t, o) <=> lazy /\ n + 1 > room
  <2>1. Stops(lazy, t, o) <=> lazy /\ y.count = y.capacity
      BY <1>6 DEF Stops
  <2>2. y.count <= y.capacity
      BY <1>12 DEF Sound
  <2>3. y.count = y.capacity <=> ~ (n < room)
      BY <1>12, <1>14, <2>2
  <2>4. n + 1 > room <=> ~ (n < room)
      OBVIOUS
  <2>5. QED
      BY <2>1, <2>3, <2>4
<1>24. QED
    BY <1>1, <1>3, <1>4, <1>9, <1>22, <1>23 DEF Over

\* After the first that does not fit, the others make no difference.
LEMMA PushOver ==
    ASSUME StorageAssumption, NEW V, NEW s, StateOK(s, V), NEW o \in V, NEW lazy \in BOOLEAN,
           NEW rs \in Seq(Value), NEW t, PushesOf(s, t, o, rs, lazy, V), NEW x \in Value,
           Over(s, o, rs, lazy)
    PROVE  PushesOf(s, t, o, Append(rs, x), lazy, V) /\ Over(s, o, Append(rs, x), lazy)
<1>1. PICK room \in Nat : room = Space(s, o)
    BY SpaceType
<1>2. PICK n \in Nat : n = Len(rs)
    OBVIOUS
<1>3. PICK new : new = Append(rs, x)
    OBVIOUS
<1>4. new \in Seq(Value) /\ Len(new) = n + 1 /\ \A k \in 1 .. n : new[k] = rs[k]
    BY <1>2, <1>3
<1>5. lazy /\ n > room
    BY <1>1, <1>2 DEF Over
<1>6. /\ Fit(new, room) = room /\ Fit(rs, room) = room
      /\ Lost(new, room, lazy) = 1 /\ Lost(rs, room, lazy) = 1
    BY <1>2, <1>4, <1>5 DEF Fit, Lost
<1>7. ASSUME NEW a \in 1 .. Size
      PROVE  t.mem[a] = IF a - End(s, o) \in 1 .. room THEN new[a - End(s, o)] ELSE s.mem[a]
  <2>1. t.mem[a] = IF a - End(s, o) \in 1 .. room THEN rs[a - End(s, o)] ELSE s.mem[a]
      BY <1>1, <1>6 DEF PushesOf
  <2>2. 1 .. room \subseteq 1 .. n
      BY <1>5
  <2>3. QED
      BY <1>4, <2>1, <2>2
<1>8. PushesOf(s, t, o, new, lazy, V)
    BY <1>1, <1>6, <1>7 DEF PushesOf
<1>9. Over(s, o, new, lazy)
  <2>1. Len(new) > room
      BY <1>4, <1>5
  <2>2. QED
      BY <1>1, <1>5, <2>1 DEF Over
<1>10. QED
    BY <1>3, <1>8, <1>9

-----------------------------------------------------------------------------
(* The loop *)

Emits(emitted) == emitted \in [Value -> Seq(Value)] /\ \A x \in Value : Len(emitted[x]) <= 1

LEMMA OneElement ==
    ASSUME NEW A, NEW e \in Seq(A), Len(e) = 1
    PROVE  e[1] \in A /\ e = <<e[1]>>
<1>1. e[1] \in A
    OBVIOUS
<1>2. \A y \in A : e[1] = y => e = <<y>>
    OBVIOUS
<1>3. QED
    BY <1>1, <1>2

LEMMA OneOrNone ==
    ASSUME NEW emitted, Emits(emitted), NEW x \in Value, NEW rs \in Seq(Value)
    PROVE  /\ emitted[x] = <<>> => rs \o emitted[x] = rs
           /\ emitted[x] # <<>> => emitted[x][1] \in Value /\ rs \o emitted[x] = Append(rs, emitted[x][1])
<1>1. PICK e \in Seq(Value) : e = emitted[x] /\ Len(e) <= 1
    BY DEF Emits
<1>2. e = <<>> => rs \o e = rs
    OBVIOUS
<1>3. e # <<>> => e[1] \in Value /\ rs \o e = Append(rs, e[1])
  <2>1. SUFFICES ASSUME e # <<>>
                 PROVE  e[1] \in Value /\ rs \o e = Append(rs, e[1])
      OBVIOUS
  <2>2. Len(e) = 1
    <3>1. PICK m \in Nat : m = Len(e)
        BY <1>1
    <3>2. m # 0
      <4>1. \A z \in Seq(Value) : Len(z) = 0 => z = <<>>
          OBVIOUS
      <4>2. QED
          BY <1>1, <2>1, <3>1, <4>1
    <3>3. m <= 1
        BY <1>1, <3>1
    <3>4. QED
        BY <3>1, <3>2, <3>3
  <2>3. e[1] \in Value /\ e = <<e[1]>>
    <3>1. e \in Seq(Value)
        OBVIOUS
    <3>2. QED
        BY ONLY <2>2, <3>1, OneElement
  <2>4. \A y \in Value : rs \o <<y>> = Append(rs, y)
      OBVIOUS
  <2>5. QED
      BY <2>3, <2>4
<1>4. QED
    BY <1>1, <1>2, <1>3

\* The elements that a loop finds in the view i, and whether it can trust them to
\* stay.
Found(s, i) == SubSeq(s.mem, s.views[i].base + 1, s.views[i].base + s.views[i].count)

Clear(s, i, o) ==
    \/ End(s, o) <= s.views[i].base \/ End(s, o) >= s.views[i].base + s.views[i].count
    \/ Space(s, o) = 0

\* The elements of a view, by their places in the storage.
LEMMA FoundIs ==
    ASSUME StorageAssumption, NEW V, NEW s, StateOK(s, V), NEW i \in V
    PROVE  /\ Found(s, i) \in Seq(Value) /\ Len(Found(s, i)) = s.views[i].count
           /\ s.views[i].count \in Nat /\ s.views[i].base \in Nat
           /\ \A k \in 1 .. s.views[i].count :
                 /\ s.views[i].base + k \in 1 .. Size
                 /\ Found(s, i)[k] = s.mem[s.views[i].base + k]
<1>1. PICK w : w = s.views[i]
    OBVIOUS
<1>2. Sound(w) /\ w.count \in Nat /\ w.capacity \in Nat /\ w.base \in 0 .. Size /\ Size \in Nat
    BY <1>1 DEF StateOK, Sound, ViewType, StorageAssumption
<1>3. w.count <= w.capacity /\ w.base + w.capacity <= Size /\ w.base \in Nat
    BY <1>2 DEF Sound
<1>4. w.base + w.count <= Size
    BY <1>2, <1>3
<1>5. PICK mem2 : mem2 = s.mem
    OBVIOUS
<1>6. mem2 \in [1 .. Size -> Value]
    BY <1>5 DEF StateOK
<1>7. mem2 \in Seq(Value) /\ Len(mem2) = Size
    BY <1>2, <1>6
<1>8. PICK b \in Nat : b = w.base
    BY <1>3
<1>9. PICK n \in Nat : n = w.count
    BY <1>2
<1>10. PICK xs : xs = SubSeq(mem2, b + 1, b + n)
    OBVIOUS
<1>11. xs \in Seq(Value) /\ Len(xs) = n /\ \A k \in 1 .. n : xs[k] = mem2[b + k]
  <2>1. b + n <= Size
      BY <1>4, <1>8, <1>9
  <2>2. \A k \in b + 1 .. b + n : k \in 1 .. Size
      BY <1>2, <2>1
  <2>3. xs \in Seq(Value)
      BY <1>2, <1>7, <1>10, <2>1, <2>2
  <2>4. Len(xs) = n
      BY <1>7, <1>10
  <2>5. \A k \in 1 .. n : xs[k] = mem2[b + k]
      BY <1>7, <1>10
  <2>6. QED
      BY <2>3, <2>4, <2>5
<1>12. \A k \in 1 .. n : b + k \in 1 .. Size
    BY <1>2, <1>4, <1>8, <1>9
<1>13. QED
    BY <1>1, <1>5, <1>8, <1>9, <1>10, <1>11, <1>12 DEF Found

States(V) == {st \in [mem : [1 .. Size -> Value], views : [V -> ViewType]] :
                 \A v \in V : Sound(st.views[v])}

\* One turn of the loop, for the element at a.
Turn(t, a, emitted, lazy, o) ==
    LET ys == emitted[t.s.mem[a]]
    IN  IF t.done \/ ys = <<>> THEN t
        ELSE [s |-> Pushed(t.s, o, ys[1]), done |-> Stops(lazy, t.s, o)]

LoopBy(h, s, emitted, lazy, i, o, V) ==
    /\ h \in [0 .. s.views[i].count -> [s : States(V), done : BOOLEAN]]
    /\ h[0] = [s |-> s, done |-> FALSE]
    /\ \A k \in 1 .. s.views[i].count : h[k] = Turn(h[k - 1], s.views[i].base + k, emitted, lazy, o)
    /\ Loop(s, emitted, lazy, i, o) = h[s.views[i].count].s

LEMMA TurnType ==
    ASSUME StorageAssumption, NEW V, NEW o \in V, NEW emitted, Emits(emitted), NEW lazy \in BOOLEAN,
           NEW t \in [s : States(V), done : BOOLEAN], NEW a \in 1 .. Size
    PROVE  Turn(t, a, emitted, lazy, o) \in [s : States(V), done : BOOLEAN]
<1>1. PICK st \in States(V) : st = t.s
    OBVIOUS
<1>2. StateOK(st, V)
    BY DEF States, StateOK
<1>3. PICK x \in Value : x = st.mem[a]
    BY <1>2 DEF StateOK
<1>4. PICK ys \in Seq(Value) : ys = emitted[x] /\ (ys # <<>> => ys[1] \in Value)
    BY <1>3, OneOrNone DEF Emits
<1>5. CASE t.done \/ ys = <<>>
    BY <1>1, <1>3, <1>4, <1>5 DEF Turn
<1>6. CASE ~ (t.done \/ ys = <<>>)
  <2>1. PICK y \in Value : y = ys[1]
      BY <1>4, <1>6
  <2>2. StateOK(Pushed(st, o, y), V)
      BY <1>2, PushedIs
  <2>3. PICK st2 \in States(V) : st2 = Pushed(st, o, y)
      BY <2>2 DEF States, StateOK
  <2>4. PICK d \in BOOLEAN : d = Stops(lazy, st, o)
      BY DEF Stops
  <2>5. Turn(t, a, emitted, lazy, o) = [s |-> st2, done |-> d]
      BY <1>1, <1>3, <1>4, <1>6, <2>1, <2>3, <2>4 DEF Turn
  <2>6. QED
      BY <2>5
<1>7. QED
    BY <1>5, <1>6

\* Loop satisfies its recursive definition.
LEMMA LoopIs ==
    ASSUME StorageAssumption, NEW V, NEW s, StateOK(s, V), NEW i \in V, NEW o \in V,
           NEW emitted, Emits(emitted), NEW lazy \in BOOLEAN
    PROVE  \E h : LoopBy(h, s, emitted, lazy, i, o, V)
<1>0. PICK n \in Nat : n = s.views[i].count
    BY FoundIs
<1>1. PICK b \in Nat : b = s.views[i].base /\ \A k \in 1 .. n : b + k \in 1 .. Size
  <2>1. s.views[i].base \in Nat /\ \A k \in 1 .. s.views[i].count : s.views[i].base + k \in 1 .. Size
      BY FoundIs
  <2>2. QED
      BY <1>0, <2>1
<1>2. PICK D : D = [s : States(V), done : BOOLEAN]
    OBVIOUS
<1>3. PICK step : step = [p \in (1 .. n) \X D |-> Turn(p[2], b + p[1], emitted, lazy, o)]
    OBVIOUS
<1>4. \A k \in 1 .. n : \A d \in D : step[<<k, d>>] = Turn(d, b + k, emitted, lazy, o)
    BY <1>3
<1>5. \A k \in 1 .. n : \A d \in D : Turn(d, b + k, emitted, lazy, o) \in D
    BY <1>1, <1>2, TurnType
<1>6. StaysIn(step, D, n)
    BY <1>4, <1>5 DEF StaysIn
<1>7. PICK e : e = [s |-> s, done |-> FALSE]
    OBVIOUS
<1>8. e \in D
  <2>1. s \in States(V)
      BY DEF States, StateOK
  <2>2. QED
      BY <1>2, <1>7, <2>1
<1>9. \E h : Recursive(h, D, e, n, step)
    BY <1>6, <1>8, RecursionExists
<1>10. PICK h \in [0 .. n -> D] : h[0] = e /\ \A k \in 1 .. n : h[k] = step[<<k, h[k - 1]>>]
    BY <1>9 DEF Recursive
<1>11. \A k \in 1 .. n : h[k - 1] \in D
  <2>1. \A k \in 1 .. n : k - 1 \in 0 .. n
      OBVIOUS
  <2>2. QED
      BY <2>1
<1>12. \A k \in 1 .. n : h[k] = Turn(h[k - 1], b + k, emitted, lazy, o)
    BY <1>4, <1>10, <1>11
<1> DEFINE Rec(f) == f = [k \in 0 .. s.views[i].count |->
                             IF k = 0 THEN [s |-> s, done |-> FALSE]
                             ELSE LET t == f[k - 1]
                                      ys == emitted[t.s.mem[s.views[i].base + k]]
                                  IN  IF t.done \/ ys = <<>> THEN t
                                      ELSE [s |-> Pushed(t.s, o, ys[1]), done |-> Stops(lazy, t.s, o)]]
           g == CHOOSE f : Rec(f)
<1>13. Loop(s, emitted, lazy, i, o) = g[s.views[i].count].s
    BY DEF Loop
<1>14. ASSUME NEW f
       PROVE  Rec(f) <=> f = [k \in 0 .. n |-> IF k = 0 THEN e ELSE Turn(f[k - 1], b + k, emitted, lazy, o)]
    BY <1>0, <1>1, <1>7 DEF Turn
<1> HIDE DEF Rec
<1>15. Rec(h)
  <2>1. h = [k \in 0 .. n |-> h[k]]
      OBVIOUS
  <2>2. \A k \in 0 .. n : h[k] = IF k = 0 THEN e ELSE Turn(h[k - 1], b + k, emitted, lazy, o)
    <3>1. \A k \in 0 .. n : k = 0 \/ k \in 1 .. n
        OBVIOUS
    <3>2. \A k \in 1 .. n : k # 0
        OBVIOUS
    <3>3. QED
        BY <1>10, <1>12, <3>1, <3>2
  <2>3. h = [k \in 0 .. n |-> IF k = 0 THEN e ELSE Turn(h[k - 1], b + k, emitted, lazy, o)]
      BY <2>1, <2>2
  <2>4. QED
      BY <1>14, <2>3
<1>16. Rec(g)
    BY <1>15
<1> HIDE DEF g
<1>17. g[0] = e /\ \A k \in 1 .. n : g[k] = Turn(g[k - 1], b + k, emitted, lazy, o)
  <2>1. g = [k \in 0 .. n |-> IF k = 0 THEN e ELSE Turn(g[k - 1], b + k, emitted, lazy, o)]
      BY <1>14, <1>16
  <2>2. 0 \in 0 .. n /\ \A k \in 1 .. n : k \in 0 .. n /\ k # 0
      OBVIOUS
  <2>3. QED
      BY <2>1, <2>2
<1>18. ASSUME NEW k \in 0 .. n, k < n, g[k] = h[k]
       PROVE  g[k + 1] = h[k + 1]
  <2>1. k + 1 \in 1 .. n /\ (k + 1) - 1 = k
      BY <1>18
  <2>2. QED
      BY <1>12, <1>17, <1>18, <2>1
<1>19. n \in Nat /\ g[0] = h[0]
    BY <1>10, <1>17
<1>20. \A k \in 0 .. n : k < n /\ g[k] = h[k] => g[k + 1] = h[k + 1]
    BY <1>18
<1>21. \A k \in 0 .. n : g[k] = h[k]
  <2>1. InStep(g, h, n) /\ n \in Nat
      BY ONLY <1>19, <1>20 DEF InStep
  <2>2. QED
      BY ONLY <2>1, SameRecursion
<1>22. g[n] = h[n]
    BY <1>21
<1>23. LoopBy(h, s, emitted, lazy, i, o, V)
    BY <1>0, <1>1, <1>2, <1>7, <1>10, <1>12, <1>13, <1>22 DEF LoopBy
<1>24. QED
    BY <1>23

\* An element that is still to be read has not been overwritten.
LEMMA StillThere ==
    ASSUME StorageAssumption, NEW V, NEW s, StateOK(s, V), NEW i \in V, NEW o \in V, Clear(s, i, o),
           NEW lazy \in BOOLEAN, NEW rs \in Seq(Value), NEW t, PushesOf(s, t, o, rs, lazy, V),
           NEW k \in 1 .. s.views[i].count, Len(rs) < k
    PROVE  t.mem[s.views[i].base + k] = s.mem[s.views[i].base + k]
<1>1. PICK b \in Nat : b = s.views[i].base
    BY FoundIs
<1>2. PICK n \in Nat : n = s.views[i].count
    BY FoundIs
<1>3. k \in 1 .. n /\ b + k \in 1 .. Size
    BY <1>1, <1>2, FoundIs
<1>4. PICK room \in Nat : room = Space(s, o)
    BY SpaceType
<1>5. PICK e \in Nat : e = End(s, o)
    BY SpaceType
<1>6. PICK m \in Nat : m = Len(rs) /\ m < k
    OBVIOUS
<1>7. PICK fit \in Nat : fit = Fit(rs, room) /\ fit <= m /\ fit <= room
    BY <1>6 DEF Fit
<1>8. t.mem[b + k] = IF (b + k) - e \in 1 .. fit THEN rs[(b + k) - e] ELSE s.mem[b + k]
    BY <1>3, <1>4, <1>5, <1>7 DEF PushesOf
<1>9. e <= b \/ e >= b + n \/ room = 0
    BY <1>1, <1>2, <1>4, <1>5 DEF Clear
<1>10. (b + k) - e \notin 1 .. fit
  <2>1. CASE e <= b
      BY <1>3, <1>6, <1>7, <2>1
  <2>2. CASE e >= b + n
      BY <1>3, <2>2
  <2>3. CASE room = 0
      BY <1>3, <1>7, <2>3
  <2>4. QED
      BY <1>9, <2>1, <2>2, <2>3
<1>11. QED
    BY <1>1, <1>8, <1>10

\* After k turns some elements were pushed: if the input stays, what emitted makes
\* of its first k.
Reached(h, k, s, emitted, lazy, i, o, V) ==
    \E rs \in Seq(Value) :
        /\ PushesOf(s, h[k].s, o, rs, lazy, V)
        /\ h[k].done <=> Over(s, o, rs, lazy)
        /\ Clear(s, i, o) => rs = Each(emitted, SubSeq(Found(s, i), 1, k))

LEMMA Prefixes ==
    ASSUME NEW A, NEW xs \in Seq(A), NEW k \in 1 .. Len(xs)
    PROVE  /\ SubSeq(xs, 1, k - 1) \in Seq(A) /\ Len(SubSeq(xs, 1, k - 1)) = k - 1
           /\ xs[k] \in A /\ SubSeq(xs, 1, k) = Append(SubSeq(xs, 1, k - 1), xs[k])
<1>1. PICK n \in Nat : n = Len(xs)
    OBVIOUS
<1>2. k \in Nat /\ k - 1 \in Nat /\ k <= n
    BY <1>1
<1>3. \A j \in 1 .. n : xs[j] \in A
    BY <1>1
<1>4. SubSeq(xs, 1, k - 1) \in Seq(A) /\ Len(SubSeq(xs, 1, k - 1)) = k - 1
    BY <1>1, <1>2
<1>5. SubSeq(xs, 1, k) = Append(SubSeq(xs, 1, k - 1), xs[k])
    BY <1>1, <1>2
<1>6. QED
    BY <1>1, <1>3, <1>4, <1>5

\* One turn of the loop goes on with what the loop has reached.
LEMMA TurnReached ==
    ASSUME StorageAssumption, NEW V, NEW s, StateOK(s, V), NEW i \in V, NEW o \in V,
           NEW emitted, Emits(emitted), NEW lazy \in BOOLEAN, NEW h, LoopBy(h, s, emitted, lazy, i, o, V),
           NEW k \in 1 .. s.views[i].count, Reached(h, k - 1, s, emitted, lazy, i, o, V)
    PROVE  Reached(h, k, s, emitted, lazy, i, o, V)
<1>1. PICK rs \in Seq(Value) :
          /\ PushesOf(s, h[k - 1].s, o, rs, lazy, V)
          /\ h[k - 1].done <=> Over(s, o, rs, lazy)
          /\ Clear(s, i, o) => rs = Each(emitted, SubSeq(Found(s, i), 1, k - 1))
    BY DEF Reached
<1>2. PICK t : t = h[k - 1]
    OBVIOUS
<1>3. t.done \in BOOLEAN
  <2>1. PICK n \in Nat : n = s.views[i].count
      BY FoundIs
  <2>2. k - 1 \in 0 .. n
      BY <2>1
  <2>3. h \in [0 .. n -> [s : States(V), done : BOOLEAN]]
      BY <2>1 DEF LoopBy
  <2>4. QED
      BY <1>2, <2>2, <2>3
<1>4. PICK a : a = s.views[i].base + k /\ a \in 1 .. Size
    BY FoundIs
<1>5. h[k] = Turn(t, a, emitted, lazy, o)
    BY <1>2, <1>4 DEF LoopBy
<1>6. PushesOf(s, t.s, o, rs, lazy, V) /\ StateOK(t.s, V)
    BY <1>1, <1>2 DEF PushesOf
<1>7. PICK xs \in Seq(Value) : xs = Found(s, i) /\ k \in 1 .. Len(xs) /\ xs[k] = s.mem[a]
  <2>1. Found(s, i) \in Seq(Value) /\ Len(Found(s, i)) = s.views[i].count
        /\ Found(s, i)[k] = s.mem[s.views[i].base + k]
      BY FoundIs
  <2>2. QED
      BY <1>4, <2>1
<1>p. /\ SubSeq(xs, 1, k - 1) \in Seq(Value) /\ Len(SubSeq(xs, 1, k - 1)) = k - 1
      /\ xs[k] \in Value /\ SubSeq(xs, 1, k) = Append(SubSeq(xs, 1, k - 1), xs[k])
  <2>1. xs \in Seq(Value) /\ k \in 1 .. Len(xs)
      BY <1>7
  <2>2. QED
      BY ONLY <2>1, Prefixes
<1>8. xs[k] \in Value
    BY <1>p
<1>9. t.s.mem[a] \in Value
    BY <1>4, <1>6 DEF StateOK
\* Should the loop be over, the element stands for itself.
<1>10. PICK x \in Value : /\ t.done => x = xs[k]
                          /\ ~ t.done => x = t.s.mem[a]
    BY <1>3, <1>8, <1>9
<1>11. Clear(s, i, o) => x = xs[k]
  <2>1. SUFFICES ASSUME Clear(s, i, o), ~ t.done
                 PROVE  x = xs[k]
      BY <1>3, <1>10
  <2>2. Len(rs) < k
    <3>1. PICK us \in Seq(Value) : us = SubSeq(xs, 1, k - 1) /\ Len(us) = k - 1
        BY <1>p
    <3>2. rs = Each(emitted, us)
        BY <1>1, <1>7, <2>1, <3>1
    <3>3. Len(Each(emitted, us)) <= Len(us)
        BY EachLength DEF Emits
    <3>4. PICK m \in Nat : m = Len(rs)
        OBVIOUS
    <3>5. QED
        BY <1>7, <3>1, <3>2, <3>3, <3>4
  <2>3. t.s.mem[a] = s.mem[a]
      BY <1>4, <1>6, <2>1, <2>2, StillThere, SMTT(30)
  <2>4. QED
      BY <1>7, <1>10, <2>1, <2>3
<1>12. PICK new : new = rs \o emitted[x]
    OBVIOUS
<1>13. Clear(s, i, o) => new = Each(emitted, SubSeq(Found(s, i), 1, k))
  <2>1. SUFFICES ASSUME Clear(s, i, o)
                 PROVE  new = Each(emitted, SubSeq(xs, 1, k))
      BY <1>7
  <2>2. PICK us \in Seq(Value) : us = SubSeq(xs, 1, k - 1) /\ SubSeq(xs, 1, k) = Append(us, xs[k])
      BY <1>p
  <2>3. Each(emitted, Append(us, xs[k])) = Each(emitted, us) \o emitted[xs[k]]
    <3>1. emitted \in [Value -> Seq(Value)] /\ us \in Seq(Value) /\ xs[k] \in Value
        BY <1>8 DEF Emits
    <3>2. QED
        BY ONLY <3>1, EachAppend
  <2>4. QED
      BY <1>1, <1>7, <1>11, <1>12, <2>1, <2>2, <2>3
<1>14. CASE emitted[x] = <<>>
  <2>1. new = rs
      BY <1>12, <1>14, OneOrNone
  <2>2. h[k] = t
    <3>1. CASE t.done
        BY <1>5, <3>1 DEF Turn
    <3>2. CASE ~ t.done
        BY <1>5, <1>10, <1>14, <3>2 DEF Turn
    <3>3. QED
        BY <3>1, <3>2
  <2>3. PushesOf(s, h[k].s, o, new, lazy, V)
      BY <1>6, <2>1, <2>2
  <2>4. h[k].done <=> Over(s, o, new, lazy)
      BY <1>1, <1>2, <2>1, <2>2
  <2>5. new \in Seq(Value)
      BY <2>1
  <2>6. QED
      BY <1>13, <2>3, <2>4, <2>5 DEF Reached
<1>15. CASE emitted[x] # <<>>
  <2>1. PICK y \in Value : y = emitted[x][1] /\ new = Append(rs, y)
      BY <1>12, <1>15, OneOrNone
  <2>2. new \in Seq(Value)
      BY <2>1
  <2>3. CASE t.done
    <3>1. h[k] = t
        BY <1>5, <2>3 DEF Turn
    <3>2. Over(s, o, rs, lazy)
        BY <1>1, <1>2, <2>3
    <3>3. PushesOf(s, t.s, o, new, lazy, V) /\ Over(s, o, new, lazy)
        BY <1>6, <2>1, <3>2, PushOver
    <3>4. QED
        BY <1>13, <2>2, <2>3, <3>1, <3>3 DEF Reached
  <2>4. CASE ~ t.done
    <3>1. x = t.s.mem[a]
        BY <1>10, <2>4
    <3>2. h[k] = [s |-> Pushed(t.s, o, y), done |-> Stops(lazy, t.s, o)]
        BY <1>5, <1>15, <2>1, <2>4, <3>1 DEF Turn
    <3>3. ~ Over(s, o, rs, lazy)
        BY <1>1, <1>2, <2>4
    <3>4. /\ PushesOf(s, Pushed(t.s, o, y), o, new, lazy, V)
          /\ Stops(lazy, t.s, o) <=> Over(s, o, new, lazy)
        BY <1>6, <2>1, <3>3, PushOne
    <3>5. h[k].s = Pushed(t.s, o, y) /\ h[k].done = Stops(lazy, t.s, o)
        BY <3>2
    <3>6. QED
        BY <1>13, <2>2, <3>4, <3>5 DEF Reached
  <2>5. QED
      BY <1>3, <2>3, <2>4
<1>16. QED
    BY <1>14, <1>15

\* A loop pushes some elements; if the input stays, what emitted makes of it.
LEMMA LoopPushes ==
    ASSUME StorageAssumption, NEW V, NEW s, StateOK(s, V), NEW i \in V, NEW o \in V,
           NEW emitted, Emits(emitted), NEW lazy \in BOOLEAN
    PROVE  \E rs \in Seq(Value) : /\ PushesOf(s, Loop(s, emitted, lazy, i, o), o, rs, lazy, V)
                                  /\ Clear(s, i, o) => rs = Each(emitted, Found(s, i))
<1>1. PICK h : LoopBy(h, s, emitted, lazy, i, o, V)
    BY LoopIs
<1>2. PICK n \in Nat : n = s.views[i].count
    BY FoundIs
<1> DEFINE T == {k \in Nat : k <= n => Reached(h, k, s, emitted, lazy, i, o, V)}
<1>3. 0 \in T
  <2>1. h[0].s = s /\ (h[0].done <=> FALSE)
      BY <1>1 DEF LoopBy
  <2>2. PICK e : e = <<>>
      OBVIOUS
  <2>3. e \in Seq(Value)
      BY <2>2
  <2>4. PushesOf(s, s, o, e, lazy, V)
      BY <2>2, PushNone
  <2>5. ~ Over(s, o, e, lazy)
    <3>1. Len(e) = 0 /\ Space(s, o) \in Nat
        BY <2>2, SpaceType
    <3>2. QED
        BY <3>1 DEF Over
  <2>6. e = Each(emitted, SubSeq(Found(s, i), 1, 0))
    <3>1. SubSeq(Found(s, i), 1, 0) = <<>>
      <4>1. PICK xs \in Seq(Value) : xs = Found(s, i)
          BY FoundIs
      <4>2. SubSeq(xs, 1, 0) = <<>>
          OBVIOUS
      <4>3. QED
          BY <4>1, <4>2
    <3>2. Each(emitted, <<>>) = <<>>
        BY EachEmpty DEF Emits
    <3>3. QED
        BY <2>2, <3>1, <3>2
  <2>7. Reached(h, 0, s, emitted, lazy, i, o, V)
      BY <2>1, <2>3, <2>4, <2>5, <2>6 DEF Reached
  <2>8. QED
      BY <2>7
<1>4. ASSUME NEW k \in Nat, k \in T
      PROVE  k + 1 \in T
  <2>1. SUFFICES ASSUME k + 1 <= n
                 PROVE  Reached(h, k + 1, s, emitted, lazy, i, o, V)
      OBVIOUS
  <2>2. Reached(h, k, s, emitted, lazy, i, o, V)
      BY <1>4, <2>1
  <2>3. k + 1 \in 1 .. s.views[i].count /\ (k + 1) - 1 = k
      BY <1>2, <2>1
  <2>4. Reached(h, (k + 1) - 1, s, emitted, lazy, i, o, V)
      BY <2>2, <2>3
  <2>5. QED
      BY <1>1, <2>3, <2>4, TurnReached
<1> HIDE DEF T
<1>5. Nat \subseteq T
    BY <1>3, <1>4, NatSetInduction
<1>6. Reached(h, n, s, emitted, lazy, i, o, V)
    BY <1>5 DEF T
<1>7. SubSeq(Found(s, i), 1, n) = Found(s, i)
  <2>1. PICK xs \in Seq(Value) : xs = Found(s, i) /\ Len(xs) = n
      BY <1>2, FoundIs
  <2>2. SubSeq(xs, 1, Len(xs)) = xs
      OBVIOUS
  <2>3. QED
      BY <2>1, <2>2
<1>8. Loop(s, emitted, lazy, i, o) = h[n].s
    BY <1>1, <1>2 DEF LoopBy
<1>9. QED
    BY <1>6, <1>7, <1>8 DEF Reached

-----------------------------------------------------------------------------
(* One loop after the other *)

\* The whole parts of two views have no element in common.
Apart(s, i, o) ==
    (s.views[i].base + 1 .. s.views[i].base + s.views[i].capacity)
        \cap (s.views[o].base + 1 .. s.views[o].base + s.views[o].capacity) = {}

LEMMA ApartIsClear ==
    ASSUME StorageAssumption, NEW V, NEW s, StateOK(s, V), NEW i \in V, NEW o \in V, Apart(s, i, o)
    PROVE  Clear(s, i, o)
<1>1. PICK p : p = s.views[i]
    OBVIOUS
<1>2. PICK q : q = s.views[o]
    OBVIOUS
<1>3. /\ p.base \in Nat /\ p.count \in Nat /\ p.capacity \in Nat /\ p.count <= p.capacity
      /\ q.base \in Nat /\ q.count \in Nat /\ q.capacity \in Nat /\ q.count <= q.capacity
    BY <1>1, <1>2 DEF StateOK, Sound, ViewType, StorageAssumption
<1>4. \A x \in Int : ~ (/\ p.base + 1 <= x /\ x <= p.base + p.capacity
                        /\ q.base + 1 <= x /\ x <= q.base + q.capacity)
    BY <1>1, <1>2, <1>3 DEF Apart
<1>5. \/ q.base + q.count <= p.base \/ q.base + q.count >= p.base + p.count
      \/ q.capacity - q.count = 0
  <2>1. ASSUME NEW pb \in Nat, NEW pn \in Nat, NEW pc \in Nat, pn <= pc,
               NEW qb \in Nat, NEW qn \in Nat, NEW qc \in Nat, qn <= qc,
               \A x \in Int : ~ (pb + 1 <= x /\ x <= pb + pc /\ qb + 1 <= x /\ x <= qb + qc)
        PROVE  qb + qn <= pb \/ qb + qn >= pb + pn \/ qc - qn = 0
    <3>1. SUFFICES ASSUME qb + qn > pb, qb + qn < pb + pn, qc - qn # 0
                   PROVE  FALSE
        OBVIOUS
    <3>2. PICK x \in Int : x = qb + qn + 1
        OBVIOUS
    <3>3. pb + 1 <= x /\ x <= pb + pc /\ qb + 1 <= x /\ x <= qb + qc
        BY <2>1, <3>1, <3>2
    <3>4. QED
        BY <2>1, <3>3
  <2>2. QED
      BY <1>3, <1>4, <2>1
<1>6. QED
    BY <1>1, <1>2, <1>5 DEF Clear, End, Space

\* Views that share no element keep their contents while others are pushed to.
LEMMA ApartStays ==
    ASSUME StorageAssumption, NEW V, NEW s, StateOK(s, V), NEW i \in V, NEW o \in V, Apart(s, i, o),
           NEW lazy \in BOOLEAN, NEW rs \in Seq(Value), NEW t, PushesOf(s, t, o, rs, lazy, V)
    PROVE  Apart(t, i, o) /\ Found(t, i) = Found(s, i)
<1>1. PICK p : p = s.views[i]
    OBVIOUS
<1>2. PICK q : q = s.views[o]
    OBVIOUS
<1>3. PICK y : y = t.views[i]
    OBVIOUS
<1>4. /\ p.base \in Nat /\ p.count \in Nat /\ p.capacity \in Nat /\ p.count <= p.capacity
      /\ q.base \in Nat /\ q.count \in Nat /\ q.capacity \in Nat /\ q.count <= q.capacity
    BY <1>1, <1>2 DEF StateOK, Sound, ViewType, StorageAssumption
<1>5. StateOK(t, V)
    BY DEF PushesOf
<1>6. y.base \in Nat /\ y.count \in Nat /\ y.capacity \in Nat /\ y.count <= y.capacity
    BY <1>3, <1>5 DEF StateOK, Sound, ViewType, StorageAssumption
<1>7. /\ t.views[i].base = s.views[i].base /\ t.views[i].capacity = s.views[i].capacity
      /\ t.views[o].base = s.views[o].base /\ t.views[o].capacity = s.views[o].capacity
  <2>1. CASE i = o
      BY <2>1 DEF PushesOf
  <2>2. CASE i # o
      BY <2>2 DEF PushesOf
  <2>3. QED
      BY <2>1, <2>2
<1>8. Apart(t, i, o)
    BY <1>7 DEF Apart
<1>9. y.base = p.base /\ y.capacity = p.capacity
    BY <1>1, <1>3, <1>7
<1>10. y.count = p.count
  <2>1. CASE i = o
    <3>1. p.capacity = 0
      <4>1. SUFFICES ASSUME p.capacity # 0
                     PROVE  FALSE
          OBVIOUS
      <4>2. p.base + 1 \in p.base + 1 .. p.base + p.capacity
          BY <1>4, <4>1
      <4>3. (p.base + 1 .. p.base + p.capacity) \cap (p.base + 1 .. p.base + p.capacity) = {}
          BY <1>1, <2>1 DEF Apart
      <4>4. QED
          BY <4>2, <4>3
    <3>2. QED
        BY <1>4, <1>6, <1>9, <3>1
  <2>2. CASE i # o
      BY <1>1, <1>3, <2>2 DEF PushesOf
  <2>3. QED
      BY <2>1, <2>2
<1>11. PICK n \in Nat : n = p.count /\ n = y.count
    BY <1>4, <1>10
<1>12. PICK b \in Nat : b = p.base /\ b = y.base
    BY <1>4, <1>9
<1>13. PICK xs \in Seq(Value) : /\ xs = Found(s, i) /\ Len(xs) = n
                                /\ \A k \in 1 .. n : xs[k] = s.mem[b + k] /\ b + k \in 1 .. Size
  <2>1. /\ Found(s, i) \in Seq(Value) /\ Len(Found(s, i)) = p.count
        /\ \A k \in 1 .. p.count : Found(s, i)[k] = s.mem[p.base + k] /\ p.base + k \in 1 .. Size
      BY <1>1, FoundIs
  <2>2. QED
      BY <1>11, <1>12, <2>1
<1>14. PICK ys \in Seq(Value) : /\ ys = Found(t, i) /\ Len(ys) = n
                                /\ \A k \in 1 .. n : ys[k] = t.mem[b + k]
  <2>1. /\ Found(t, i) \in Seq(Value) /\ Len(Found(t, i)) = y.count
        /\ \A k \in 1 .. y.count : Found(t, i)[k] = t.mem[y.base + k]
      BY <1>3, <1>5, FoundIs
  <2>2. QED
      BY <1>11, <1>12, <2>1
<1>15. ASSUME NEW k \in 1 .. n
       PROVE  t.mem[b + k] = s.mem[b + k]
  <2>1. PICK room \in Nat : room = Space(s, o) /\ room = q.capacity - q.count
      BY <1>2, <1>4, SpaceType DEF Space
  <2>2. PICK e \in Nat : e = End(s, o) /\ e = q.base + q.count
      BY <1>2, <1>4, SpaceType DEF End
  <2>3. PICK fit \in Nat : fit = Fit(rs, room) /\ fit <= room
    <3>1. PICK m \in Nat : m = Len(rs)
        OBVIOUS
    <3>2. QED
        BY <2>1, <3>1 DEF Fit
  <2>4. t.mem[b + k] = IF (b + k) - e \in 1 .. fit THEN rs[(b + k) - e] ELSE s.mem[b + k]
    <3>1. PICK a \in 1 .. Size : a = b + k
        BY <1>13
    <3>2. t.mem[a] = IF a - End(s, o) \in 1 .. Fit(rs, Space(s, o)) THEN rs[a - End(s, o)] ELSE s.mem[a]
        BY DEF PushesOf
    <3>3. QED
        BY <2>1, <2>2, <2>3, <3>1, <3>2
  <2>5. b + k \in p.base + 1 .. p.base + p.capacity
      BY <1>4, <1>11, <1>12
  <2>6. (b + k) - e \in 1 .. fit => b + k \in q.base + 1 .. q.base + q.capacity
    <3>1. ASSUME NEW qb \in Nat, NEW qn \in Nat, NEW qc \in Nat, e = qb + qn, room = qc - qn,
                 (b + k) - e \in 1 .. fit
          PROVE  b + k \in qb + 1 .. qb + qc
        BY <2>3, <3>1
    <3>2. QED
        BY <1>4, <2>1, <2>2, <3>1
  <2>7. (p.base + 1 .. p.base + p.capacity) \cap (q.base + 1 .. q.base + q.capacity) = {}
      BY <1>1, <1>2 DEF Apart
  <2>8. (b + k) - e \notin 1 .. fit
      BY <2>5, <2>6, <2>7
  <2>9. QED
      BY <2>4, <2>8
<1>16. \A k \in 1 .. n : ys[k] = xs[k]
    BY <1>13, <1>14, <1>15
<1>17. ys = xs
    BY <1>13, <1>14, <1>16, SeqEqual
<1>18. QED
    BY <1>8, <1>13, <1>14, <1>17

\* Of eager loops.
AllOf(s, t, o, rs, V) == PushesOf(s, t, o, rs, FALSE, V)

\* Two lists pushed one after the other, without stopping, are one list pushed.
LEMMA PushesTwice ==
    ASSUME StorageAssumption, NEW V, NEW s, StateOK(s, V), NEW o \in V,
           NEW rs \in Seq(Value), NEW t, AllOf(s, t, o, rs, V),
           NEW qs \in Seq(Value), NEW u, AllOf(t, u, o, qs, V)
    PROVE  AllOf(s, u, o, rs \o qs, V)
<1>a. PushesOf(s, t, o, rs, FALSE, V) /\ PushesOf(t, u, o, qs, FALSE, V)
    BY DEF AllOf
<1>1. PICK room \in Nat : room = Space(s, o)
    BY SpaceType
<1>2. PICK e \in Nat : e = End(s, o)
    BY SpaceType
<1>3. PICK m \in Nat : m = Len(rs)
    OBVIOUS
<1>4. PICK n \in Nat : n = Len(qs)
    OBVIOUS
<1>5. PICK all \in Seq(Value) : /\ all = rs \o qs /\ Len(all) = m + n
                                /\ \A k \in 1 .. m : all[k] = rs[k]
                                /\ \A k \in 1 .. n : all[m + k] = qs[k]
  <2>1. PICK all : all = rs \o qs
      OBVIOUS
  <2>2. all \in Seq(Value) /\ Len(all) = m + n
      BY <1>3, <1>4, <2>1
  <2>3. \A k \in 1 .. m : all[k] = rs[k]
      BY <1>3, <1>4, <2>1
  <2>4. \A k \in 1 .. n : all[m + k] = qs[k]
      BY <1>3, <1>4, <2>1
  <2>5. QED
      BY <2>1, <2>2, <2>3, <2>4
<1>6. PICK w : w = s.views[o]
    OBVIOUS
<1>7. PICK y : y = t.views[o]
    OBVIOUS
<1>8. PICK z : z = u.views[o]
    OBVIOUS
<1>9. StateOK(t, V) /\ StateOK(u, V)
    BY DEF AllOf, PushesOf
<1>10. /\ w.base \in Nat /\ w.count \in Nat /\ w.capacity \in Nat /\ w.overflow \in Nat
       /\ room = w.capacity - w.count /\ e = w.base + w.count
    BY <1>1, <1>2, <1>6 DEF StateOK, Sound, ViewType, StorageAssumption, Space, End
<1>11. PICK fit1 \in Nat : fit1 = Fit(rs, room) /\ fit1 = IF m < room THEN m ELSE room
    BY <1>1, <1>3 DEF Fit
<1>12. y.base = w.base /\ y.capacity = w.capacity /\ y.count = w.count + fit1
    BY <1>1, <1>6, <1>7, <1>11 DEF AllOf, PushesOf
<1>13. Lost(rs, room, FALSE) = m - fit1
    BY <1>3, <1>11 DEF Lost
<1>14. y.overflow = w.overflow + (m - fit1)
    BY <1>1, <1>6, <1>7, <1>13 DEF AllOf, PushesOf
<1>15. PICK room2 \in Nat : room2 = Space(t, o) /\ room2 = room - fit1
  <2>1. Space(t, o) = y.capacity - y.count
      BY <1>7 DEF Space
  <2>2. y.capacity - y.count = room - fit1
    <3>1. ASSUME NEW wn \in Nat, NEW wc \in Nat, room = wc - wn
          PROVE  wc - (wn + fit1) = room - fit1
        BY <3>1
    <3>2. QED
        BY <1>10, <1>12, <3>1
  <2>3. room - fit1 \in Nat
      BY <1>11
  <2>4. QED
      BY <2>1, <2>2, <2>3
<1>16. PICK e2 \in Nat : e2 = End(t, o) /\ e2 = e + fit1
  <2>1. End(t, o) = y.base + y.count
      BY <1>7 DEF End
  <2>2. y.base + y.count = e + fit1
    <3>1. ASSUME NEW wb \in Nat, NEW wn \in Nat, e = wb + wn
          PROVE  wb + (wn + fit1) = e + fit1
        BY <3>1
    <3>2. QED
        BY <1>10, <1>12, <3>1
  <2>3. e + fit1 \in Nat
      OBVIOUS
  <2>4. QED
      BY <2>1, <2>2, <2>3
<1>17. PICK fit2 \in Nat : fit2 = Fit(qs, room2) /\ fit2 = IF n < room2 THEN n ELSE room2
    BY <1>4, <1>15 DEF Fit
<1>18. z.base = y.base /\ z.capacity = y.capacity /\ z.count = y.count + fit2
    BY <1>7, <1>8, <1>15, <1>17 DEF AllOf, PushesOf
<1>19. Lost(qs, room2, FALSE) = n - fit2
    BY <1>4, <1>17 DEF Lost
<1>20. z.overflow = y.overflow + (n - fit2)
    BY <1>7, <1>8, <1>15, <1>19 DEF AllOf, PushesOf
<1>21. Fit(all, room) = fit1 + fit2
  <2>1. Fit(all, room) = IF m + n < room THEN m + n ELSE room
      BY <1>5 DEF Fit
  <2>2. CASE m < room
    <3>1. fit1 = m /\ room2 = room - m
        BY <1>11, <1>15, <2>2
    <3>2. n < room2 <=> m + n < room
        BY <3>1
    <3>3. QED
        BY <1>17, <2>1, <3>1, <3>2
  <2>3. CASE ~ (m < room)
    <3>1. fit1 = room /\ room2 = 0
        BY <1>11, <1>15, <2>3
    <3>2. fit2 = 0
        BY <1>17, <3>1
    <3>3. ~ (m + n < room)
        BY <2>3
    <3>4. QED
        BY <2>1, <3>1, <3>2, <3>3
  <2>4. QED
      BY <2>2, <2>3
<1>22. Lost(all, room, FALSE) = (m + n) - (fit1 + fit2)
    BY <1>5, <1>21 DEF Lost
<1>23. z.count = w.count + (fit1 + fit2)
    BY <1>10, <1>12, <1>18
<1>24. z.overflow = w.overflow + ((m + n) - (fit1 + fit2))
    BY <1>10, <1>14, <1>20
<1>25. ASSUME NEW a \in 1 .. Size
       PROVE  u.mem[a] = IF a - e \in 1 .. (fit1 + fit2) THEN all[a - e] ELSE s.mem[a]
  <2>1. t.mem[a] = IF a - e \in 1 .. fit1 THEN rs[a - e] ELSE s.mem[a]
      BY <1>1, <1>2, <1>11 DEF AllOf, PushesOf
  <2>2. u.mem[a] = IF a - e2 \in 1 .. fit2 THEN qs[a - e2] ELSE t.mem[a]
      BY <1>15, <1>16, <1>17 DEF AllOf, PushesOf
  <2>3. PICK k \in Int : k = a - e
      OBVIOUS
  <2>4. a - e2 = k - fit1
      BY <1>16, <2>3
  <2>5. CASE k \in 1 .. fit1
    <3>1. k - fit1 \notin 1 .. fit2 /\ k \in 1 .. fit1 + fit2 /\ k \in 1 .. m
        BY <1>11, <2>5
    <3>2. all[k] = rs[k]
        BY <1>5, <3>1
    <3>3. QED
        BY <2>1, <2>2, <2>3, <2>4, <2>5, <3>1, <3>2
  <2>6. CASE k - fit1 \in 1 .. fit2
    <3>1. k \in 1 .. fit1 + fit2 /\ k - fit1 \in 1 .. n
        BY <1>17, <2>6
    <3>2. fit1 = m
        BY <1>11, <1>15, <1>17, <2>6
    <3>3. all[m + (k - fit1)] = qs[k - fit1]
        BY <1>5, <3>1
    <3>4. m + (k - fit1) = k
        BY <3>2
    <3>5. u.mem[a] = qs[k - fit1]
        BY <2>2, <2>4, <2>6
    <3>6. QED
        BY <2>3, <3>1, <3>3, <3>4, <3>5
  <2>7. CASE k \notin 1 .. fit1 /\ k - fit1 \notin 1 .. fit2
    <3>1. k \notin 1 .. fit1 + fit2
        BY <2>7
    <3>2. QED
        BY <2>1, <2>2, <2>3, <2>4, <2>7, <3>1
  <2>8. QED
      BY <2>5, <2>6, <2>7
<1>26. \A v \in V : v # o => u.views[v] = s.views[v]
    BY DEF AllOf, PushesOf
<1>27. QED
    BY <1>1, <1>2, <1>5, <1>6, <1>8, <1>9, <1>12, <1>18, <1>21, <1>22, <1>23, <1>24, <1>25, <1>26 DEF AllOf, PushesOf

-----------------------------------------------------------------------------
(* The ways to run a list of operations *)

\* What apply pushes for one operation, when it finds xs.
Parts(xs) == [op \in Ops |-> Passes(<<op>>, xs)]

LEMMA PassesOne ==
    ASSUME ListsAssumption, NEW op \in Ops, NEW xs \in Seq(Value)
    PROVE  Passes(<<op>>, xs) = Each(Emit(op), xs)
<1>1. PICK none : none = <<>>
    OBVIOUS
<1>2. none \in Seq(Ops) /\ Append(none, op) = <<op>>
    BY <1>1
<1>3. Passes(Append(none, op), xs) = Each(Emit(op), Passes(none, xs))
    BY <1>2, PassesAppend
<1>4. Passes(none, xs) = xs
    BY <1>1, PassesNone
<1>5. QED
    BY <1>2, <1>3, <1>4

LEMMA PartsType ==
    ASSUME ListsAssumption, NEW xs \in Seq(Value)
    PROVE  Parts(xs) \in [Ops -> Seq(Value)]
<1>1. ASSUME NEW op \in Ops
      PROVE  Passes(<<op>>, xs) \in Seq(Value)
  <2>1. <<op>> \in Seq(Ops)
      OBVIOUS
  <2>2. QED
      BY <2>1, PassesType
<1>2. QED
    BY <1>1 DEF Parts

LEMMA EagerPushes ==
    ASSUME StorageAssumption, ListsAssumption, NEW V, NEW s, StateOK(s, V), NEW i \in V, NEW o \in V,
           NEW op \in Ops
    PROVE  \E rs \in Seq(Value) : /\ AllOf(s, Eager(s, op, i, o), o, rs, V)
                                  /\ Clear(s, i, o) => rs = Each(Emit(op), Found(s, i))
<1>1. Emits(Emit(op))
    BY EmitType DEF Emits
<1>2. PICK emitted : emitted = Emit(op)
    OBVIOUS
<1>3. PICK lazy \in BOOLEAN : lazy = FALSE
    OBVIOUS
<1>4. \E rs \in Seq(Value) : /\ PushesOf(s, Loop(s, emitted, lazy, i, o), o, rs, lazy, V)
                             /\ Clear(s, i, o) => rs = Each(emitted, Found(s, i))
    BY <1>1, <1>2, LoopPushes
<1>5. QED
    BY <1>2, <1>3, <1>4 DEF Eager, AllOf

ApplyBy(h, s, ops, i, o, V) ==
    /\ h[0] = s
    /\ \A k \in 1 .. Len(ops) : h[k] = Eager(h[k - 1], ops[k], i, o)
    /\ Apply(s, ops, i, o) = h[Len(ops)]

\* Apply satisfies its recursive definition.
LEMMA ApplyIs ==
    ASSUME StorageAssumption, ListsAssumption, NEW V, NEW s, StateOK(s, V), NEW i \in V, NEW o \in V,
           NEW ops \in Seq(Ops)
    PROVE  \E h : ApplyBy(h, s, ops, i, o, V)
<1>0. PICK n \in Nat : n = Len(ops)
    OBVIOUS
<1>1. PICK D : D = States(V)
    OBVIOUS
<1>2. PICK step : step = [p \in (1 .. n) \X D |-> Eager(p[2], ops[p[1]], i, o)]
    OBVIOUS
<1>3. \A k \in 1 .. n : \A d \in D : step[<<k, d>>] = Eager(d, ops[k], i, o)
    BY <1>2
<1>4. ASSUME NEW k \in 1 .. n, NEW d \in D
      PROVE  Eager(d, ops[k], i, o) \in D
  <2>1. ops[k] \in Ops
      BY <1>0
  <2>2. StateOK(d, V)
      BY <1>1 DEF States, StateOK
  <2>3. StateOK(Eager(d, ops[k], i, o), V)
      BY <2>1, <2>2, EagerPushes DEF AllOf, PushesOf
  <2>4. QED
      BY <1>1, <2>3 DEF States, StateOK
<1>5. StaysIn(step, D, n)
    BY <1>3, <1>4 DEF StaysIn
<1>6. s \in D
    BY <1>1 DEF States, StateOK
<1>7. \E h : Recursive(h, D, s, n, step)
    BY <1>5, <1>6, RecursionExists
<1>8. PICK h \in [0 .. n -> D] : h[0] = s /\ \A k \in 1 .. n : h[k] = step[<<k, h[k - 1]>>]
    BY <1>7 DEF Recursive
<1>9. \A k \in 1 .. n : h[k - 1] \in D
  <2>1. \A k \in 1 .. n : k - 1 \in 0 .. n
      OBVIOUS
  <2>2. QED
      BY <2>1
<1>10. \A k \in 1 .. n : h[k] = Eager(h[k - 1], ops[k], i, o)
    BY <1>3, <1>8, <1>9
<1> DEFINE Rec(f) == f = [k \in 0 .. Len(ops) |-> IF k = 0 THEN s ELSE Eager(f[k - 1], ops[k], i, o)]
           g == CHOOSE f : Rec(f)
<1>11. Apply(s, ops, i, o) = g[Len(ops)]
    BY DEF Apply
<1>12. Rec(h)
  <2>1. h = [k \in 0 .. n |-> h[k]]
      OBVIOUS
  <2>2. \A k \in 0 .. n : h[k] = IF k = 0 THEN s ELSE Eager(h[k - 1], ops[k], i, o)
    <3>1. \A k \in 0 .. n : k = 0 \/ k \in 1 .. n
        OBVIOUS
    <3>2. \A k \in 1 .. n : k # 0
        OBVIOUS
    <3>3. QED
        BY <1>8, <1>10, <3>1, <3>2
  <2>3. h = [k \in 0 .. n |-> IF k = 0 THEN s ELSE Eager(h[k - 1], ops[k], i, o)]
      BY <2>1, <2>2
  <2>4. QED
      BY <1>0, <2>3
<1> HIDE DEF Rec
<1>13. Rec(g)
    BY <1>12
<1> HIDE DEF g
<1>14. g[0] = s /\ \A k \in 1 .. n : g[k] = Eager(g[k - 1], ops[k], i, o)
  <2>1. g = [k \in 0 .. n |-> IF k = 0 THEN s ELSE Eager(g[k - 1], ops[k], i, o)]
      BY <1>0, <1>13 DEF Rec
  <2>2. 0 \in 0 .. n /\ \A k \in 1 .. n : k \in 0 .. n /\ k # 0
      OBVIOUS
  <2>3. QED
      BY <2>1, <2>2
<1>15. ASSUME NEW k \in 0 .. n, k < n, g[k] = h[k]
       PROVE  g[k + 1] = h[k + 1]
  <2>1. k + 1 \in 1 .. n /\ (k + 1) - 1 = k
      BY <1>15
  <2>2. QED
      BY <1>10, <1>14, <1>15, <2>1
<1>16. n \in Nat /\ g[0] = h[0]
    BY <1>8, <1>14
<1>17. \A k \in 0 .. n : k < n /\ g[k] = h[k] => g[k + 1] = h[k + 1]
    BY <1>15
<1>18. \A k \in 0 .. n : g[k] = h[k]
  <2>1. InStep(g, h, n) /\ n \in Nat
      BY ONLY <1>16, <1>17 DEF InStep
  <2>2. QED
      BY ONLY <2>1, SameRecursion
<1>19. g[n] = h[n]
    BY <1>18
<1>20. ApplyBy(h, s, ops, i, o, V)
    BY <1>0, <1>8, <1>10, <1>11, <1>19 DEF ApplyBy
<1>21. QED
    BY <1>20

\* After k operations.
Applied(h, k, s, ops, i, o, V) ==
    \E rs \in Seq(Value) :
        /\ AllOf(s, h[k], o, rs, V)
        /\ Apart(s, i, o) => /\ Apart(h[k], i, o) /\ Found(h[k], i) = Found(s, i)
                             /\ rs = Each(Parts(Found(s, i)), SubSeq(ops, 1, k))

\* One more operation of apply.
LEMMA OperationApplied ==
    ASSUME StorageAssumption, ListsAssumption, NEW V, NEW s, StateOK(s, V), NEW i \in V, NEW o \in V,
           NEW ops \in Seq(Ops), NEW h, ApplyBy(h, s, ops, i, o, V),
           NEW k \in 1 .. Len(ops), Applied(h, k - 1, s, ops, i, o, V)
    PROVE  Applied(h, k, s, ops, i, o, V)
<1>1. PICK t : t = h[k - 1]
    OBVIOUS
<1>2. PICK rs \in Seq(Value) :
          /\ AllOf(s, t, o, rs, V)
          /\ Apart(s, i, o) => /\ Apart(t, i, o) /\ Found(t, i) = Found(s, i)
                               /\ rs = Each(Parts(Found(s, i)), SubSeq(ops, 1, k - 1))
    BY <1>1 DEF Applied
<1>3. StateOK(t, V)
    BY <1>2 DEF AllOf, PushesOf
<1>4. PICK op \in Ops : /\ op = ops[k] /\ SubSeq(ops, 1, k - 1) \in Seq(Ops)
                        /\ SubSeq(ops, 1, k) = Append(SubSeq(ops, 1, k - 1), op)
  <2>1. ops \in Seq(Ops) /\ k \in 1 .. Len(ops)
      OBVIOUS
  <2>2. /\ SubSeq(ops, 1, k - 1) \in Seq(Ops)
        /\ ops[k] \in Ops /\ SubSeq(ops, 1, k) = Append(SubSeq(ops, 1, k - 1), ops[k])
      BY ONLY <2>1, Prefixes
  <2>3. QED
      BY <2>2
<1>5. PICK u : u = h[k] /\ u = Eager(t, op, i, o)
    BY <1>1, <1>4 DEF ApplyBy
<1>6. PICK qs \in Seq(Value) : /\ AllOf(t, u, o, qs, V)
                               /\ Clear(t, i, o) => qs = Each(Emit(op), Found(t, i))
    BY <1>3, <1>5, EagerPushes
<1>7. AllOf(s, u, o, rs \o qs, V)
    BY <1>2, <1>6, PushesTwice
<1>8. rs \o qs \in Seq(Value)
    OBVIOUS
<1>9. ASSUME Apart(s, i, o)
      PROVE  /\ Apart(u, i, o) /\ Found(u, i) = Found(s, i)
             /\ rs \o qs = Each(Parts(Found(s, i)), SubSeq(ops, 1, k))
  <2>1. Apart(t, i, o) /\ Found(t, i) = Found(s, i)
      BY <1>2, <1>9
  <2>2. Apart(u, i, o) /\ Found(u, i) = Found(t, i)
    <3>1. PICK lazy \in BOOLEAN : lazy = FALSE
        OBVIOUS
    <3>2. PushesOf(t, u, o, qs, lazy, V)
        BY <1>6, <3>1 DEF AllOf
    <3>3. QED
        BY <1>3, <2>1, <3>2, ApartStays
  <2>3. Clear(t, i, o)
      BY <1>3, <2>1, ApartIsClear
  <2>4. PICK xs \in Seq(Value) : xs = Found(s, i)
      BY FoundIs
  <2>5. qs = Each(Emit(op), xs)
      BY <1>6, <2>1, <2>3, <2>4
  <2>6. PICK emit \in [Ops -> Seq(Value)] : emit = Parts(xs)
      BY PartsType
  <2>7. emit[op] = qs
      BY <2>5, <2>6, PassesOne DEF Parts
  <2>8. PICK os \in Seq(Ops) : os = SubSeq(ops, 1, k - 1)
      BY <1>4
  <2>9. Each(emit, Append(os, op)) = Each(emit, os) \o emit[op]
    <3>1. emit \in [Ops -> Seq(Value)] /\ os \in Seq(Ops) /\ op \in Ops
        OBVIOUS
    <3>2. QED
        BY ONLY <3>1, EachAppend
  <2>10. rs = Each(emit, os)
      BY <1>2, <1>9, <2>4, <2>6, <2>8
  <2>11. QED
      BY <1>4, <2>1, <2>2, <2>4, <2>6, <2>7, <2>8, <2>9, <2>10
<1>10. QED
    BY <1>5, <1>7, <1>8, <1>9 DEF Applied

\* apply pushes what each operation by itself makes of the input.
LEMMA ApplyPushes ==
    ASSUME StorageAssumption, ListsAssumption, NEW V, NEW s, StateOK(s, V), NEW i \in V, NEW o \in V,
           NEW ops \in Seq(Ops)
    PROVE  \E rs \in Seq(Value) : /\ AllOf(s, Apply(s, ops, i, o), o, rs, V)
                                  /\ Apart(s, i, o) => rs = Each(Parts(Found(s, i)), ops)
<1>1. PICK h : ApplyBy(h, s, ops, i, o, V)
    BY ApplyIs
<1>2. PICK n \in Nat : n = Len(ops)
    OBVIOUS
<1> DEFINE T == {k \in Nat : k <= n => Applied(h, k, s, ops, i, o, V)}
<1>3. 0 \in T
  <2>1. h[0] = s
      BY <1>1 DEF ApplyBy
  <2>2. PICK e : e = <<>>
      OBVIOUS
  <2>3. e \in Seq(Value)
      BY <2>2
  <2>4. AllOf(s, s, o, e, V)
    <3>2. PICK lazy \in BOOLEAN : lazy = FALSE
        OBVIOUS
    <3>3. PushesOf(s, s, o, e, lazy, V)
        BY <2>2, PushNone
    <3>4. QED
        BY <3>2, <3>3 DEF AllOf
  <2>5. e = Each(Parts(Found(s, i)), SubSeq(ops, 1, 0))
    <3>1. SubSeq(ops, 1, 0) = <<>>
        OBVIOUS
    <3>2. PICK emit \in [Ops -> Seq(Value)] : emit = Parts(Found(s, i))
        BY FoundIs, PartsType
    <3>3. emit \in [Ops -> Seq(Value)]
        OBVIOUS
    <3>4. Each(emit, <<>>) = <<>>
        BY ONLY <3>3, EachEmpty
    <3>5. QED
        BY <2>2, <3>1, <3>2, <3>4
  <2>6. Applied(h, 0, s, ops, i, o, V)
      BY <2>1, <2>3, <2>4, <2>5 DEF Applied
  <2>7. QED
      BY <2>6
<1>4. ASSUME NEW k \in Nat, k \in T
      PROVE  k + 1 \in T
  <2>1. SUFFICES ASSUME k + 1 <= n
                 PROVE  Applied(h, k + 1, s, ops, i, o, V)
      OBVIOUS
  <2>2. Applied(h, k, s, ops, i, o, V)
      BY <1>4, <2>1
  <2>3. k + 1 \in 1 .. Len(ops) /\ (k + 1) - 1 = k
    <3>1. k \in Nat
        BY <1>4
    <3>2. QED
        BY ONLY <1>2, <2>1, <3>1
  <2>4. Applied(h, (k + 1) - 1, s, ops, i, o, V)
      BY <2>2, <2>3
  <2>5. QED
      BY <1>1, <2>3, <2>4, OperationApplied
<1> HIDE DEF T
<1>5. Nat \subseteq T
    BY <1>3, <1>4, NatSetInduction
<1>6. Applied(h, n, s, ops, i, o, V)
    BY <1>5 DEF T
<1>7. SubSeq(ops, 1, n) = ops
    BY <1>2
<1>8. Apply(s, ops, i, o) = h[n]
    BY <1>1, <1>2 DEF ApplyBy
<1>9. QED
    BY <1>6, <1>7, <1>8 DEF Applied

LEMMA AppendSecond ==
    ASSUME NEW A, NEW a \in A, NEW b \in A
    PROVE  Append(<<a>>, b) = <<a, b>>
<1>1. PICK p : p = <<a>>
    OBVIOUS
<1>2. p \in Seq(A) /\ Len(p) = 1 /\ p[1] = a
    BY <1>1
<1>3. PICK q : q = <<a, b>>
    OBVIOUS
<1>4. q \in Seq(A) /\ Len(q) = 2 /\ q[1] = a /\ q[2] = b
    BY <1>3
<1>5. PICK r : r = Append(p, b)
    OBVIOUS
<1>6. r \in Seq(A) /\ Len(r) = 2 /\ r[1] = a /\ r[2] = b
    BY <1>2, <1>5
<1>7. \A k \in 1 .. 2 : r[k] = q[k]
    BY <1>4, <1>6
<1>8. r = q
    BY <1>4, <1>6, <1>7, SeqEqual
<1>9. QED
    BY <1>1, <1>3, <1>5, <1>8

LEMMA AppendThird ==
    ASSUME NEW A, NEW a \in A, NEW b \in A, NEW c \in A
    PROVE  Append(<<a, b>>, c) = <<a, b, c>>
<1>1. PICK p : p = <<a, b>>
    OBVIOUS
<1>2. p \in Seq(A) /\ Len(p) = 2 /\ p[1] = a /\ p[2] = b
    BY <1>1
<1>3. PICK q : q = <<a, b, c>>
    OBVIOUS
<1>4. q \in Seq(A) /\ Len(q) = 3 /\ q[1] = a /\ q[2] = b /\ q[3] = c
    BY <1>3
<1>5. PICK r : r = Append(p, c)
    OBVIOUS
<1>6. r \in Seq(A) /\ Len(r) = 3 /\ r[1] = a /\ r[2] = b /\ r[3] = c
  <2>1. p \in Seq(A) /\ c \in A
      BY <1>2
  <2>2. /\ r \in Seq(A) /\ Len(r) = Len(p) + 1 /\ r[Len(p) + 1] = c
        /\ \A k \in 1 .. Len(p) : r[k] = p[k]
      BY ONLY <1>5, <2>1, AppendProperties
  <2>3. QED
      BY <1>2, <2>2
<1>7. \A k \in 1 .. 3 : r[k] = q[k]
    BY <1>4, <1>6
<1>8. r = q
    BY <1>4, <1>6, <1>7, SeqEqual
<1>9. QED
    BY <1>1, <1>3, <1>5, <1>8

\* What | makes of two operations, or of three, is what they make one after the other.
LEMMA FusedAgrees ==
    ASSUME ListsAssumption, NEW ops \in Lists, Len(ops) \in {2, 3}
    PROVE  [x \in Value |-> IF Len(ops) = 2 THEN FusedPair(ops[1], ops[2], x)
                            ELSE MapFilterMap(ops[1], ops[2], ops[3], x)] = Emitted(ops)
<1>1. ops \in Seq(Ops)
    BY DEF ListsAssumption, Ops
<1>2. PICK a \in Ops : a = ops[1]
    BY <1>1
<1>3. PICK b \in Ops : b = ops[2]
    BY <1>1
<1>4. ASSUME NEW op \in Ops, NEW x \in Value
      PROVE  /\ IsMap(op) => Emit(op)[x] = <<Map[op][x]>> /\ Map[op][x] \in Value
             /\ ~ IsMap(op) => Emit(op)[x] = IF x \in Keep[op] THEN <<x>> ELSE <<>>
    BY DEF Emit, ListsAssumption, IsMap
<1>5. ASSUME NEW op \in Ops, NEW x \in Value
      PROVE  Each(Emit(op), <<x>>) = Emit(op)[x] /\ Each(Emit(op), <<>>) = <<>>
  <2>1. Emit(op) \in [Value -> Seq(Value)] /\ x \in Value
      BY EmitType
  <2>2. QED
      BY ONLY <2>1, EachOne, EachEmpty
\* The first two.
<1>6. ASSUME NEW x \in Value
      PROVE  Passes(<<a, b>>, <<x>>) = Each(Emit(b), Emit(a)[x])
  <2>1. PICK one : one = <<a>>
      OBVIOUS
  <2>2. one \in Seq(Ops) /\ Append(one, b) = <<a, b>> /\ <<x>> \in Seq(Value)
    <3>1. <<a>> \in Seq(Ops) /\ Append(<<a>>, b) = <<a, b>>
      <4>1. a \in Ops /\ b \in Ops
          OBVIOUS
      <4>2. Append(<<a>>, b) = <<a, b>>
          BY ONLY <4>1, AppendSecond
      <4>3. QED
          BY <4>2
    <3>2. <<x>> \in Seq(Value)
        OBVIOUS
    <3>3. QED
        BY <2>1, <3>1, <3>2
  <2>3. Passes(Append(one, b), <<x>>) = Each(Emit(b), Passes(one, <<x>>))
      BY <2>2, PassesAppend
  <2>4. Passes(one, <<x>>) = Each(Emit(a), <<x>>)
      BY <2>1, <2>2, PassesOne
  <2>5. QED
      BY <1>5, <2>2, <2>3, <2>4
<1>7. CASE Len(ops) = 2
  <2>1. IsMap(a) \/ ~ IsMap(b)
      BY <1>2, <1>3, <1>7 DEF ListsAssumption
  <2>2. ops = <<a, b>>
      BY <1>1, <1>2, <1>3, <1>7
  <2>3. ASSUME NEW x \in Value
        PROVE  FusedPair(a, b, x) = Passes(ops, <<x>>)
    <3>1. Passes(ops, <<x>>) = Each(Emit(b), Emit(a)[x])
        BY <1>6, <2>2
    <3>2. CASE IsMap(a) /\ IsMap(b)
      <4>1. PICK y \in Value : y = Map[a][x] /\ Emit(a)[x] = <<y>>
        <5>1. Emit(a)[x] = <<Map[a][x]>> /\ Map[a][x] \in Value
            BY <1>4, <3>2
        <5>2. QED
            BY <5>1
      <4>2. Each(Emit(b), <<y>>) = <<Map[b][y]>>
          BY <1>4, <1>5, <3>2
      <4>3. QED
          BY <3>1, <3>2, <4>1, <4>2 DEF FusedPair
    <3>3. CASE IsMap(a) /\ ~ IsMap(b)
      <4>1. PICK y \in Value : y = Map[a][x] /\ Emit(a)[x] = <<y>>
        <5>1. Emit(a)[x] = <<Map[a][x]>> /\ Map[a][x] \in Value
            BY <1>4, <3>3
        <5>2. QED
            BY <5>1
      <4>2. Each(Emit(b), <<y>>) = IF y \in Keep[b] THEN <<y>> ELSE <<>>
          BY <1>4, <1>5, <3>3
      <4>3. QED
          BY <3>1, <3>3, <4>1, <4>2 DEF FusedPair
    <3>4. CASE ~ IsMap(a) /\ ~ IsMap(b)
      <4>1. Emit(a)[x] = IF x \in Keep[a] THEN <<x>> ELSE <<>>
          BY <1>4, <3>4
      <4>2. Each(Emit(b), <<x>>) = IF x \in Keep[b] THEN <<x>> ELSE <<>>
          BY <1>4, <1>5, <3>4
      <4>3. Each(Emit(b), <<>>) = <<>>
          BY <1>5
      <4>4. QED
          BY <3>1, <3>4, <4>1, <4>2, <4>3 DEF FusedPair
    <3>5. QED
        BY <2>1, <3>2, <3>3, <3>4
  <2>4. QED
      BY <1>2, <1>3, <1>7, <2>3 DEF Emitted
<1>8. CASE Len(ops) = 3
  <2>1. PICK c \in Ops : c = ops[3]
      BY <1>1, <1>8
  <2>2. IsMap(a) /\ ~ IsMap(b) /\ IsMap(c)
      BY <1>2, <1>3, <1>8, <2>1 DEF ListsAssumption
  <2>3. ops = <<a, b, c>>
      BY <1>1, <1>2, <1>3, <1>8, <2>1
  <2>4. ASSUME NEW x \in Value
        PROVE  MapFilterMap(a, b, c, x) = Passes(ops, <<x>>)
    <3>1. PICK two : two = <<a, b>>
        OBVIOUS
    <3>2. two \in Seq(Ops) /\ Append(two, c) = <<a, b, c>> /\ <<x>> \in Seq(Value)
      <4>1. <<a, b>> \in Seq(Ops)
          OBVIOUS
      <4>2. Append(<<a, b>>, c) = <<a, b, c>>
        <5>1. a \in Ops /\ b \in Ops /\ c \in Ops
            OBVIOUS
        <5>2. QED
            BY ONLY <5>1, AppendThird
      <4>3. <<x>> \in Seq(Value)
          OBVIOUS
      <4>4. QED
          BY <3>1, <4>1, <4>2, <4>3
    <3>3. Passes(Append(two, c), <<x>>) = Each(Emit(c), Passes(two, <<x>>))
        BY <3>2, PassesAppend
    <3>4. PICK y \in Value : y = Map[a][x] /\ Emit(a)[x] = <<y>>
      <4>1. Emit(a)[x] = <<Map[a][x]>> /\ Map[a][x] \in Value
          BY <1>4, <2>2
      <4>2. QED
          BY <4>1
    <3>5. Passes(two, <<x>>) = IF y \in Keep[b] THEN <<y>> ELSE <<>>
      <4>1. Passes(two, <<x>>) = Each(Emit(b), <<y>>)
          BY <1>6, <3>1, <3>4
      <4>2. Each(Emit(b), <<y>>) = Emit(b)[y]
          BY <1>5
      <4>3. Emit(b)[y] = IF y \in Keep[b] THEN <<y>> ELSE <<>>
          BY <1>4, <2>2
      <4>4. QED
          BY <4>1, <4>2, <4>3
    <3>6. Each(Emit(c), <<y>>) = <<Map[c][y]>> /\ Each(Emit(c), <<>>) = <<>>
        BY <1>4, <1>5, <2>2
    <3>7. QED
        BY <2>3, <3>2, <3>3, <3>4, <3>5, <3>6 DEF MapFilterMap
  <2>5. QED
      BY <1>2, <1>3, <1>8, <2>1, <2>4 DEF Emitted
<1>9. QED
    BY <1>7, <1>8

\* The loops that end with the first push that fails.
Lazily(kind) == kind \notin {"eager", "apply"}

LEMMA BehindIsClear ==
    ASSUME NEW V, StorageAssumption, NEW s, s = Now, StateOK(s, V), NEW i \in V, NEW o \in V
    PROVE  /\ Behind(i, o) => Clear(s, i, o)
           /\ Contents(i) = Found(s, i)
           /\ Part(i) \cap Part(o) = {} => Apart(s, i, o)
<1>1. s.mem = mem /\ s.views = views
    BY DEF Now
<1>2. PICK y : y = views[o]
    OBVIOUS
<1>3. y.count \in Nat /\ y.capacity \in Nat /\ y.count <= y.capacity
    BY <1>1, <1>2 DEF StateOK, Sound, ViewType
<1>4. ~ CanWrite(o) => y.capacity - y.count = 0
    BY <1>2, <1>3 DEF CanWrite
<1>5. Behind(i, o) => Clear(s, i, o)
    BY <1>1, <1>2, <1>4 DEF Behind, Clear, End, Space
<1>6. QED
    BY <1>1, <1>5 DEF Contents, Found, Part, Apart

\* Whatever way the operations are run, the output is pushed some elements, the
\* results if nothing disturbs the input.
LEMMA RanPushes ==
    ASSUME StorageAssumption, ListsAssumption, NEW V, NEW s, s = Now, StateOK(s, V),
           NEW i \in V, NEW o \in V, NEW ops \in Lists, NEW kind \in Kinds(ops)
    PROVE  \E rs \in Seq(Value) :
               /\ PushesOf(s, Ran(kind, ops, i, o), o, rs, Lazily(kind), V)
               /\ Undisturbed(kind, i, o) => rs = Results(kind, ops, Contents(i))
<1>1. ops \in Seq(Ops) /\ Len(ops) \in 1 .. 3
    BY DEF ListsAssumption, Ops
<1>2. PICK xs \in Seq(Value) : xs = Found(s, i) /\ xs = Contents(i)
  <2>1. Found(s, i) \in Seq(Value)
      BY FoundIs
  <2>2. Contents(i) = Found(s, i)
      BY BehindIsClear
  <2>3. QED
      BY <2>1, <2>2
<1>3. Undisturbed(kind, i, o) => /\ Clear(s, i, o)
                                 /\ kind = "apply" => Apart(s, i, o)
    BY BehindIsClear DEF Undisturbed
<1>4. CASE kind = "eager"
  <2>1. Len(ops) = 1
      BY <1>1, <1>4 DEF Kinds
  <2>2. PICK op \in Ops : op = ops[1] /\ ops = <<op>>
    <3>1. ops[1] \in Ops /\ ops = <<ops[1]>>
        BY ONLY <1>1, <2>1, OneElement
    <3>2. QED
        BY <3>1
  <2>3. PICK rs \in Seq(Value) : AllOf(s, Eager(s, op, i, o), o, rs, V)
                                 /\ (Clear(s, i, o) => rs = Each(Emit(op), xs))
    <3>1. \E rs \in Seq(Value) : AllOf(s, Eager(s, op, i, o), o, rs, V)
                                 /\ (Clear(s, i, o) => rs = Each(Emit(op), Found(s, i)))
        BY EagerPushes
    <3>2. QED
        BY <1>2, <3>1
  <2>4. Ran(kind, ops, i, o) = Eager(s, op, i, o)
      BY <1>4, <2>2 DEF Ran
  <2>5. Lazily(kind) = FALSE
      BY <1>4 DEF Lazily
  <2>6. PushesOf(s, Ran(kind, ops, i, o), o, rs, Lazily(kind), V)
      BY <2>3, <2>4, <2>5 DEF AllOf
  <2>7. Results(kind, ops, xs) = Each(Emit(op), xs)
      BY <1>4, <2>2, PassesOne DEF Results
  <2>8. QED
      BY <1>2, <1>3, <2>3, <2>6, <2>7
<1>5. CASE kind = "truncating"
  <2>1. Len(ops) = 1
      BY <1>1, <1>5 DEF Kinds
  <2>2. PICK op \in Ops : op = ops[1] /\ ops = <<op>>
    <3>1. ops[1] \in Ops /\ ops = <<ops[1]>>
        BY ONLY <1>1, <2>1, OneElement
    <3>2. QED
        BY <3>1
  <2>3. Emits(Emit(op))
      BY EmitType DEF Emits
  <2>4. PICK lazy \in BOOLEAN : lazy = TRUE
      OBVIOUS
  <2>5. PICK emitted : emitted = Emit(op)
      OBVIOUS
  <2>6. PICK rs \in Seq(Value) : PushesOf(s, Loop(s, emitted, lazy, i, o), o, rs, lazy, V)
                                 /\ (Clear(s, i, o) => rs = Each(emitted, xs))
    <3>1. Emits(emitted)
        BY <2>3, <2>5
    <3>2. \E rs \in Seq(Value) : PushesOf(s, Loop(s, emitted, lazy, i, o), o, rs, lazy, V)
                                 /\ (Clear(s, i, o) => rs = Each(emitted, Found(s, i)))
        BY <3>1, LoopPushes
    <3>3. QED
        BY <1>2, <3>2
  <2>7. Ran(kind, ops, i, o) = Loop(s, emitted, lazy, i, o)
      BY <1>5, <2>2, <2>4, <2>5 DEF Ran, Truncating
  <2>8. Lazily(kind) = lazy
      BY <1>5, <2>4 DEF Lazily
  <2>9. PushesOf(s, Ran(kind, ops, i, o), o, rs, Lazily(kind), V)
      BY <2>6, <2>7, <2>8
  <2>10. Results(kind, ops, xs) = Each(Emit(op), xs)
      BY <1>5, <2>2, PassesOne DEF Results
  <2>11. QED
      BY <1>2, <1>3, <2>5, <2>6, <2>9, <2>10
<1>6. CASE kind \in {"pipeline", "fused"}
  <2>1. PICK lazy \in BOOLEAN : lazy = TRUE
      OBVIOUS
  <2>2. PICK emitted : emitted = Emitted(ops)
      OBVIOUS
  <2>3. Emits(emitted)
      BY <1>1, <2>2, EmittedType DEF Emits
  <2>4. PICK rs \in Seq(Value) : PushesOf(s, Loop(s, emitted, lazy, i, o), o, rs, lazy, V)
                                 /\ (Clear(s, i, o) => rs = Each(emitted, xs))
    <3>1. Emits(emitted)
        BY <2>3
    <3>2. \E rs \in Seq(Value) : PushesOf(s, Loop(s, emitted, lazy, i, o), o, rs, lazy, V)
                                 /\ (Clear(s, i, o) => rs = Each(emitted, Found(s, i)))
        BY <3>1, LoopPushes
    <3>3. QED
        BY <1>2, <3>2
  <2>5. Ran(kind, ops, i, o) = Loop(s, emitted, lazy, i, o)
    <3>1. CASE kind = "pipeline"
        BY <2>1, <2>2, <3>1 DEF Ran, Pipeline
    <3>2. CASE kind = "fused"
      <4>1. Len(ops) \in {2, 3}
          BY <1>1, <3>2 DEF Kinds
      <4>2. PICK fused : fused = [x \in Value |-> IF Len(ops) = 2 THEN FusedPair(ops[1], ops[2], x)
                                                  ELSE MapFilterMap(ops[1], ops[2], ops[3], x)]
          OBVIOUS
      <4>3. fused = emitted
          BY <2>2, <4>1, <4>2, FusedAgrees
      <4>4. Ran(kind, ops, i, o) = Loop(s, fused, TRUE, i, o)
          BY <3>2, <4>2 DEF Ran, Fused
      <4>5. QED
          BY <2>1, <4>3, <4>4
    <3>3. QED
        BY <1>6, <3>1, <3>2
  <2>6. Lazily(kind) = lazy
      BY <1>6, <2>1 DEF Lazily
  <2>7. PushesOf(s, Ran(kind, ops, i, o), o, rs, Lazily(kind), V)
      BY <2>4, <2>5, <2>6
  <2>8. Results(kind, ops, xs) = Passes(ops, xs)
      BY <1>6 DEF Results
  <2>9. Each(emitted, xs) = Passes(ops, xs)
      BY <1>1, <2>2, Fusion
  <2>10. QED
      BY <1>2, <1>3, <2>4, <2>7, <2>8, <2>9
<1>7. CASE kind = "apply"
  <2>1. PICK rs \in Seq(Value) : AllOf(s, Apply(s, ops, i, o), o, rs, V)
                                 /\ (Apart(s, i, o) => rs = Each(Parts(xs), ops))
    <3>1. \E rs \in Seq(Value) : AllOf(s, Apply(s, ops, i, o), o, rs, V)
                                 /\ (Apart(s, i, o) => rs = Each(Parts(Found(s, i)), ops))
        BY <1>1, ApplyPushes
    <3>2. QED
        BY <1>2, <3>1
  <2>2. Ran(kind, ops, i, o) = Apply(s, ops, i, o)
      BY <1>7 DEF Ran
  <2>3. Lazily(kind) = FALSE
      BY <1>7 DEF Lazily
  <2>4. PushesOf(s, Ran(kind, ops, i, o), o, rs, Lazily(kind), V)
      BY <2>1, <2>2, <2>3 DEF AllOf
  <2>5. Results(kind, ops, xs) = Each(Parts(xs), ops)
      BY <1>7 DEF Results, Parts, Ops
  <2>6. QED
      BY <1>2, <1>3, <1>7, <2>1, <2>4, <2>5
<1>8. kind \in {"eager", "truncating", "apply", "pipeline", "fused"}
    BY DEF Kinds
<1>9. QED
    BY <1>4, <1>5, <1>6, <1>7, <1>8

\* A bounded list after a list was added, by its places.
LEMMA FittingIs ==
    ASSUME NEW list \in Seq(Value), NEW xs \in Seq(Value), NEW room \in Nat, Len(list) <= room
    PROVE  /\ Fitting(list, xs, room) \in Seq(Value)
           /\ Len(Fitting(list, xs, room)) = Len(list) + Fit(xs, room - Len(list))
           /\ \A k \in 1 .. Len(list) : Fitting(list, xs, room)[k] = list[k]
           /\ \A k \in 1 .. Fit(xs, room - Len(list)) : Fitting(list, xs, room)[Len(list) + k] = xs[k]
<1>1. PICK m \in Nat : m = Len(list) /\ m <= room
    OBVIOUS
<1>2. PICK n \in Nat : n = Len(xs)
    OBVIOUS
<1>3. PICK all : all = list \o xs
    OBVIOUS
<1>4. all \in Seq(Value) /\ Len(all) = m + n
    BY <1>1, <1>2, <1>3
<1>5. \A k \in 1 .. m : all[k] = list[k]
    BY <1>1, <1>2, <1>3
<1>6. \A k \in 1 .. n : all[m + k] = xs[k]
    BY <1>1, <1>2, <1>3
<1>7. PICK fit \in Nat : fit = Fit(xs, room - m) /\ fit <= n /\ fit = IF m + n < room THEN n ELSE room - m
    BY <1>1, <1>2 DEF Fit
<1>8. (IF Len(all) < room THEN Len(all) ELSE room) = m + fit
    BY <1>1, <1>4, <1>7
<1>9. PICK some : some = SubSeq(all, 1, m + fit)
    OBVIOUS
<1>10. some \in Seq(Value) /\ Len(some) = m + fit /\ \A k \in 1 .. m + fit : some[k] = all[k]
  <2>1. m + fit <= Len(all) /\ m + fit \in Nat
      BY <1>4, <1>7
  <2>2. PICK l \in Nat : l = m + fit /\ l <= Len(all)
      BY <2>1
  <2>3. some = SubSeq(all, 1, l)
      BY <1>9, <2>2
  <2>4. some \in Seq(Value) /\ Len(some) = l /\ \A k \in 1 .. l : some[k] = all[k]
      BY <1>4, <2>2, <2>3
  <2>5. QED
      BY <2>2, <2>4
<1>11. Fitting(list, xs, room) = some
    BY <1>3, <1>8, <1>9 DEF Fitting
<1>12. \A k \in 1 .. m : some[k] = list[k]
    BY <1>5, <1>10
<1>13. \A k \in 1 .. fit : some[m + k] = xs[k]
  <2>1. \A k \in 1 .. fit : k \in 1 .. n /\ m + k \in 1 .. m + fit
      BY <1>7
  <2>2. QED
      BY <1>6, <1>10, <2>1
<1>14. QED
    BY <1>1, <1>7, <1>10, <1>11, <1>12, <1>13

-----------------------------------------------------------------------------
(* The results of the runs *)

LEMMA SameView ==
    ASSUME NEW p \in ViewType, NEW q \in ViewType,
           p.base = q.base, p.count = q.count, p.capacity = q.capacity, p.overflow = q.overflow
    PROVE  p = q
    BY DEF ViewType

\* RanPushes in the terms of AlgorithmsAgree.
LEMMA RunsAgree ==
    ASSUME StorageAssumption, ListsAssumption, NEW V, NEW s, s = Now, StateOK(s, V),
           NEW i \in V, NEW o \in V, NEW ops \in Lists, NEW kind \in Kinds(ops),
           Undisturbed(kind, i, o)
    PROVE  RunAgrees(kind, ops, i, o)
<1>1. PICK after : after = Ran(kind, ops, i, o)
    OBVIOUS
<1>2. PICK rs \in Seq(Value) : /\ PushesOf(s, after, o, rs, Lazily(kind), V)
                               /\ rs = Results(kind, ops, Contents(i))
    BY <1>1, RanPushes
<1>3. s.mem = mem /\ s.views = views
    BY DEF Now
<1>4. PICK old : old = s.views[o]
    OBVIOUS
<1>5. PICK new : new = after.views[o]
    OBVIOUS
<1>6. StateOK(after, V)
    BY <1>2 DEF PushesOf
<1>7. old \in ViewType /\ new \in ViewType /\ after.views \in [V -> ViewType] /\ s.views \in [V -> ViewType]
      /\ after.mem \in [1 .. Size -> Value]
    BY <1>4, <1>5, <1>6 DEF StateOK
<1>8. PICK room \in Nat : room = Space(s, o) /\ room = old.capacity - old.count
    BY <1>4, SpaceType DEF Space
<1>9. PICK none : none = <<>>
    OBVIOUS
<1>10. none \in Seq(Value) /\ Len(none) = 0
    BY <1>9
<1>11. PICK fit : fit = Fitting(none, rs, room)
    OBVIOUS
<1>12. PICK n \in Nat : n = Len(rs)
    OBVIOUS
<1>13. PICK m \in Nat : m = Fit(rs, room) /\ m <= n /\ (m = n <=> n <= room)
  <2>1. Fit(rs, room) = IF n < room THEN n ELSE room
      BY <1>12 DEF Fit
  <2>2. PICK m : m = IF n < room THEN n ELSE room
      OBVIOUS
  <2>3. m \in Nat /\ m <= n
      BY <2>2
  <2>4. m = n <=> n <= room
      BY <2>2
  <2>5. QED
      BY <2>1, <2>2, <2>3, <2>4
<1>14. fit \in Seq(Value) /\ Len(fit) = m /\ \A k \in 1 .. m : fit[k] = rs[k]
  <2>1. Len(none) <= room /\ room - Len(none) = room
      BY <1>10
  <2>2. /\ fit \in Seq(Value) /\ Len(fit) = Len(none) + Fit(rs, room - Len(none))
        /\ \A k \in 1 .. Fit(rs, room - Len(none)) : fit[Len(none) + k] = rs[k]
    <3>1. /\ Fitting(none, rs, room) \in Seq(Value)
          /\ Len(Fitting(none, rs, room)) = Len(none) + Fit(rs, room - Len(none))
          /\ \A k \in 1 .. Fit(rs, room - Len(none)) : Fitting(none, rs, room)[Len(none) + k] = rs[k]
      <4>1. none \in Seq(Value) /\ rs \in Seq(Value) /\ room \in Nat /\ Len(none) <= room
          BY <1>10, <2>1
      <4>2. QED
          BY ONLY <4>1, FittingIs
    <3>2. QED
        BY <1>11, <3>1
  <2>3. \A k \in 1 .. m : fit[0 + k] = rs[k] /\ 0 + k = k
      BY <1>10, <1>13, <2>1, <2>2
  <2>4. QED
      BY <1>10, <1>13, <2>1, <2>2, <2>3
<1>15. PICK lost : lost = Len(rs) - Len(fit)
    OBVIOUS
<1>16. lost = n - m
    BY <1>12, <1>14, <1>15
<1>17. PICK more : more = IF kind \in {"eager", "apply"} \/ lost = 0 THEN lost ELSE 1
    OBVIOUS
<1>18. Lost(rs, room, Lazily(kind)) = more
  <2>1. CASE kind \in {"eager", "apply"}
      BY <1>12, <1>13, <1>16, <1>17, <2>1 DEF Lost, Lazily
  <2>2. CASE kind \notin {"eager", "apply"} /\ lost = 0
    <3>1. ~ (n > room)
        BY <1>13, <1>16, <2>2
    <3>2. QED
        BY <1>12, <1>13, <1>16, <1>17, <2>2, <3>1 DEF Lost
  <2>3. CASE kind \notin {"eager", "apply"} /\ lost # 0
    <3>1. n > room
        BY <1>13, <1>16, <2>3
    <3>2. QED
        BY <1>12, <1>17, <2>3, <3>1 DEF Lost, Lazily
  <2>4. QED
      BY <2>1, <2>2, <2>3
<1>19. /\ new.base = old.base /\ new.capacity = old.capacity
       /\ new.count = old.count + Len(fit) /\ new.overflow = old.overflow + more
    BY <1>2, <1>4, <1>5, <1>8, <1>13, <1>14, <1>18 DEF PushesOf
<1>20. new = [old EXCEPT !.count = @ + Len(fit), !.overflow = @ + more]
  <2>1. PICK z : z = [old EXCEPT !.count = @ + Len(fit), !.overflow = @ + more]
      OBVIOUS
  <2>2. /\ z.base = old.base /\ z.capacity = old.capacity
        /\ z.count = old.count + Len(fit) /\ z.overflow = old.overflow + more
      BY <1>7, <2>1 DEF ViewType
  <2>3. z \in ViewType
    <3>1. old.count + Len(fit) \in Nat /\ old.overflow + more \in Nat
        BY <1>7, <1>19 DEF ViewType
    <3>2. QED
        BY <1>7, <2>1, <3>1 DEF ViewType
  <2>4. QED
      BY <1>7, <1>19, <2>1, <2>2, <2>3, SameView
<1>21. after.views = [views EXCEPT ![o] = new]
  <2>1. \A v \in V : v # o => after.views[v] = s.views[v]
      BY <1>2 DEF PushesOf
  <2>2. QED
      BY <1>3, <1>5, <1>7, <2>1
<1>22. after.mem = [a \in 1 .. Size |-> IF a - old.base - old.count \in DOMAIN fit
                                        THEN fit[a - old.base - old.count] ELSE mem[a]]
  <2>1. ASSUME NEW a \in 1 .. Size
        PROVE  after.mem[a] = IF a - old.base - old.count \in DOMAIN fit
                              THEN fit[a - old.base - old.count] ELSE mem[a]
    <3>1. after.mem[a] = IF a - End(s, o) \in 1 .. m THEN rs[a - End(s, o)] ELSE s.mem[a]
        BY <1>2, <1>8, <1>13 DEF PushesOf
    <3>2. PICK e \in Nat : e = End(s, o) /\ e = old.base + old.count
        BY <1>4, SpaceType DEF End
    <3>3. a - old.base - old.count = a - e
      <4>1. ASSUME NEW b \in Nat, NEW c \in Nat, e = b + c
            PROVE  a - b - c = a - e
          BY <4>1
      <4>2. old.base \in Nat /\ old.count \in Nat
          BY <1>7 DEF ViewType, StorageAssumption
      <4>3. QED
          BY <3>2, <4>1, <4>2
    <3>4. DOMAIN fit = 1 .. m
        BY <1>14
    <3>5. QED
        BY <1>3, <1>14, <3>1, <3>2, <3>3, <3>4
  <2>2. QED
      BY <1>7, <2>1
<1>23. views[o] = old /\ Ran(kind, ops, i, o).views[o] = new
    BY <1>1, <1>3, <1>4, <1>5
<1>24. Fitting(<<>>, Results(kind, ops, Contents(i)), old.capacity - old.count) = fit
    BY <1>2, <1>8, <1>9, <1>11
<1>25. QED
    BY <1>1, <1>2, <1>15, <1>17, <1>20, <1>21, <1>22, <1>23, <1>24 DEF RunAgrees

-----------------------------------------------------------------------------
(* The inductive invariant *)

\* The roots that a view reaches.
Reaches(s, v) ==
    {r \in Root : (s.views[v].base + 1 .. s.views[v].base + s.views[v].capacity)
                      \cap (s.views[r].base + 1 .. s.views[r].base + s.views[r].capacity) # {}}

\* The storage and the views are sound, the roots are where they were wrapped, a slice
\* that can write reaches only roots that are taken for spoiled, and the others hold
\* what they were given.
Ind(s, h, sp) ==
    /\ StateOK(s, DOMAIN s.views)
    /\ h \in [Root -> Seq(Value)] /\ sp \subseteq Root
    /\ Root \subseteq DOMAIN s.views /\ DOMAIN s.views \subseteq Root \cup SliceName
    /\ \A r \in Root : s.views[r].base = Base[r] /\ s.views[r].capacity = Room[r]
    /\ \A v \in DOMAIN s.views : v \notin Root /\ Space(s, v) # 0 => Reaches(s, v) \subseteq sp
    /\ \A r \in Root : r \notin sp => Found(s, r) = h[r]

BufferInd == Ind(Now, held, spoiled)

\* A view that can write shares no element with a root that keeps its own.
LEMMA RootsApart ==
    ASSUME StorageAssumption, NEW s, NEW h, NEW sp, Ind(s, h, sp),
           NEW r \in Root, NEW o \in DOMAIN s.views, r # o, r \notin sp, Space(s, o) # 0
    PROVE  Apart(s, r, o)
<1>1. CASE o \in Root
  <2>1. /\ s.views[r].base = Base[r] /\ s.views[r].capacity = Room[r]
        /\ s.views[o].base = Base[o] /\ s.views[o].capacity = Room[o]
      BY <1>1 DEF Ind
  <2>2. PICK br \in Nat : br = Base[r]
      BY DEF StorageAssumption
  <2>3. PICK bo \in Nat : bo = Base[o]
      BY <1>1 DEF StorageAssumption
  <2>4. PICK cr \in Nat : cr = Room[r]
      BY DEF StorageAssumption
  <2>5. PICK co \in Nat : co = Room[o]
      BY <1>1 DEF StorageAssumption
  <2>6. br + cr <= bo \/ bo + co <= br
      BY <1>1, <2>2, <2>3, <2>4, <2>5 DEF StorageAssumption
  <2>7. (br + 1 .. br + cr) \cap (bo + 1 .. bo + co) = {}
      BY <2>6
  <2>8. QED
      BY <2>1, <2>2, <2>3, <2>4, <2>5, <2>7 DEF Apart
<1>2. CASE o \notin Root
  <2>1. r \notin Reaches(s, o)
      BY <1>2 DEF Ind
  <2>2. QED
      BY <2>1 DEF Reaches, Apart
<1>3. QED
    BY <1>1, <1>2

\* The histories after rs were given to the view o.
Keeps(h, h2, o, rs, sp2) ==
    /\ h2 \in [Root -> Seq(Value)]
    /\ \A r \in Root : r \notin sp2 => h2[r] = IF r = o THEN Fitting(h[r], rs, Room[r]) ELSE h[r]

\* A push, or what an algorithm pushes.
LEMMA PushesKeep ==
    ASSUME StorageAssumption, NEW s, NEW h, NEW sp, Ind(s, h, sp), NEW o \in DOMAIN s.views,
           NEW lazy \in BOOLEAN, NEW rs \in Seq(Value), NEW t, PushesOf(s, t, o, rs, lazy, DOMAIN s.views),
           NEW sp2 \in SUBSET Root, sp \subseteq sp2, NEW h2, Keeps(h, h2, o, rs, sp2)
    PROVE  Ind(t, h2, sp2)
<1>a. /\ h2 \in [Root -> Seq(Value)]
      /\ \A r \in Root : r \notin sp2 => h2[r] = IF r = o THEN Fitting(h[r], rs, Room[r]) ELSE h[r]
    BY DEF Keeps
<1>1. PICK V : V = DOMAIN s.views
    OBVIOUS
<1>2. StateOK(s, V) /\ StateOK(t, V) /\ PushesOf(s, t, o, rs, lazy, V) /\ o \in V
    BY <1>1 DEF Ind, PushesOf
<1>3. DOMAIN t.views = V
    BY <1>2 DEF StateOK
<1>4. \A v \in V : t.views[v].base = s.views[v].base /\ t.views[v].capacity = s.views[v].capacity
    BY <1>2 DEF PushesOf
<1>5. PICK room \in Nat : room = Space(s, o)
    BY <1>2, SpaceType
<1>6. PICK e \in Nat : e = End(s, o)
    BY <1>2, SpaceType
<1>7. PICK n \in Nat : n = Len(rs)
    OBVIOUS
<1>8. PICK fit \in Nat : fit = Fit(rs, room) /\ fit <= room /\ fit <= n
    BY <1>7 DEF Fit
<1>9. t.views[o].count = s.views[o].count + fit
    BY <1>2, <1>5, <1>8 DEF PushesOf
<1>10. Root \subseteq V /\ V \subseteq Root \cup SliceName
    BY <1>1 DEF Ind
<1>11. \A r \in Root : t.views[r].base = Base[r] /\ t.views[r].capacity = Room[r]
    BY <1>4, <1>10 DEF Ind
<1>12. ASSUME NEW v \in V, v \notin Root, Space(t, v) # 0
       PROVE  Reaches(t, v) \subseteq sp2
  <2>1. Reaches(t, v) = Reaches(s, v)
      BY <1>4, <1>10 DEF Reaches
  <2>2. Space(s, v) # 0
    <3>1. CASE v = o
      <4>1. Space(t, o) = t.views[o].capacity - t.views[o].count /\ t.views[o].capacity = s.views[o].capacity
          BY <1>2, <1>4 DEF Space
      <4>2. PICK c \in Nat : c = s.views[o].capacity
          BY <1>2 DEF StateOK, Sound, ViewType
      <4>3. PICK k \in Nat : k = s.views[o].count
          BY <1>2 DEF StateOK, Sound, ViewType
      <4>4. room = c - k
          BY <1>5, <4>2, <4>3 DEF Space
      <4>5. Space(t, o) = c - (k + fit)
          BY <1>9, <4>1, <4>2, <4>3
      <4>6. room # 0
          BY <1>8, <1>12, <3>1, <4>4, <4>5
      <4>7. QED
          BY <1>5, <3>1, <4>6
    <3>2. CASE v # o
        BY <1>2, <1>12, <3>2 DEF PushesOf, Space
    <3>3. QED
        BY <3>1, <3>2
  <2>3. Reaches(s, v) \subseteq sp
      BY <1>1, <1>12, <2>2 DEF Ind
  <2>4. QED
      BY <2>1, <2>3
<1>13. ASSUME NEW r \in Root, r \notin sp2
       PROVE  Found(t, r) = h2[r]
  <2>1. Found(s, r) = h[r] /\ r \notin sp /\ r \in V /\ h[r] \in Seq(Value)
      BY <1>10, <1>13 DEF Ind
  <2>2. CASE r # o
    <3>1. h2[r] = h[r]
        BY <1>a, <1>13, <2>2
    <3>2. CASE Space(s, o) = 0
      <4>1. fit = 0
          BY <1>5, <1>8, <3>2
      <4>2. t.mem \in [1 .. Size -> Value] /\ s.mem \in [1 .. Size -> Value]
          BY <1>2 DEF StateOK
      <4>3. \A a \in 1 .. Size : t.mem[a] = s.mem[a]
        <5>1. \A k : k \notin 1 .. 0
            OBVIOUS
        <5>2. \A a \in 1 .. Size : t.mem[a] = IF a - e \in 1 .. 0 THEN rs[a - e] ELSE s.mem[a]
            BY <1>2, <1>5, <1>6, <1>8, <4>1 DEF PushesOf
        <5>3. QED
            BY <5>1, <5>2
      <4>4. t.mem = s.mem
        <5>1. PICK m \in [1 .. Size -> Value] : m = t.mem
            BY <4>2
        <5>2. PICK m2 \in [1 .. Size -> Value] : m2 = s.mem
            BY <4>2
        <5>3. \A a \in 1 .. Size : m[a] = m2[a]
            BY <4>3, <5>1, <5>2
        <5>4. m = [a \in 1 .. Size |-> m[a]] /\ m2 = [a \in 1 .. Size |-> m2[a]]
            OBVIOUS
        <5>5. [a \in 1 .. Size |-> m[a]] = [a \in 1 .. Size |-> m2[a]]
            BY <5>3
        <5>6. m = m2
            BY ONLY <5>4, <5>5
        <5>7. QED
            BY <5>1, <5>2, <5>6
      <4>5. t.views[r] = s.views[r]
          BY <1>2, <2>1, <2>2 DEF PushesOf
      <4>6. Found(t, r) = Found(s, r)
          BY <4>4, <4>5 DEF Found
      <4>7. QED
          BY <2>1, <3>1, <4>6
    <3>3. CASE Space(s, o) # 0
      <4>1. Apart(s, r, o)
          BY <2>1, <2>2, <3>3, RootsApart
      <4>2. Found(t, r) = Found(s, r)
          BY <1>2, <2>1, <4>1, ApartStays
      <4>3. QED
          BY <2>1, <3>1, <4>2
    <3>4. QED
        BY <3>2, <3>3
  <2>3. CASE r = o
    <3>1. h2[r] = Fitting(h[r], rs, Room[r])
        BY <1>a, <1>13, <2>3
    <3>2. PICK b \in Nat : b = s.views[o].base
        BY <1>2, FoundIs
    <3>3. PICK c \in Nat : c = s.views[o].count
        BY <1>2, FoundIs
    <3>4. PICK cap \in Nat : cap = Room[r] /\ cap = s.views[o].capacity
      <4>1. s.views[r].capacity = Room[r]
          BY DEF Ind
      <4>2. Room[r] \in Nat
          BY DEF StorageAssumption
      <4>3. QED
          BY <2>3, <4>1, <4>2
    <3>5. room = cap - c /\ e = b + c
        BY <1>5, <1>6, <3>2, <3>3, <3>4 DEF Space, End
    <3>6. PICK xs \in Seq(Value) : /\ xs = Found(s, o) /\ xs = h[r] /\ Len(xs) = c
                                   /\ \A k \in 1 .. c : xs[k] = s.mem[b + k]
      <4>1. /\ Found(s, o) \in Seq(Value) /\ Len(Found(s, o)) = s.views[o].count
            /\ \A k \in 1 .. s.views[o].count : Found(s, o)[k] = s.mem[s.views[o].base + k]
          BY <1>2, FoundIs
      <4>2. QED
          BY <2>1, <2>3, <3>2, <3>3, <4>1
    <3>7. PICK ys \in Seq(Value) : /\ ys = Found(t, o) /\ Len(ys) = c + fit
                                   /\ \A k \in 1 .. c + fit : ys[k] = t.mem[b + k] /\ b + k \in 1 .. Size
      <4>1. /\ Found(t, o) \in Seq(Value) /\ Len(Found(t, o)) = t.views[o].count
            /\ \A k \in 1 .. t.views[o].count : /\ Found(t, o)[k] = t.mem[t.views[o].base + k]
                                                /\ t.views[o].base + k \in 1 .. Size
          BY <1>2, FoundIs
      <4>2. t.views[o].base = b /\ t.views[o].count = c + fit
          BY <1>2, <1>4, <1>9, <3>2, <3>3
      <4>3. QED
          BY <4>1, <4>2
    <3>8. PICK zs \in Seq(Value) : /\ zs = Fitting(xs, rs, cap) /\ Len(zs) = c + fit
                                   /\ \A k \in 1 .. c : zs[k] = xs[k]
                                   /\ \A k \in 1 .. fit : zs[c + k] = rs[k]
      <4>1. xs \in Seq(Value) /\ rs \in Seq(Value) /\ cap \in Nat /\ Len(xs) <= cap
          BY <3>5, <3>6
      <4>2. cap - Len(xs) = room
          BY <3>5, <3>6
      <4>3. /\ Fitting(xs, rs, cap) \in Seq(Value)
            /\ Len(Fitting(xs, rs, cap)) = Len(xs) + Fit(rs, cap - Len(xs))
            /\ \A k \in 1 .. Len(xs) : Fitting(xs, rs, cap)[k] = xs[k]
            /\ \A k \in 1 .. Fit(rs, cap - Len(xs)) : Fitting(xs, rs, cap)[Len(xs) + k] = rs[k]
          BY ONLY <4>1, FittingIs
      <4>4. QED
          BY <1>8, <3>6, <4>2, <4>3
    <3>9. ASSUME NEW k \in 1 .. c + fit
          PROVE  ys[k] = zs[k]
      <4>1. PICK a \in 1 .. Size : a = b + k /\ ys[k] = t.mem[a]
          BY <3>7
      <4>2. t.mem[a] = IF a - e \in 1 .. fit THEN rs[a - e] ELSE s.mem[a]
          BY <1>2, <1>5, <1>6, <1>8 DEF PushesOf
      <4>3. a - e = k - c
          BY <3>5, <4>1
      <4>4. CASE k \in 1 .. c
        <5>1. k - c \notin 1 .. fit
            BY <4>4
        <5>2. QED
            BY <3>6, <3>8, <4>1, <4>2, <4>3, <4>4, <5>1
      <4>5. CASE k \notin 1 .. c
        <5>1. k - c \in 1 .. fit /\ c + (k - c) = k
            BY <4>5
        <5>2. zs[c + (k - c)] = rs[k - c]
            BY <3>8, <5>1
        <5>3. QED
            BY <4>1, <4>2, <4>3, <5>1, <5>2
      <4>6. QED
          BY <4>4, <4>5
    <3>10. ys = zs
        BY <3>7, <3>8, <3>9, SeqEqual
    <3>11. QED
        BY <2>3, <3>1, <3>4, <3>6, <3>7, <3>8, <3>10
  <2>4. QED
      BY <2>2, <2>3
<1>14. QED
    BY <1>a, <1>1, <1>2, <1>3, <1>10, <1>11, <1>12, <1>13 DEF Ind

\* What Given says.
Gives(h, h2, v, rs, sp2) ==
    h2 = [r \in Root |-> IF r = v /\ r \notin sp2 THEN Fitting(h[r], rs, Room[r])
                         ELSE IF r \in sp2 THEN <<>> ELSE h[r]]

LEMMA GivenIs ==
    ASSUME StorageAssumption, NEW s, NEW h, NEW sp, Ind(s, h, sp), NEW v \in DOMAIN s.views,
           NEW rs \in Seq(Value), NEW sp2 \in SUBSET Root, sp \subseteq sp2, NEW h2,
           Gives(h, h2, v, rs, sp2)
    PROVE  Keeps(h, h2, v, rs, sp2)
<1>a. h2 = [r \in Root |-> IF r = v /\ r \notin sp2 THEN Fitting(h[r], rs, Room[r])
                           ELSE IF r \in sp2 THEN <<>> ELSE h[r]]
    BY DEF Gives
<1>1. ASSUME NEW r \in Root
      PROVE  h2[r] \in Seq(Value)
  <2>1. h[r] \in Seq(Value)
      BY DEF Ind
  <2>2. CASE r = v /\ r \notin sp2
    <3>1. Found(s, r) = h[r] /\ r \in DOMAIN s.views /\ StateOK(s, DOMAIN s.views)
        BY <2>2 DEF Ind
    <3>2. Len(Found(s, r)) = s.views[r].count
        BY <3>1, FoundIs
    <3>3. s.views[r].count <= s.views[r].capacity
        BY <3>1 DEF StateOK, Sound
    <3>4. s.views[r].capacity = Room[r] /\ Room[r] \in Nat
        BY DEF Ind, StorageAssumption
    <3>5. h[r] \in Seq(Value) /\ rs \in Seq(Value) /\ Room[r] \in Nat /\ Len(h[r]) <= Room[r]
        BY <2>1, <3>1, <3>2, <3>3, <3>4
    <3>6. Fitting(h[r], rs, Room[r]) \in Seq(Value)
        BY ONLY <3>5, FittingIs
    <3>7. QED
        BY <1>a, <2>2, <3>6
  <2>3. CASE r \in sp2
    <3>1. h2[r] = <<>>
        BY <1>a, <2>3
    <3>2. <<>> \in Seq(Value)
        OBVIOUS
    <3>3. QED
        BY ONLY <3>1, <3>2
  <2>4. CASE r # v /\ r \notin sp2
      BY <1>a, <2>1, <2>4
  <2>5. QED
      BY <2>2, <2>3, <2>4
<1>2. h2 \in [Root -> Seq(Value)]
    BY <1>a, <1>1
<1>3. QED
    BY <1>a, <1>2 DEF Keeps

\* What Reset(v) does.
ResetOf(v, s, t, h, h2, sp, sp2) ==
    /\ t = [mem |-> s.mem, views |-> [s.views EXCEPT ![v].count = 0]]
    /\ sp2 = IF v \in Root
             THEN {r \in sp : r # v \/ \E z \in DOMAIN s.views \ Root :
                                          Space(s, z) # 0 /\ r \in Reaches(s, z)}
             ELSE IF s.views[v].capacity = 0 THEN sp ELSE sp \cup Reaches(s, v)
    /\ h2 = [r \in Root |-> IF r = v \/ r \in sp2 THEN <<>> ELSE h[r]]

LEMMA ResetKeeps ==
    ASSUME StorageAssumption, NEW s, NEW h, NEW sp, Ind(s, h, sp), NEW v \in DOMAIN s.views,
           NEW t, NEW h2, NEW sp2, ResetOf(v, s, t, h, h2, sp, sp2)
    PROVE  Ind(t, h2, sp2)
<1>a. t = [mem |-> s.mem, views |-> [s.views EXCEPT ![v].count = 0]]
    BY DEF ResetOf
<1>b. sp2 = IF v \in Root
            THEN {r \in sp : r # v \/ \E z \in DOMAIN s.views \ Root :
                                         Space(s, z) # 0 /\ r \in Reaches(s, z)}
            ELSE IF s.views[v].capacity = 0 THEN sp ELSE sp \cup Reaches(s, v)
    BY DEF ResetOf
<1>c. h2 = [r \in Root |-> IF r = v \/ r \in sp2 THEN <<>> ELSE h[r]]
    BY DEF ResetOf
<1>1. PICK V : V = DOMAIN s.views
    OBVIOUS
<1>2. StateOK(s, V) /\ v \in V
    BY <1>1 DEF Ind
<1>3. PICK y : y = s.views[v]
    OBVIOUS
<1>4. Sound(y) /\ y \in ViewType
    BY <1>2, <1>3 DEF StateOK, Sound
<1>5. PICK z : z = [y EXCEPT !.count = 0]
    OBVIOUS
<1>6. z \in ViewType /\ Sound(z) /\ z.count = 0 /\ z.base = y.base /\ z.capacity = y.capacity
  <2>1. z \in ViewType /\ z.count = 0 /\ z.base = y.base /\ z.capacity = y.capacity
      BY <1>4, <1>5 DEF ViewType
  <2>2. 0 <= y.capacity
      BY <1>4 DEF ViewType
  <2>3. QED
      BY <1>4, <2>1, <2>2 DEF Sound
<1>7. s.views \in [V -> ViewType] /\ s.mem \in [1 .. Size -> Value]
    BY <1>2 DEF StateOK
<1>8. PICK views2 : views2 = [s.views EXCEPT ![v] = z]
    OBVIOUS
<1>9. views2 \in [V -> ViewType] /\ views2[v] = z /\ \A n \in V : n # v => views2[n] = s.views[n]
    BY <1>2, <1>6, <1>7, <1>8
<1>10. t = [mem |-> s.mem, views |-> views2]
  <2>1. views2 = [s.views EXCEPT ![v].count = 0]
      BY <1>2, <1>3, <1>5, <1>7, <1>8
  <2>2. QED
      BY <1>a, <2>1
<1>11. t.views = views2 /\ t.mem = s.mem
    BY <1>10
<1>12. StateOK(t, V) /\ DOMAIN t.views = V
    BY <1>2, <1>6, <1>7, <1>9, <1>10, <1>11 DEF StateOK
<1>13. \A n \in V : t.views[n].base = s.views[n].base /\ t.views[n].capacity = s.views[n].capacity
    BY <1>3, <1>6, <1>9, <1>11
<1>14. Root \subseteq V /\ V \subseteq Root \cup SliceName /\ sp \subseteq Root
    BY <1>1 DEF Ind
<1>15. sp2 \subseteq Root
    BY <1>b, <1>14 DEF Reaches
<1>16. h2 \in [Root -> Seq(Value)]
  <2>1. \A r \in Root : h2[r] \in Seq(Value)
    <3>1. <<>> \in Seq(Value)
        OBVIOUS
    <3>2. \A r \in Root : h[r] \in Seq(Value)
        BY DEF Ind
    <3>3. QED
        BY <1>c, <3>1, <3>2
  <2>2. QED
      BY <1>c, <2>1
<1>17. \A r \in Root : t.views[r].base = Base[r] /\ t.views[r].capacity = Room[r]
    BY <1>13, <1>14 DEF Ind
<1>18. ASSUME NEW n \in V, n \notin Root, Space(t, n) # 0
       PROVE  Reaches(t, n) \subseteq sp2
  <2>1. Reaches(t, n) = Reaches(s, n)
      BY <1>13, <1>14 DEF Reaches
  <2>2. CASE n = v
    <3>1. s.views[v].capacity # 0
      <4>1. Space(t, v) = y.capacity - 0
          BY <1>6, <1>9, <1>11 DEF Space
      <4>2. QED
          BY <1>3, <1>18, <2>2, <4>1
    <3>2. QED
        BY <1>b, <1>18, <2>1, <2>2, <3>1
  <2>3. CASE n # v
    <3>1. Space(s, n) # 0
        BY <1>9, <1>11, <1>18, <2>3 DEF Space
    <3>2. Reaches(s, n) \subseteq sp
        BY <1>1, <1>18, <3>1 DEF Ind
    <3>3. QED
        BY <1>b, <1>1, <1>18, <2>1, <3>1, <3>2
  <2>4. QED
      BY <2>2, <2>3
<1>19. ASSUME NEW r \in Root, r \notin sp2
       PROVE  Found(t, r) = h2[r]
  <2>1. CASE r = v
    <3>1. PICK b \in Nat : b = t.views[v].base
        BY <1>12, <1>2, FoundIs
    <3>2. t.views[v].count = 0
        BY <1>6, <1>9, <1>11
    <3>3. PICK xs \in Seq(Value) : xs = Found(t, v) /\ Len(xs) = 0
      <4>1. StateOK(t, V) /\ v \in V
          BY <1>2, <1>12
      <4>2. Found(t, v) \in Seq(Value) /\ Len(Found(t, v)) = t.views[v].count
          BY ONLY StorageAssumption, <4>1, FoundIs
      <4>3. QED
          BY <3>2, <4>2
    <3>4. xs = <<>>
        BY <3>3
    <3>5. QED
        BY <1>c, <2>1, <3>3, <3>4
  <2>2. CASE r # v
    <3>1. h2[r] = h[r]
        BY <1>c, <1>19, <2>2
    <3>2. r \notin sp
        BY <1>b, <1>19, <2>2
    <3>3. t.views[r] = s.views[r]
        BY <1>9, <1>11, <1>14, <2>2
    <3>4. Found(t, r) = Found(s, r)
        BY <1>11, <3>3 DEF Found
    <3>5. QED
        BY <3>1, <3>2, <3>4 DEF Ind
  <2>3. QED
      BY <2>1, <2>2
<1>20. QED
    BY <1>12, <1>14, <1>15, <1>16, <1>17, <1>18, <1>19 DEF Ind

\* A slice lies within its parent and begins full, so it can write nothing yet.
LEMMA SliceKeeps ==
    ASSUME StorageAssumption, NEW s, NEW h, NEW sp, Ind(s, h, sp), NEW v \in DOMAIN s.views,
           NEW name \in SliceName, NEW start \in 0 .. Size, NEW len \in 0 .. Size,
           start <= s.views[v].count, (start + len) % Word <= s.views[v].count, NEW t,
           t = [mem |-> s.mem, views |-> [n \in DOMAIN s.views \cup {name} |->
                                             IF n = name THEN Cut(s.views[v], start, len) ELSE s.views[n]]]
    PROVE  Ind(t, h, sp)
<1>1. PICK V : V = DOMAIN s.views
    OBVIOUS
<1>2. StateOK(s, V) /\ v \in V
    BY <1>1 DEF Ind
<1>3. PICK y : y = s.views[v]
    OBVIOUS
<1>4. Sound(y) /\ y.base \in 0 .. Size /\ y.count \in Nat /\ y.capacity \in Nat /\ Size \in Nat
    BY <1>2, <1>3 DEF StateOK, Sound, ViewType, StorageAssumption
<1>5. start + len <= y.count
  <2>1. PICK l \in Nat : l = start + len
      BY <1>4
  <2>2. l < Word /\ Word \in Nat
      BY <1>4, <2>1 DEF StorageAssumption
  <2>3. l % Word = l
      BY <2>2
  <2>4. QED
      BY <1>3, <2>1, <2>3
<1>6. PICK z : z = Cut(y, start, len)
    OBVIOUS
<1>7. z = [base |-> y.base + start, count |-> len, capacity |-> len, overflow |-> 0]
    BY <1>6 DEF Cut, View
<1>8. y.base + start \in 0 .. Size /\ (y.base + start) + len <= Size /\ len \in Nat
  <2>1. PICK b \in Nat : b = y.base
      BY <1>4
  <2>2. y.count <= y.capacity /\ b + y.capacity <= Size
      BY <1>4, <2>1 DEF Sound
  <2>3. start \in Nat /\ len \in Nat
      BY <1>4
  <2>4. QED
      BY <1>4, <1>5, <2>1, <2>2, <2>3
<1>9. z \in ViewType /\ Sound(z) /\ z.count = z.capacity /\ z.count \in Nat
    BY <1>7, <1>8 DEF ViewType, Sound
<1>10. t.mem = s.mem /\ DOMAIN t.views = V \cup {name} /\ t.views[name] = z
       /\ \A n \in V : n # name => t.views[n] = s.views[n]
    BY <1>1, <1>3, <1>6
<1>11. s.views \in [V -> ViewType] /\ s.mem \in [1 .. Size -> Value] /\ \A n \in V : Sound(s.views[n])
    BY <1>2 DEF StateOK
<1>12. StateOK(t, V \cup {name})
  <2>1. \A n \in V \cup {name} : t.views[n] \in ViewType /\ Sound(t.views[n])
      BY <1>9, <1>10, <1>11
  <2>2. t.views \in [V \cup {name} -> ViewType]
      BY <1>1, <2>1
  <2>3. t \in [mem : [1 .. Size -> Value], views : [V \cup {name} -> ViewType]]
      BY <1>10, <1>11, <2>2
  <2>4. QED
      BY <2>1, <2>3 DEF StateOK
<1>13. Root \subseteq V /\ V \subseteq Root \cup SliceName /\ name \notin Root
    BY <1>1 DEF Ind, StorageAssumption
<1>14. \A r \in Root : t.views[r] = s.views[r]
    BY <1>10, <1>13
<1>15. ASSUME NEW n \in V \cup {name}, n \notin Root, Space(t, n) # 0
       PROVE  Reaches(t, n) \subseteq sp
  <2>1. n # name
      BY <1>9, <1>10, <1>15 DEF Space
  <2>2. n \in V /\ t.views[n] = s.views[n]
      BY <1>10, <1>15, <2>1
  <2>3. Space(s, n) # 0
      BY <1>15, <2>2 DEF Space
  <2>4. Reaches(t, n) = Reaches(s, n)
      BY <1>14, <2>2 DEF Reaches
  <2>5. QED
      BY <1>1, <1>15, <2>2, <2>3, <2>4 DEF Ind
<1>16. \A r \in Root : Found(t, r) = Found(s, r)
    BY <1>10, <1>14 DEF Found
<1>17. QED
    BY <1>10, <1>12, <1>13, <1>14, <1>15, <1>16 DEF Ind

\* What ForEach does, to the elements in own.
ForEachOf(own, s, t, h, h2) ==
    /\ t = [mem |-> [a \in 1 .. Size |-> IF a \in own THEN F[s.mem[a]] ELSE s.mem[a]],
            views |-> s.views]
    /\ h2 = [r \in Root |-> [k \in DOMAIN h[r] |->
                                IF Base[r] + k \in own THEN F[h[r][k]] ELSE h[r][k]]]

\* for_each changes what a root holds and its history alike.
LEMMA ForEachKeeps ==
    ASSUME ValueAssumption, StorageAssumption, NEW s, NEW h, NEW sp, Ind(s, h, sp),
           NEW own, NEW t, NEW h2, ForEachOf(own, s, t, h, h2)
    PROVE  Ind(t, h2, sp)
<1>1. PICK V : V = DOMAIN s.views
    OBVIOUS
<1>2. StateOK(s, V)
    BY <1>1 DEF Ind
<1>3. s.views \in [V -> ViewType] /\ s.mem \in [1 .. Size -> Value] /\ \A n \in V : Sound(s.views[n])
    BY <1>2 DEF StateOK
<1>4. t.views = s.views /\ \A a \in 1 .. Size : t.mem[a] = IF a \in own THEN F[s.mem[a]] ELSE s.mem[a]
    BY DEF ForEachOf
<1>5. t.mem \in [1 .. Size -> Value]
    BY <1>3 DEF ForEachOf, ValueAssumption
<1>6. StateOK(t, V)
    BY <1>3, <1>4, <1>5 DEF StateOK, ForEachOf
<1>7. \A r \in Root : h[r] \in Seq(Value)
    BY DEF Ind
<1>8. ASSUME NEW r \in Root
      PROVE  /\ h2[r] \in Seq(Value) /\ Len(h2[r]) = Len(h[r])
             /\ \A k \in 1 .. Len(h[r]) : h2[r][k] = IF Base[r] + k \in own THEN F[h[r][k]] ELSE h[r][k]
  <2>1. PICK xs \in Seq(Value) : xs = h[r]
      BY <1>7
  <2>2. PICK n \in Nat : n = Len(xs)
      OBVIOUS
  <2>3. DOMAIN xs = 1 .. n /\ \A k \in 1 .. n : xs[k] \in Value
      BY <2>2
  <2>4. PICK ys : ys = [k \in 1 .. n |-> IF Base[r] + k \in own THEN F[xs[k]] ELSE xs[k]]
      OBVIOUS
  <2>5. ys \in [1 .. n -> Value]
      BY <2>3, <2>4 DEF ValueAssumption
  <2>6. ys \in Seq(Value) /\ Len(ys) = n
      BY <2>5
  <2>7. h2[r] = ys
      BY <2>1, <2>3, <2>4 DEF ForEachOf
  <2>8. QED
      BY <2>1, <2>2, <2>4, <2>6, <2>7
<1>9. h2 \in [Root -> Seq(Value)]
    BY <1>8 DEF ForEachOf
<1>10. ASSUME NEW r \in Root, r \notin sp
       PROVE  Found(t, r) = h2[r]
  <2>1. Found(s, r) = h[r] /\ s.views[r].base = Base[r] /\ r \in V
      BY <1>1, <1>10 DEF Ind
  <2>2. PICK b \in Nat : b = s.views[r].base
      BY <1>2, <2>1, FoundIs
  <2>3. PICK n \in Nat : n = s.views[r].count
      BY <1>2, <2>1, FoundIs
  <2>4. PICK xs \in Seq(Value) : /\ xs = h[r] /\ Len(xs) = n
                                 /\ \A k \in 1 .. n : xs[k] = s.mem[b + k] /\ b + k \in 1 .. Size
    <3>1. /\ Found(s, r) \in Seq(Value) /\ Len(Found(s, r)) = s.views[r].count
          /\ \A k \in 1 .. s.views[r].count : /\ Found(s, r)[k] = s.mem[s.views[r].base + k]
                                              /\ s.views[r].base + k \in 1 .. Size
        BY <1>2, <2>1, FoundIs, SMTT(30)
    <3>2. QED
        BY <2>1, <2>2, <2>3, <3>1
  <2>5. PICK ys \in Seq(Value) : /\ ys = Found(t, r) /\ Len(ys) = n
                                 /\ \A k \in 1 .. n : ys[k] = t.mem[b + k]
    <3>1. /\ Found(t, r) \in Seq(Value) /\ Len(Found(t, r)) = t.views[r].count
          /\ \A k \in 1 .. t.views[r].count : Found(t, r)[k] = t.mem[t.views[r].base + k]
      <4>1. StateOK(t, V) /\ r \in V
          BY <1>6, <2>1
      <4>2. QED
          BY ONLY StorageAssumption, <4>1, FoundIs
    <3>2. t.views[r].count = n /\ t.views[r].base = b
        BY <1>4, <2>2, <2>3
    <3>3. QED
        BY ONLY <3>1, <3>2
  <2>6. PICK zs \in Seq(Value) : /\ zs = h2[r] /\ Len(zs) = n
                                 /\ \A k \in 1 .. n : zs[k] = IF b + k \in own THEN F[xs[k]] ELSE xs[k]
    <3>1. /\ h2[r] \in Seq(Value) /\ Len(h2[r]) = Len(h[r])
          /\ \A k \in 1 .. Len(h[r]) : h2[r][k] = IF Base[r] + k \in own THEN F[h[r][k]] ELSE h[r][k]
        BY <1>8
    <3>2. Base[r] = b
        BY <2>1, <2>2
    <3>3. QED
        BY ONLY <2>4, <3>1, <3>2
  <2>7. ASSUME NEW k \in 1 .. n
        PROVE  ys[k] = zs[k]
    <3>1. PICK a \in 1 .. Size : a = b + k /\ xs[k] = s.mem[a] /\ ys[k] = t.mem[a]
        BY ONLY <2>4, <2>5, k \in 1 .. n
    <3>2. t.mem[a] = IF a \in own THEN F[s.mem[a]] ELSE s.mem[a]
        BY <1>4
    <3>3. zs[k] = IF a \in own THEN F[xs[k]] ELSE xs[k]
        BY ONLY <2>6, <3>1, k \in 1 .. n
    <3>4. QED
        BY ONLY <3>1, <3>2, <3>3
  <2>8. ys = zs
    <3>1. ys \in Seq(Value) /\ zs \in Seq(Value) /\ Len(ys) = Len(zs) /\ \A k \in 1 .. Len(ys) : ys[k] = zs[k]
      <4>1. \A k \in 1 .. n : ys[k] = zs[k]
          BY ONLY <2>7
      <4>2. QED
          BY ONLY <2>5, <2>6, <4>1
    <3>2. QED
        BY ONLY <3>1, SeqEqual
  <2>9. QED
      BY <2>5, <2>6, <2>8
<1>11. \A n \in V : Space(t, n) = Space(s, n) /\ Reaches(t, n) = Reaches(s, n)
    BY <1>4 DEF Space, Reaches
<1>12. QED
    BY <1>1, <1>4, <1>6, <1>9, <1>10, <1>11 DEF Ind

-----------------------------------------------------------------------------
(* The steps *)

\* The state after a step that becomes what was computed.
LEMMA Becomes ==
    ASSUME NEW CONSTANT V, NEW CONSTANT after, StateOK(after, V), Become(after)
    PROVE  Now' = after
<1>1. after \in [mem : [1 .. Size -> Value], views : [V -> ViewType]]
    BY DEF StateOK
<1>2. after = [mem |-> after.mem, views |-> after.views]
    BY <1>1
<1>3. QED
    BY <1>2 DEF Become, Now

\* A push or a run: the output is pushed rs, and its root is given them.
LEMMA PushesStep ==
    ASSUME StorageAssumption, BufferInd, NEW CONSTANT o, o \in DOMAIN views, NEW CONSTANT lazy \in BOOLEAN,
           NEW CONSTANT rs \in Seq(Value), NEW CONSTANT given \in Seq(Value), NEW CONSTANT after,
           PushesOf(Now, after, o, rs, lazy, DOMAIN views),
           Become(after), Given(o, given), spoiled \subseteq spoiled', spoiled' \subseteq Root,
           o \in Root /\ o \notin spoiled' => given = rs
    PROVE  BufferInd'
<1>1. PICK s : s = Now
    OBVIOUS
<1>2. PICK h : h = held
    OBVIOUS
<1>3. PICK sp : sp = spoiled
    OBVIOUS
<1>4. PICK sp2 : sp2 = spoiled'
    OBVIOUS
<1>5. PICK h2 : h2 = held'
    OBVIOUS
<1>6. Ind(s, h, sp)
    BY <1>1, <1>2, <1>3 DEF BufferInd
<1>7. s.mem = mem /\ s.views = views
    BY <1>1 DEF Now
<1>8. PICK V : V = DOMAIN views
    OBVIOUS
<1>9. PushesOf(s, after, o, rs, lazy, V)
    BY <1>1, <1>8
<1>10. StateOK(after, V)
    BY <1>9 DEF PushesOf
<1>11. Now' = after
    BY <1>10, Becomes
<1>12. sp \subseteq sp2 /\ sp2 \in SUBSET Root
    BY <1>3, <1>4
<1>13. Gives(h, h2, o, given, sp2)
    BY <1>2, <1>4, <1>5 DEF Given, Gives
<1>14. o \in DOMAIN s.views /\ V = DOMAIN s.views
    BY <1>7, <1>8
<1>15. Keeps(h, h2, o, given, sp2)
    BY <1>6, <1>12, <1>13, <1>14, GivenIs
<1>16. Keeps(h, h2, o, rs, sp2)
    BY <1>4, <1>15 DEF Keeps
<1>17. PushesOf(s, after, o, rs, lazy, DOMAIN s.views)
    BY <1>9, <1>14
<1>18. Ind(after, h2, sp2)
  <2>1. StorageAssumption /\ o \in DOMAIN s.views /\ lazy \in BOOLEAN /\ rs \in Seq(Value)
      BY <1>14
  <2>2. sp2 \in SUBSET Root /\ sp \subseteq sp2
      BY <1>12
  <2>3. QED
      BY ONLY <1>6, <1>16, <1>17, <2>1, <2>2, PushesKeep
<1>19. QED
    BY <1>4, <1>5, <1>11, <1>18 DEF BufferInd

LEMMA PushStep ==
    ASSUME ValueAssumption, StorageAssumption, BufferInd,
           NEW CONSTANT v, v \in DOMAIN views, NEW CONSTANT x \in Value, Push(v, x)
    PROVE  BufferInd'
<1>1. PICK s : s = Now
    OBVIOUS
<1>2. PICK V : V = DOMAIN views
    OBVIOUS
<1>3. s.views = views
    BY <1>1 DEF Now
<1>4. StateOK(s, V) /\ v \in V
    BY <1>1, <1>2, <1>3 DEF BufferInd, Ind
<1>5. PICK lazy \in BOOLEAN : lazy = FALSE
    OBVIOUS
<1>6. PICK none : none = <<>>
    OBVIOUS
<1>7. none \in Seq(Value) /\ Append(none, x) = <<x>>
    BY <1>6
<1>8. PushesOf(s, s, v, none, lazy, V)
    BY <1>4, <1>6, PushNone
<1>9. ~ Over(s, v, none, lazy)
    BY <1>5 DEF Over
<1>10. PICK after : after = Pushed(s, v, x)
    OBVIOUS
<1>11. PushesOf(s, after, v, Append(none, x), lazy, V)
  <2>1. /\ StorageAssumption /\ StateOK(s, V) /\ v \in V /\ lazy \in BOOLEAN
        /\ none \in Seq(Value) /\ x \in Value
      BY <1>4, <1>7
  <2>2. PushesOf(s, Pushed(s, v, x), v, Append(none, x), lazy, V)
      BY ONLY <1>8, <1>9, <2>1, PushOne
  <2>3. QED
      BY <1>10, <2>2
<1>12. PICK rs \in Seq(Value) : rs = <<x>>
  <2>1. PICK one : one = <<x>>
      OBVIOUS
  <2>2. one \in Seq(Value)
      BY <2>1
  <2>3. QED
      BY <2>1, <2>2
<1>13. PushesOf(Now, after, v, rs, lazy, DOMAIN views)
    BY <1>1, <1>2, <1>7, <1>11, <1>12
<1>14. Become(after) /\ Given(v, rs) /\ spoiled' = spoiled
    BY <1>1, <1>10, <1>12 DEF Push
<1>15. spoiled \subseteq spoiled' /\ spoiled' \subseteq Root
    BY <1>14 DEF BufferInd, Ind
<1>16. QED
    BY <1>13, <1>14, <1>15, PushesStep

LEMMA RunStep ==
    ASSUME StorageAssumption, ListsAssumption, BufferInd,
           NEW CONSTANT i, i \in DOMAIN views, NEW CONSTANT o, o \in DOMAIN views,
           NEW CONSTANT ops \in Lists, NEW CONSTANT kind \in Kinds(ops), Run(kind, ops, i, o)
    PROVE  BufferInd'
<1>1. PICK s : s = Now
    OBVIOUS
<1>2. PICK V : V = DOMAIN views
    OBVIOUS
<1>3. s.views = views
    BY <1>1 DEF Now
<1>4. StateOK(s, V) /\ i \in V /\ o \in V
    BY <1>1, <1>2, <1>3 DEF BufferInd, Ind
<1>5. PICK rs \in Seq(Value) : /\ PushesOf(s, Ran(kind, ops, i, o), o, rs, Lazily(kind), V)
                               /\ Undisturbed(kind, i, o) => rs = Results(kind, ops, Contents(i))
    BY <1>1, <1>4, RanPushes
<1>6. PICK after : after = Ran(kind, ops, i, o)
    OBVIOUS
<1>7. PICK given : given = Results(kind, ops, Contents(i))
    OBVIOUS
<1>8. given \in Seq(Value)
  <2>1. PICK xs \in Seq(Value) : xs = Contents(i)
    <3>1. Contents(i) = Found(s, i)
      <4>1. s.mem = mem /\ s.views = views
          BY ONLY <1>1 DEF Now
      <4>2. QED
          BY ONLY <4>1 DEF Contents, Found
    <3>2. Found(s, i) \in Seq(Value)
        BY <1>4, FoundIs
    <3>3. QED
        BY <3>1, <3>2
  <2>2. ops \in Seq(Ops)
      BY DEF ListsAssumption, Ops
  <2>3. CASE kind = "apply"
    <3>1. given = Each(Parts(xs), ops)
        BY <1>7, <2>1, <2>3 DEF Results, Parts, Ops
    <3>2. PICK emit \in [Ops -> Seq(Value)] : emit = Parts(xs)
        BY PartsType
    <3>3. emit \in [Ops -> Seq(Value)] /\ ops \in Seq(Ops)
        BY <2>2
    <3>4. Each(emit, ops) \in Seq(Value)
        BY ONLY <3>3, EachType
    <3>5. QED
        BY <3>1, <3>2, <3>4
  <2>4. CASE kind # "apply"
    <3>1. given = Passes(ops, xs)
        BY <1>7, <2>1, <2>4 DEF Results
    <3>2. QED
        BY <2>2, <3>1, PassesType
  <2>5. QED
      BY <2>3, <2>4
<1>9. Become(after) /\ Given(o, given)
    BY <1>6, <1>7 DEF Run
<1>10. spoiled' = IF Undisturbed(kind, i, o) THEN spoiled ELSE spoiled \cup ({o} \cap Root)
    BY DEF Run
<1>11. spoiled \subseteq spoiled' /\ spoiled' \subseteq Root
    BY <1>10 DEF BufferInd, Ind
<1>12. o \in Root /\ o \notin spoiled' => given = rs
    BY <1>5, <1>7, <1>10
<1>13. PICK lazy \in BOOLEAN : lazy = Lazily(kind)
    BY DEF Lazily
<1>14. PushesOf(Now, after, o, rs, lazy, DOMAIN views)
    BY <1>1, <1>2, <1>5, <1>6, <1>13
<1>15. o \in DOMAIN views
    BY <1>2, <1>4
<1>16. QED
    BY <1>8, <1>9, <1>11, <1>12, <1>14, <1>15, PushesStep

LEMMA CanWriteIs ==
    ASSUME StorageAssumption, BufferInd, NEW CONSTANT v, v \in DOMAIN views
    PROVE  /\ CanWrite(v) <=> Space(Now, v) # 0
           /\ Rooted(v) = Reaches(Now, v)
<1>1. Now.views = views
    BY DEF Now
<1>2. PICK y : y = views[v]
    OBVIOUS
<1>3. y.count \in Nat /\ y.capacity \in Nat /\ y.count <= y.capacity
    BY <1>1, <1>2 DEF BufferInd, Ind, StateOK, Sound, ViewType
<1>4. y.count < y.capacity <=> y.capacity - y.count # 0
    BY <1>3
<1>5. QED
    BY <1>1, <1>2, <1>4 DEF CanWrite, Space, Rooted, Reaches, Part

LEMMA ResetStep ==
    ASSUME StorageAssumption, BufferInd, NEW CONSTANT v, v \in DOMAIN views, Reset(v)
    PROVE  BufferInd'
<1>1. PICK s : s = Now
    OBVIOUS
<1>2. PICK h : h = held
    OBVIOUS
<1>3. PICK sp : sp = spoiled
    OBVIOUS
<1>4. PICK sp2 : sp2 = spoiled'
    OBVIOUS
<1>5. PICK h2 : h2 = held'
    OBVIOUS
<1>6. PICK t : t = Now'
    OBVIOUS
<1>7. Ind(s, h, sp)
    BY <1>1, <1>2, <1>3 DEF BufferInd
<1>8. s.mem = mem /\ s.views = views
    BY <1>1 DEF Now
<1>9. v \in DOMAIN s.views
    BY <1>8
<1>10. t = [mem |-> s.mem, views |-> [s.views EXCEPT ![v].count = 0]]
    BY <1>6, <1>8 DEF Now, Reset
<1>11. sp2 = IF v \in Root
             THEN {r \in sp : r # v \/ \E z \in DOMAIN s.views \ Root :
                                          Space(s, z) # 0 /\ r \in Reaches(s, z)}
             ELSE IF s.views[v].capacity = 0 THEN sp ELSE sp \cup Reaches(s, v)
  <2>1. \A z \in DOMAIN s.views : (CanWrite(z) <=> Space(s, z) # 0) /\ Rooted(z) = Reaches(s, z)
      BY <1>1, <1>8, CanWriteIs
  <2>2. sp2 = IF v \in Root
              THEN {r \in sp : r # v \/ \E z \in DOMAIN s.views \ Root : CanWrite(z) /\ r \in Rooted(z)}
              ELSE IF s.views[v].capacity = 0 THEN sp ELSE sp \cup Rooted(v)
      BY <1>3, <1>4, <1>8 DEF Reset
  <2>3. CASE v \in Root
    <3>1. \A r \in sp : (\E z \in DOMAIN s.views \ Root : CanWrite(z) /\ r \in Rooted(z))
                    <=> (\E z \in DOMAIN s.views \ Root : Space(s, z) # 0 /\ r \in Reaches(s, z))
        BY <2>1
    <3>2. QED
        BY <2>2, <2>3, <3>1
  <2>4. CASE v \notin Root
      BY <1>9, <2>1, <2>2, <2>4
  <2>5. QED
      BY <2>3, <2>4
<1>12. h2 = [r \in Root |-> IF r = v \/ r \in sp2 THEN <<>> ELSE h[r]]
    BY <1>2, <1>4, <1>5 DEF Reset
<1>13. Ind(t, h2, sp2)
  <2>1. StorageAssumption
      OBVIOUS
  <2>2. ResetOf(v, s, t, h, h2, sp, sp2)
      BY <1>10, <1>11, <1>12 DEF ResetOf
  <2>3. QED
      BY ONLY <1>7, <1>9, <2>1, <2>2, ResetKeeps
<1>14. QED
    BY <1>4, <1>5, <1>6, <1>13 DEF BufferInd

LEMMA SliceStep ==
    ASSUME StorageAssumption, BufferInd, NEW CONSTANT v, v \in DOMAIN views, NEW CONSTANT name \in SliceName,
           NEW CONSTANT start \in 0 .. Size, NEW CONSTANT len \in 0 .. Size, Slice(v, name, start, len)
    PROVE  BufferInd'
<1>1. PICK s : s = Now
    OBVIOUS
<1>2. PICK h : h = held
    OBVIOUS
<1>3. PICK sp : sp = spoiled
    OBVIOUS
<1>4. PICK t : t = Now'
    OBVIOUS
<1>5. Ind(s, h, sp)
    BY <1>1, <1>2, <1>3 DEF BufferInd
<1>6. s.mem = mem /\ s.views = views
    BY <1>1 DEF Now
<1>7. v \in DOMAIN s.views /\ start <= s.views[v].count /\ (start + len) % Word <= s.views[v].count
    BY <1>6 DEF Slice
<1>8. t = [mem |-> s.mem, views |-> [n \in DOMAIN s.views \cup {name} |->
                                        IF n = name THEN Cut(s.views[v], start, len) ELSE s.views[n]]]
    BY <1>4, <1>6 DEF Now, Slice
<1>9. Ind(t, h, sp)
  <2>1. StorageAssumption /\ name \in SliceName /\ start \in 0 .. Size /\ len \in 0 .. Size
      OBVIOUS
  <2>2. QED
      BY ONLY <1>5, <1>7, <1>8, <2>1, SliceKeeps
<1>10. held' = h /\ spoiled' = sp
    BY <1>2, <1>3 DEF Slice
<1>11. QED
    BY <1>4, <1>9, <1>10 DEF BufferInd

LEMMA ForEachStep ==
    ASSUME ValueAssumption, StorageAssumption, BufferInd, NEW CONSTANT v, v \in DOMAIN views, ForEach(v)
    PROVE  BufferInd'
<1>1. PICK s : s = Now
    OBVIOUS
<1>2. PICK h : h = held
    OBVIOUS
<1>3. PICK sp : sp = spoiled
    OBVIOUS
<1>4. PICK h2 : h2 = held'
    OBVIOUS
<1>5. PICK t : t = Now'
    OBVIOUS
<1>6. Ind(s, h, sp)
    BY <1>1, <1>2, <1>3 DEF BufferInd
<1>7. s.mem = mem /\ s.views = views
    BY <1>1 DEF Now
<1>8. PICK own : own = views[v].base + 1 .. views[v].base + views[v].count
    OBVIOUS
<1>10. t = [mem |-> [a \in 1 .. Size |-> IF a \in own THEN F[s.mem[a]] ELSE s.mem[a]],
            views |-> s.views]
    BY <1>5, <1>7, <1>8 DEF Now, ForEach
<1>11. h2 = [r \in Root |-> [k \in DOMAIN h[r] |->
                                IF Base[r] + k \in own THEN F[h[r][k]] ELSE h[r][k]]]
    BY <1>2, <1>4, <1>8 DEF ForEach
<1>12. Ind(t, h2, sp)
  <2>1. ValueAssumption /\ StorageAssumption
      OBVIOUS
  <2>2. ForEachOf(own, s, t, h, h2)
      BY <1>10, <1>11 DEF ForEachOf
  <2>3. QED
      BY ONLY <1>6, <2>1, <2>2, ForEachKeeps
<1>13. spoiled' = sp
    BY <1>3 DEF ForEach
<1>14. QED
    BY <1>4, <1>5, <1>12, <1>13 DEF BufferInd

LEMMA InitInd ==
    ASSUME ValueAssumption, StorageAssumption, Init
    PROVE  BufferInd
<1>1. PICK s : s = Now
    OBVIOUS
<1>2. s.mem = mem /\ s.views = views /\ s = [mem |-> mem, views |-> views]
    BY <1>1 DEF Now
<1>3. s.mem \in [1 .. Size -> Value]
    BY <1>2 DEF Init, ValueAssumption
<1>4. ASSUME NEW r \in Root
      PROVE  /\ s.views[r].base = Base[r] /\ s.views[r].count = 0 /\ s.views[r].capacity = Room[r]
             /\ s.views[r] \in ViewType /\ Sound(s.views[r])
  <2>1. s.views[r] = [base |-> Base[r], count |-> 0, capacity |-> Room[r], overflow |-> 0]
      BY <1>2 DEF Init, View
  <2>2. Base[r] \in 0 .. Size /\ Room[r] \in Nat /\ Base[r] + Room[r] <= Size /\ 0 <= Room[r]
      BY DEF StorageAssumption
  <2>3. QED
      BY <2>1, <2>2 DEF ViewType, Sound
<1>5. DOMAIN s.views = Root /\ s.views \in [Root -> ViewType]
  <2>1. s.views = [r \in Root |-> View(Base[r], 0, Room[r])]
      BY <1>2 DEF Init
  <2>2. QED
      BY <1>4, <2>1
<1>6. StateOK(s, Root)
    BY <1>2, <1>3, <1>4, <1>5 DEF StateOK
<1>7. PICK h : h = held
    OBVIOUS
<1>8. h = [r \in Root |-> <<>>]
    BY <1>7 DEF Init
<1>9. h \in [Root -> Seq(Value)]
  <2>1. <<>> \in Seq(Value)
      OBVIOUS
  <2>2. QED
      BY <1>8, <2>1
<1>10. ASSUME NEW r \in Root
       PROVE  Found(s, r) = h[r]
  <2>1. Found(s, r) \in Seq(Value) /\ Len(Found(s, r)) = s.views[r].count
      BY <1>6, FoundIs
  <2>2. s.views[r].count = 0
      BY <1>4
  <2>3. \A z \in Seq(Value) : Len(z) = 0 => z = <<>>
      OBVIOUS
  <2>4. QED
      BY <1>8, <2>1, <2>2, <2>3
<1>11. \A r \in Root : s.views[r].base = Base[r] /\ s.views[r].capacity = Room[r]
    BY <1>4
<1>12. spoiled = {}
    BY DEF Init
<1>13. Ind(s, h, {})
    BY <1>5, <1>6, <1>9, <1>10, <1>11 DEF Ind
<1>14. QED
    BY <1>1, <1>7, <1>12, <1>13 DEF BufferInd

LEMMA StepInd ==
    ASSUME ValueAssumption, StorageAssumption, ListsAssumption, BufferInd, [AlgoNext]_vars
    PROVE  BufferInd'
<1>1. CASE UNCHANGED vars
    BY <1>1 DEF vars, BufferInd, Now
<1>2. ASSUME NEW v \in DOMAIN views, NEW x \in Value, Push(v, x)
      PROVE  BufferInd'
  <2>1. PICK w : w = v
      OBVIOUS
  <2>2. w \in DOMAIN views /\ Push(w, x)
      BY <1>2, <2>1
  <2>3. QED
      BY <2>2, PushStep
<1>3. ASSUME NEW v \in DOMAIN views, Reset(v)
      PROVE  BufferInd'
  <2>1. PICK w : w = v
      OBVIOUS
  <2>2. w \in DOMAIN views /\ Reset(w)
      BY <1>3, <2>1
  <2>3. QED
      BY <2>2, ResetStep
<1>4. ASSUME NEW v \in DOMAIN views, ForEach(v)
      PROVE  BufferInd'
  <2>1. PICK w : w = v
      OBVIOUS
  <2>2. w \in DOMAIN views /\ ForEach(w)
      BY <1>4, <2>1
  <2>3. QED
      BY <2>2, ForEachStep
<1>5. ASSUME NEW v \in DOMAIN views, NEW name \in SliceName \ {v}, NEW start \in 0 .. Size,
             NEW len \in 0 .. Size, Slice(v, name, start, len)
      PROVE  BufferInd'
  <2>1. PICK w : w = v
      OBVIOUS
  <2>2. w \in DOMAIN views /\ name \in SliceName /\ Slice(w, name, start, len)
      BY <1>5, <2>1
  <2>3. QED
      BY <2>2, SliceStep
<1>6. ASSUME NEW ops \in Lists, NEW kind \in Kinds(ops), NEW i \in DOMAIN views,
             NEW o \in DOMAIN views, Run(kind, ops, i, o)
      PROVE  BufferInd'
  <2>1. PICK j, p : j = i /\ p = o
      OBVIOUS
  <2>2. j \in DOMAIN views /\ p \in DOMAIN views /\ Run(kind, ops, j, p)
      BY <1>6, <2>1
  <2>3. QED
      BY <2>2, RunStep
<1>7. QED
    BY <1>1, <1>2, <1>3, <1>4, <1>5, <1>6 DEF AlgoNext, Next

LEMMA IndImplies ==
    ASSUME StorageAssumption, ListsAssumption, BufferInd
    PROVE  BufferInv /\ AlgorithmsAgree
<1>1. PICK s : s = Now
    OBVIOUS
<1>2. s.mem = mem /\ s.views = views
    BY <1>1 DEF Now
<1>3. PICK V : V = DOMAIN views
    OBVIOUS
<1>4. StateOK(s, V) /\ Root \subseteq V
    BY <1>1, <1>2, <1>3 DEF BufferInd, Ind
<1>5. TypeOK
  <2>1. mem \in [1 .. Size -> Value]
      BY <1>2, <1>4 DEF StateOK
  <2>2. \A v \in DOMAIN views : Sound(views[v])
      BY <1>2, <1>3, <1>4 DEF StateOK
  <2>3. held \in [Root -> Seq(Value)] /\ spoiled \subseteq Root
      BY DEF BufferInd, Ind
  <2>4. QED
      BY <2>1, <2>2, <2>3 DEF TypeOK, Sound, ViewType
<1>6. RootsHold
  <2>1. ASSUME NEW r \in Root, r \notin spoiled
        PROVE  Contents(r) = held[r]
    <3>1. Found(s, r) = held[r]
        BY <1>1, <2>1 DEF BufferInd, Ind
    <3>2. Contents(r) = Found(s, r)
        BY <1>2 DEF Contents, Found
    <3>3. QED
        BY <3>1, <3>2
  <2>2. QED
      BY <2>1 DEF RootsHold
<1>7. AlgorithmsAgree
  <2>1. ASSUME NEW ops \in Lists, NEW kind \in Kinds(ops), NEW i \in DOMAIN views,
               NEW o \in DOMAIN views, Undisturbed(kind, i, o)
        PROVE  RunAgrees(kind, ops, i, o)
    <3>1. PICK j, p : j = i /\ p = o
        OBVIOUS
    <3>2. j \in V /\ p \in V /\ Undisturbed(kind, j, p)
        BY <1>3, <1>4, <2>1, <3>1
    <3>3. RunAgrees(kind, ops, j, p)
        BY <1>1, <1>4, <3>2, RunsAgree
    <3>4. QED
        BY <3>1, <3>3
  <2>2. QED
      BY <2>1 DEF AlgorithmsAgree
<1>8. QED
    BY <1>5, <1>6, <1>7 DEF BufferInv

LEMMA BufferInductive == AlgoSpec => []BufferInd
<1>1. Init => BufferInd
    BY InitInd, ValueAssumption, StorageAssumption
<1>2. BufferInd /\ [AlgoNext]_vars => BufferInd'
    BY StepInd, ValueAssumption, StorageAssumption, ListsAssumption
<1>3. QED
    BY <1>1, <1>2, PTL DEF AlgoSpec

\* A root holds what was pushed to it since its last reset, as much as fits, in order,
\* whatever is pushed through other views, as long as no slice of it was reset and no
\* algorithm overran its own input (buffer.h: push, reset, slice, for_each).
THEOREM BufferSafe == AlgoSpec => []BufferInv
<1>1. BufferInd => BufferInv
    BY IndImplies, StorageAssumption, ListsAssumption
<1>2. QED
    BY <1>1, BufferInductive, PTL

\* A list of operations run by the loops of algo.h, ops.h, next.h or pipeline.h gives
\* the output, root or slice, the same elements up to its capacity, in order; the loops
\* differ only in how many failed pushes they count.  algo::apply does not compose its
\* operations: it gives what each makes of the whole input, one after the other.
THEOREM AlgorithmsSafe == AlgoSpec => []AlgorithmsAgree
<1>1. BufferInd => AlgorithmsAgree
    BY IndImplies, StorageAssumption, ListsAssumption
<1>2. QED
    BY <1>1, BufferInductive, PTL
=============================================================================
