-------------------------- MODULE Induction_proofs --------------------------
(***************************************************************************)
(* Theorems about the two components whose state is computed by folds and  *)
(* recursive functions, and the lemmas on induction that both need.        *)
(*                                                                         *)
(* Heartbeat: the types, that a sensor's state follows its silence, and    *)
(* that a regular sensor stays online when base stations are few. The      *)
(* inductive invariant says what the monitor leaves behind its pass and    *)
(* that the copies of an uplink, which count as intervals of zero, are few *)
(* in any stretch of the kept stamps.                                      *)
(*                                                                         *)
(* Framing: that a base station's messages are handled once, in order and, *)
(* while every read ends where a frame does, all of them; and that an      *)
(* Application Center's are all handled however the stream is cut. The     *)
(* inductive invariant says where the buffer starts, which is at a unit,   *)
(* and which messages lie before it.                                       *)
(***************************************************************************)
EXTENDS Heartbeat, Framing, FiniteSetTheorems, WellFoundedInduction, TLAPS

-----------------------------------------------------------------------------
(***************************************************************************)
(* Induction. A predicate is the set of what satisfies it, so that well-   *)
(* foundedness of the naturals and of finite sets gives every induction    *)
(* that is needed, and that a recursive definition has a solution.         *)
(***************************************************************************)

(* A set that holds 0 and is closed under successor is all of Nat.         *)
LEMMA NatSetInduction ==
  ASSUME NEW T \in SUBSET Nat, 0 \in T, \A n \in T : n + 1 \in T
  PROVE  T = Nat
<1> SUFFICES ASSUME Nat \ T # {}
             PROVE  FALSE
  OBVIOUS
<1>1. PICK m \in Nat \ T :
        \A k \in Nat \ T : ~ (<<k, m>> \in OpToRel(<, Nat))
  BY NatLessThanWellFounded, WFMin
<1>2. \A k \in Nat \ T : ~ (k < m)
  BY <1>1 DEF OpToRel
<1>3. m # 0 /\ m - 1 \in Nat
  OBVIOUS
<1>4. m - 1 \in T
  BY <1>2, <1>3
<1> QED
  BY <1>3, <1>4

(* Induction from k down to 1.                                             *)
LEMMA DownwardInduction ==
  ASSUME NEW N \in Nat, NEW k \in 1 .. N + 1, NEW T \in SUBSET (1 .. k),
         k \in T, \A n \in 1 .. k - 1 : n + 1 \in T => n \in T
  PROVE  T = 1 .. k
<1> DEFINE S == {n \in Nat : n < k => k - n \in T}
<1>1. 0 \in S
  OBVIOUS
<1>2. ASSUME NEW n \in S
      PROVE  n + 1 \in S
  <2>1. n \in Nat /\ (n < k => k - n \in T)
    OBVIOUS
  <2>2. ASSUME n + 1 < k
        PROVE  k - (n + 1) \in T
    <3>1. k - (n + 1) \in 1 .. k - 1 /\ k - (n + 1) + 1 = k - n
      BY <2>1, <2>2
    <3> QED
      BY <2>1, <2>2, <3>1
  <2> QED
    BY <2>1, <2>2
<1>3. S = Nat
  <2>1. S \in SUBSET Nat
    OBVIOUS
  <2> HIDE DEF S
  <2> QED
    BY <1>1, <1>2, <2>1, NatSetInduction
<1>4. ASSUME NEW n \in 1 .. k
      PROVE  n \in T
  <2>1. k - n \in Nat /\ k - n < k /\ k - (k - n) = n
    OBVIOUS
  <2>2. k - n \in S
    BY <1>3, <2>1
  <2> QED
    BY <2>1, <2>2
<1> QED
  BY <1>4

(* x is in P if everything of smaller measure is.                          *)
Progressive(P, X, m) ==
  \A x \in X : (\A y \in X : m[y] < m[x] => y \in P) => x \in P

(* Induction along a measure.                                              *)
LEMMA MeasureInduction ==
  ASSUME NEW X, NEW m \in [X -> Nat], NEW P \in SUBSET X,
         Progressive(P, X, m)
  PROVE  P = X
<1> USE DEF Progressive
<1> DEFINE T == {n \in Nat : \A x \in X : m[x] < n => x \in P}
<1>1. 0 \in T
  OBVIOUS
<1>2. ASSUME NEW n \in T
      PROVE  n + 1 \in T
  <2>1. n \in Nat /\ \A x \in X : m[x] < n => x \in P
    OBVIOUS
  <2>2. ASSUME NEW x \in X, m[x] < n + 1
        PROVE  x \in P
    <3>1. \A y \in X : m[y] < m[x] => m[y] < n
      BY <2>1, <2>2
    <3> QED
      BY <2>1, <3>1
  <2> QED
    BY <2>1, <2>2
<1>3. T = Nat
  <2> HIDE DEF T
  <2>1. T \in SUBSET Nat
    BY DEF T
  <2> QED
    BY <1>1, <1>2, <2>1, NatSetInduction
<1>4. ASSUME NEW x \in X
      PROVE  x \in P
  <2>1. m[x] + 1 \in T
    BY <1>3
  <2> QED
    BY <2>1
<1> QED
  BY <1>4

(* The subsets of a finite set are finite.                                 *)
LEMMA SubsetsFinite ==
  ASSUME NEW d, IsFiniteSet(d)
  PROVE  \A s \in SUBSET d : IsFiniteSet(s) /\ Cardinality(s) \in Nat
  BY FS_Subset, FS_CardinalityType

(* s is in P if every smaller subset of d is.                              *)
ProgressiveSize(P, d) ==
  \A s \in SUBSET d :
    (\A r \in SUBSET d : Cardinality(r) < Cardinality(s) => r \in P)
      => s \in P

(* Induction on the size of the subsets of a finite set.                   *)
LEMMA SizeInduction ==
  ASSUME NEW d, IsFiniteSet(d), NEW P \in SUBSET (SUBSET d),
         ProgressiveSize(P, d)
  PROVE  P = SUBSET d
<1> DEFINE X == SUBSET d
           m == [s \in X |-> Cardinality(s)]
<1>1. m \in [X -> Nat]
  BY SubsetsFinite
<1>2. Progressive(P, X, m)
  BY DEF ProgressiveSize, Progressive
<1>3. P \in SUBSET X
  OBVIOUS
<1> HIDE DEF m, X
<1>4. P = X
  BY <1>1, <1>2, <1>3, MeasureInduction
<1> QED
  BY <1>4 DEF X

(* A sequence has finitely many indices.                                   *)
LEMMA DomainFinite ==
  ASSUME NEW S, NEW g \in Seq(S)
  PROVE  IsFiniteSet(DOMAIN g)
<1>1. DOMAIN g = 1 .. Len(g) /\ Len(g) \in Nat
  OBVIOUS
<1> QED
  BY <1>1, FS_Interval

(* A recursion over X: at stop the value is base, elsewhere it is made by  *)
(* step of the value at next, where the measure m is smaller.              *)
Recursion(X, V, m, bound, stop, base, next, step) ==
  /\ m \in [X -> Nat]
  /\ bound \in Nat
  /\ stop \in SUBSET X
  /\ base \in [X -> V]
  /\ next \in [X \ stop -> X]
  /\ step \in [(X \ stop) \X V -> V]
  /\ \A x \in X : m[x] <= bound
  /\ \A x \in X \ stop : m[next[x]] < m[x]

(* f solves the recursion.                                                 *)
Recursive(f, X, stop, base, next, step) ==
  \A x \in X : f[x] = IF x \in stop THEN base[x] ELSE step[<<x, f[next[x]]>>]

(* A recursion has a solution: one that solves it where the measure is     *)
(* below n gives one for n + 1.                                            *)
LEMMA RecursionExists ==
  ASSUME NEW X, NEW V, NEW m, NEW bound,
         NEW stop, NEW base, NEW next, NEW step,
         Recursion(X, V, m, bound, stop, base, next, step)
  PROVE  \E f \in [X -> V] : Recursive(f, X, stop, base, next, step)
<1> USE DEF Recursion
<1> DEFINE Body(f, x) == IF x \in stop THEN base[x]
                         ELSE step[<<x, f[next[x]]>>]
           T == {n \in Nat : \E f \in [X -> V] :
                   \A x \in X : m[x] < n => f[x] = Body(f, x)}
<1>1. 0 \in T
  OBVIOUS
<1>2. ASSUME NEW n \in T
      PROVE  n + 1 \in T
  <2>1. n \in Nat /\ \E f \in [X -> V] :
                       \A x \in X : m[x] < n => f[x] = Body(f, x)
    OBVIOUS
  <2>2. PICK f \in [X -> V] : \A x \in X : m[x] < n => f[x] = Body(f, x)
    BY <2>1
  <2> DEFINE h == [x \in X |-> Body(f, x)]
  <2>3. h \in [X -> V]
    <3>1. \A x \in X : Body(f, x) \in V
      OBVIOUS
    <3> QED
      BY <3>1
  <2>4. ASSUME NEW x \in X, m[x] < n + 1
        PROVE  h[x] = Body(h, x)
    <3>1. CASE x \in stop
      BY <3>1
    <3>2. CASE x \notin stop
      <4>1. next[x] \in X /\ m[next[x]] < n
        BY <2>1, <2>4, <3>2
      <4>2. f[next[x]] = h[next[x]]
        BY <2>2, <4>1
      <4>3. h[x] = Body(f, x)
        OBVIOUS
      <4> HIDE DEF h
      <4> QED
        BY <3>2, <4>2, <4>3
    <3> QED
      BY <3>1, <3>2
  <2> HIDE DEF h, Body
  <2>5. \E k \in [X -> V] : \A x \in X : m[x] < n + 1 => k[x] = Body(k, x)
    BY <2>3, <2>4
  <2> QED
    BY <2>1, <2>5
<1>3. T = Nat
  <2> HIDE DEF T
  <2>1. T \in SUBSET Nat
    BY DEF T
  <2> QED
    BY <1>1, <1>2, <2>1, NatSetInduction
<1>4. bound + 1 \in T
  <2> HIDE DEF T
  <2> QED
    BY <1>3
<1>5. PICK f \in [X -> V] : \A x \in X : m[x] < bound + 1 => f[x] = Body(f, x)
  BY <1>4
<1>6. \A x \in X : m[x] < bound + 1
  OBVIOUS
<1> QED
  BY <1>5, <1>6 DEF Recursive

-----------------------------------------------------------------------------
(***************************************************************************)
(* Sums. FoldSeq of + over a sequence of numbers is the value, at the whole*)
(* domain, of a function on sets of indices that takes out one chosen index*)
(* after another; a sum does not depend on which.                          *)
(***************************************************************************)

(* The index that a fold takes out first.                                  *)
Pick(s) == CHOOSE x \in s : TRUE

(* The sum over s, from those over smaller sets.                           *)
Sums(g, f, s) == IF s = {} THEN 0 ELSE g[Pick(s)] + f[s \ {Pick(s)}]

IsSum(g, f) == f = [s \in SUBSET DOMAIN g |-> Sums(g, f, s)]

SumOf(g) == CHOOSE f : IsSum(g, f)

(* What is left has one element less.                                      *)
LEMMA PickSmaller ==
  ASSUME NEW s, IsFiniteSet(s), s # {}
  PROVE  /\ Pick(s) \in s
         /\ Cardinality(s \ {Pick(s)}) = Cardinality(s) - 1
         /\ Cardinality(s) \in Nat \ {0}
<1>1. Pick(s) \in s
  BY DEF Pick
<1>2. Cardinality(s) \in Nat /\ Cardinality(s) # 0
  BY FS_CardinalityType, FS_EmptySet
<1> QED
  BY <1>1, <1>2, FS_RemoveElement

(* Sums exist, so that SumOf is one.                                       *)
LEMMA SumExists ==
  ASSUME NEW g \in Seq(Nat)
  PROVE  IsSum(g, SumOf(g))
<1> DEFINE D == DOMAIN g
           Upto(n) == {s \in SUBSET D : Cardinality(s) <= n}
           Fits(f, n) == f = [s \in Upto(n) |-> Sums(g, f, s)]
           T == {n \in Nat : \E f : Fits(f, n)}
<1>1. /\ IsFiniteSet(D)
      /\ \A s \in SUBSET D : IsFiniteSet(s) /\ Cardinality(s) \in Nat
  <2>1. IsFiniteSet(D)
    <3>1. D = 1 .. Len(g) /\ Len(g) \in Nat
      OBVIOUS
    <3> HIDE DEF D
    <3> QED
      BY <3>1, FS_Interval
  <2> QED
    BY <2>1, FS_Subset, FS_CardinalityType
<1>2. 0 \in T
  <2> DEFINE f == [s \in Upto(0) |-> 0]
  <2>1. \A s \in Upto(0) : s = {}
    BY <1>1, FS_EmptySet
  <2>2. Fits(f, 0)
    BY <2>1 DEF Sums
  <2> QED
    BY <2>2
<1>3. ASSUME NEW n \in T
      PROVE  n + 1 \in T
  <2>1. n \in Nat /\ \E f : Fits(f, n)
    OBVIOUS
  <2>2. PICK f : Fits(f, n)
    BY <2>1
  <2> DEFINE h == [s \in Upto(n + 1) |-> Sums(g, f, s)]
  <2>3. ASSUME NEW s \in Upto(n + 1)
        PROVE  Sums(g, f, s) = Sums(g, h, s)
    <3>1. CASE s = {}
      BY <3>1 DEF Sums
    <3>2. CASE s # {}
      <4>1. s \in SUBSET D /\ IsFiniteSet(s) /\ Cardinality(s) <= n + 1
        BY <1>1
      <4>2. s \ {Pick(s)} \in Upto(n) /\ s \ {Pick(s)} \in Upto(n + 1)
        <5>1. Cardinality(s \ {Pick(s)}) <= n
          BY <2>1, <3>2, <4>1, PickSmaller
        <5>2. Cardinality(s \ {Pick(s)}) \in Nat
          BY <1>1
        <5> QED
          BY <2>1, <4>1, <5>1, <5>2
      <4>3. f[s \ {Pick(s)}] = Sums(g, f, s \ {Pick(s)})
        BY <2>2, <4>2
      <4>4. h[s \ {Pick(s)}] = Sums(g, f, s \ {Pick(s)})
        BY <4>2
      <4> QED
        BY <3>2, <4>3, <4>4 DEF Sums
    <3> QED
      BY <3>1, <3>2
  <2>4. Fits(h, n + 1)
    BY <2>3
  <2>5. \E k : Fits(k, n + 1)
    BY <2>4
  <2> HIDE DEF Fits
  <2> QED
    BY <2>1, <2>5
<1>4. T = Nat
  BY <1>2, <1>3, NatSetInduction
<1>5. Upto(Cardinality(D)) = SUBSET D
  BY <1>1, FS_Subset
<1>6. \E f : Fits(f, Cardinality(D))
  BY <1>1, <1>4
<1>7. \E f : IsSum(g, f)
  BY <1>5, <1>6 DEF IsSum
<1> QED
  BY <1>7 DEF SumOf

(* A sum is a number, and any index may be taken out first.                *)
LEMMA SumAny ==
  ASSUME NEW g \in Seq(Nat)
  PROVE  \A s \in SUBSET DOMAIN g :
           /\ SumOf(g)[s] \in Nat
           /\ \A x \in s : SumOf(g)[s] = g[x] + SumOf(g)[s \ {x}]
<1> DEFINE D == DOMAIN g
           f == SumOf(g)
           Good(s) == f[s] \in Nat /\ \A x \in s : f[s] = g[x] + f[s \ {x}]
           P == {s \in SUBSET D : Good(s)}
<1>1. /\ IsFiniteSet(D)
      /\ \A s \in SUBSET D : IsFiniteSet(s) /\ Cardinality(s) \in Nat
  BY DomainFinite, SubsetsFinite
<1>2. \A s \in SUBSET D : f[s] = Sums(g, f, s)
  BY SumExists DEF IsSum
<1>3. \A x \in D : g[x] \in Nat
  OBVIOUS
<1> HIDE DEF f, D
<1>4. ASSUME NEW s \in SUBSET D,
             \A r \in SUBSET D : Cardinality(r) < Cardinality(s) => Good(r)
      PROVE  Good(s)
  <2>1. CASE s = {}
    <3>1. f[s] = 0
      BY <1>2, <2>1 DEF Sums
    <3> QED
      BY <2>1, <3>1
  <2>2. CASE s # {}
    <3> DEFINE y == Pick(s)
    <3>1. y \in s /\ f[s] = g[y] + f[s \ {y}]
      BY <1>1, <1>2, <2>2, PickSmaller DEF Sums
    <3> HIDE DEF y
    <3>2. ASSUME NEW x \in s
          PROVE  s \ {x} \in SUBSET D /\ Good(s \ {x})
      <4>1. Cardinality(s \ {x}) = Cardinality(s) - 1
        BY <1>1, FS_RemoveElement
      <4>2. Cardinality(s) \in Nat /\ s \ {x} \in SUBSET D
        BY <1>1
      <4>3. Cardinality(s \ {x}) < Cardinality(s)
        BY <4>1, <4>2
      <4> QED
        BY <1>4, <4>2, <4>3
    <3>3. f[s] \in Nat
      <4>1. f[s \ {y}] \in Nat /\ g[y] \in Nat
        BY <1>3, <3>1, <3>2
      <4> QED
        BY <3>1, <4>1
    <3>4. ASSUME NEW x \in s, x # y
          PROVE  f[s] = g[x] + f[s \ {x}]
      <4> DEFINE r == (s \ {y}) \ {x}
      <4>1. f[s \ {y}] = g[x] + f[r]
        BY <3>1, <3>2, <3>4
      <4>2. f[s \ {x}] = g[y] + f[r]
        <5>1. r = (s \ {x}) \ {y}
          OBVIOUS
        <5> QED
          BY <3>1, <3>2, <3>4, <5>1
      <4>3. f[r] \in Nat
        <5>1. r \in SUBSET D /\ Cardinality(r) < Cardinality(s)
          <6>1. Cardinality(s \ {y}) = Cardinality(s) - 1
            BY <1>1, <3>1, FS_RemoveElement
          <6>2. IsFiniteSet(s \ {y}) /\ x \in s \ {y}
            BY <1>1, <3>4
          <6>3. Cardinality(r) = Cardinality(s \ {y}) - 1
            BY <6>2, FS_RemoveElement
          <6>4. Cardinality(s) \in Nat /\ r \in SUBSET D
            BY <1>1
          <6> QED
            BY <6>1, <6>3, <6>4
        <5> HIDE DEF r
        <5> QED
          BY <1>4, <5>1
      <4>4. g[x] \in Nat /\ g[y] \in Nat
        BY <1>3, <3>1
      <4> HIDE DEF r, f
      <4> QED
        BY <3>1, <4>1, <4>2, <4>3, <4>4
    <3> QED
      BY <3>1, <3>3, <3>4
  <2> QED
    BY <2>1, <2>2
<1>5. P = SUBSET D
  <2>1. ProgressiveSize(P, D)
    BY <1>4 DEF ProgressiveSize
  <2>2. P \in SUBSET (SUBSET D)
    OBVIOUS
  <2> HIDE DEF P
  <2> QED
    BY <1>1, <2>1, <2>2, SizeInduction
<1> QED
  BY <1>5 DEF f, D

(* Sums over indices at which two sequences agree are equal.               *)
LEMMA SumRestrict ==
  ASSUME NEW g \in Seq(Nat), NEW h \in Seq(Nat),
         NEW d \in SUBSET DOMAIN g, d \subseteq DOMAIN h,
         \A x \in d : g[x] = h[x]
  PROVE  SumOf(g)[d] = SumOf(h)[d]
<1> DEFINE Same(s) == SumOf(g)[s] = SumOf(h)[s]
           P == {s \in SUBSET d : Same(s)}
<1>1. /\ IsFiniteSet(d)
      /\ \A s \in SUBSET d : IsFiniteSet(s) /\ Cardinality(s) \in Nat
  BY DomainFinite, FS_Subset, SubsetsFinite
<1>2. /\ \A s \in SUBSET d : SumOf(g)[s] = Sums(g, SumOf(g), s)
      /\ \A s \in SUBSET d : SumOf(h)[s] = Sums(h, SumOf(h), s)
  <2>1. /\ SUBSET d \subseteq SUBSET DOMAIN g
        /\ SUBSET d \subseteq SUBSET DOMAIN h
    OBVIOUS
  <2>2. \A s \in SUBSET DOMAIN g : SumOf(g)[s] = Sums(g, SumOf(g), s)
    BY SumExists DEF IsSum
  <2>3. \A s \in SUBSET DOMAIN h : SumOf(h)[s] = Sums(h, SumOf(h), s)
    BY SumExists DEF IsSum
  <2> QED
    BY <2>1, <2>2, <2>3
<1>3. ASSUME NEW s \in SUBSET d,
             \A r \in SUBSET d : Cardinality(r) < Cardinality(s) => Same(r)
      PROVE  Same(s)
  <2>1. CASE s = {}
    BY <1>2, <2>1 DEF Sums
  <2>2. CASE s # {}
    <3>1. /\ Pick(s) \in s /\ Cardinality(s \ {Pick(s)}) = Cardinality(s) - 1
          /\ Cardinality(s) \in Nat
      BY <1>1, <2>2, PickSmaller
    <3>2. /\ Cardinality(s \ {Pick(s)}) < Cardinality(s)
          /\ s \ {Pick(s)} \in SUBSET d
      BY <3>1
    <3>3. Same(s \ {Pick(s)})
      BY <1>3, <3>2
    <3>4. g[Pick(s)] = h[Pick(s)]
      BY <3>1
    <3> QED
      BY <1>2, <2>2, <3>3, <3>4 DEF Sums
  <2> QED
    BY <2>1, <2>2
<1>4. P = SUBSET d
  <2>1. ProgressiveSize(P, d)
    BY <1>3 DEF ProgressiveSize
  <2>2. P \in SUBSET (SUBSET d)
    OBVIOUS
  <2> HIDE DEF P
  <2> QED
    BY <1>1, <2>1, <2>2, SizeInduction
<1> QED
  BY <1>4

-----------------------------------------------------------------------------
(***************************************************************************)
(* Heartbeat                                                               *)
(***************************************************************************)

(* Total is such a sum.                                                    *)
LEMMA TotalIsSum == \A g : Total(g) = SumOf(g)[DOMAIN g]
  BY DEF Total, FoldSeq, FoldFunction, FoldFunctionOnSet, MapThenFoldSet,
         SumOf, IsSum, Sums, Pick

(* A sum is at least e for every element that is at least e.               *)
LEMMA SumBound ==
  ASSUME NEW g \in Seq(Nat), NEW e \in Nat
  PROVE  /\ Total(g) \in Nat
         /\ Total(g) >= e * Cardinality({i \in DOMAIN g : g[i] >= e})
<1> DEFINE D == DOMAIN g
           f == SumOf(g)
           Large(s) == {i \in s : g[i] >= e}
           Bounded(s) == f[s] \in Nat /\ f[s] >= e * Cardinality(Large(s))
           T == {n \in Nat : \A s \in SUBSET D :
                               Cardinality(s) = n => Bounded(s)}
<1>1. /\ IsFiniteSet(D)
      /\ \A s \in SUBSET D : IsFiniteSet(s) /\ Cardinality(s) \in Nat
  <2>1. IsFiniteSet(D)
    <3>1. D = 1 .. Len(g) /\ Len(g) \in Nat
      OBVIOUS
    <3> HIDE DEF D
    <3> QED
      BY <3>1, FS_Interval
  <2> QED
    BY <2>1, FS_Subset, FS_CardinalityType
<1>2. \A s \in SUBSET D : f[s] = Sums(g, f, s)
  BY SumExists DEF IsSum
<1>3. 0 \in T
  <2>1. ASSUME NEW s \in SUBSET D, Cardinality(s) = 0
        PROVE  Bounded(s)
    <3>1. s = {}
      BY <1>1, <2>1, FS_EmptySet
    <3>2. Large(s) = {}
      BY <3>1
    <3>3. Cardinality(Large(s)) = 0
      BY <3>2, FS_EmptySet
    <3>4. f[s] = 0
      BY <1>2, <3>1 DEF Sums
    <3> QED
      BY <3>3, <3>4
  <2> QED
    BY <2>1
<1>4. ASSUME NEW n \in T
      PROVE  n + 1 \in T
  <2>1. n \in Nat /\ \A s \in SUBSET D : Cardinality(s) = n => Bounded(s)
    OBVIOUS
  <2>2. ASSUME NEW s \in SUBSET D, Cardinality(s) = n + 1
        PROVE  Bounded(s)
    <3> DEFINE x == Pick(s)
               r == s \ {x}
    <3> HIDE DEF T
    <3>1. s # {} /\ IsFiniteSet(s)
      BY <1>1, <2>1, <2>2, FS_EmptySet
    <3>2. x \in s /\ g[x] \in Nat
      <4>1. x \in s
        BY <3>1, PickSmaller
      <4> HIDE DEF x
      <4>2. x \in D
        BY <4>1
      <4> QED
        BY <4>1, <4>2
    <3>3. r \in SUBSET D /\ Cardinality(r) = n
      <4>1. Cardinality(r) = Cardinality(s) - 1
        BY <3>1, PickSmaller
      <4> QED
        BY <2>1, <2>2, <4>1
    <3> HIDE DEF x
    <3>4. Bounded(r)
      BY <2>1, <3>3
    <3>5. f[s] = g[x] + f[r]
      BY <1>2, <3>1 DEF Sums, x
    <3>6. /\ Cardinality(Large(r)) \in Nat
          /\ Cardinality(Large(s)) =
               Cardinality(Large(r)) + (IF g[x] >= e THEN 1 ELSE 0)
      <4>1. IsFiniteSet(Large(r)) /\ Cardinality(Large(r)) \in Nat
        <5>1. Large(r) \in SUBSET D
          BY <3>3
        <5> QED
          BY <1>1, <5>1
      <4>2. CASE g[x] >= e
        <5>1. Large(s) = Large(r) \cup {x} /\ x \notin Large(r)
          BY <3>2, <4>2
        <5> HIDE DEF Large
        <5> QED
          BY <4>1, <4>2, <5>1, FS_AddElement
      <4>3. CASE ~ (g[x] >= e)
        <5>1. Large(s) = Large(r)
          BY <3>2, <4>3
        <5> HIDE DEF Large
        <5> QED
          BY <4>1, <4>3, <5>1
      <4> QED
        BY <4>2, <4>3
    <3> DEFINE c == Cardinality(Large(r))
               d == Cardinality(Large(s))
    <3>7. f[r] \in Nat /\ f[r] >= e * c
      BY <3>4
    <3>8. c \in Nat /\ d = c + (IF g[x] >= e THEN 1 ELSE 0)
      BY <3>6
    <3> SUFFICES f[s] \in Nat /\ f[s] >= e * d
      OBVIOUS
    <3> HIDE DEF c, d, f, r
    <3>9. CASE g[x] >= e
      <4>1. d = c + 1
        BY <3>8, <3>9
      <4>2. e * d = e * c + e
        BY <3>8, <4>1
      <4>3. e * c \in Nat /\ e * d \in Nat
        BY <3>8, <4>1
      <4> QED
        BY <3>2, <3>5, <3>7, <3>9, <4>2, <4>3
    <3>10. CASE ~ (g[x] >= e)
      <4>1. d = c
        BY <3>8, <3>10
      <4>2. e * c \in Nat
        BY <3>8
      <4> QED
        BY <3>2, <3>5, <3>7, <4>1, <4>2
    <3> QED
      BY <3>9, <3>10
  <2> HIDE DEF Bounded
  <2> QED
    BY <2>1, <2>2
<1>5. T = Nat
  BY <1>3, <1>4, NatSetInduction
<1>6. Bounded(D)
  <2>1. Cardinality(D) \in T /\ D \in SUBSET D
    BY <1>1, <1>5
  <2> HIDE DEF Bounded
  <2> QED
    BY <2>1
<1> QED
  BY <1>6, TotalIsSum

(* If each stretch of m elements has one that is at least e, a sequence    *)
(* that holds n such stretches sums to e * n.                              *)
LEMMA BlocksBound ==
  ASSUME NEW g \in Seq(Nat), NEW e \in Nat, NEW m \in Nat \ {0}, NEW n \in Nat,
         n * m <= Len(g),
         \A i \in 1 .. Len(g) : i + m - 1 <= Len(g) =>
           \E k \in i .. i + m - 1 : g[k] >= e
  PROVE  Total(g) \in Nat /\ Total(g) >= e * n
<1> DEFINE L == {i \in DOMAIN g : g[i] >= e}
           In(b) == CHOOSE k \in (b - 1) * m + 1 .. b * m : g[k] >= e
           f == [b \in 1 .. n |-> In(b)]
<1>0. Len(g) \in Nat /\ DOMAIN g = 1 .. Len(g)
  OBVIOUS
<1>1. ASSUME NEW b \in 1 .. n
      PROVE  /\ In(b) \in (b - 1) * m + 1 .. b * m
             /\ g[In(b)] >= e
             /\ b * m <= n * m
             /\ (b - 1) * m \in Nat /\ b * m \in Nat
  <2> DEFINE i == (b - 1) * m + 1
  <2>1. /\ (b - 1) * m \in Nat /\ b * m \in Nat /\ n * m \in Nat
        /\ b * m = (b - 1) * m + m
    OBVIOUS
  <2>2. b * m <= n * m
    <3>1. (n - b) * m \in Nat
      OBVIOUS
    <3>2. n * m = (n - b) * m + b * m
      OBVIOUS
    <3> QED
      BY <2>1, <3>1, <3>2
  <2>3. i + m - 1 = b * m
    BY <2>1
  <2>4. i \in 1 .. Len(g) /\ i + m - 1 <= Len(g)
    <3> DEFINE p == (b - 1) * m
               q == b * m
               r == n * m
    <3>1. /\ p \in Nat /\ q \in Nat /\ r \in Nat
          /\ q <= r /\ r <= Len(g) /\ q = p + m /\ i = p + 1
      BY <2>1, <2>2
    <3> HIDE DEF p, q, r, i
    <3> QED
      BY <1>0, <3>1
  <2>5. \E k \in i .. i + m - 1 : g[k] >= e
    BY <2>4
  <2>6. \E k \in (b - 1) * m + 1 .. b * m : g[k] >= e
    BY <2>3, <2>5
  <2> QED
    BY <2>1, <2>2, <2>6
<1>2. f \in Injection(1 .. n, L)
  <2>1. ASSUME NEW b \in 1 .. n
        PROVE  f[b] \in L
    <3>1. In(b) \in Int /\ 1 <= In(b) /\ In(b) <= Len(g)
      <4> DEFINE p == (b - 1) * m
                 q == b * m
                 r == n * m
                 k == In(b)
      <4>1. /\ p \in Nat /\ q \in Nat /\ r \in Nat
            /\ q <= r /\ r <= Len(g) /\ k \in p + 1 .. q
        BY <1>1
      <4> SUFFICES k \in Int /\ 1 <= k /\ k <= Len(g)
        OBVIOUS
      <4> HIDE DEF p, q, r, k
      <4> QED
        BY <1>0, <4>1
    <3> HIDE DEF In
    <3> QED
      BY <1>0, <1>1, <3>1
  <2>2. ASSUME NEW b \in 1 .. n, NEW c \in 1 .. n, b < c
        PROVE  f[b] # f[c]
    <3>1. b * m <= (c - 1) * m
      <4>1. (c - 1 - b) * m \in Nat
        <5>1. c - 1 - b \in Nat
          BY <2>2
        <5> QED
          BY <5>1
      <4>2. (c - 1) * m = (c - 1 - b) * m + b * m
        OBVIOUS
      <4>3. b * m \in Nat /\ (c - 1) * m \in Nat
        OBVIOUS
      <4> QED
        BY <4>1, <4>2, <4>3
    <3>2. /\ In(b) \in (b - 1) * m + 1 .. b * m
          /\ In(c) \in (c - 1) * m + 1 .. c * m
      BY <1>1
    <3>3. b * m \in Nat /\ (c - 1) * m \in Nat
      OBVIOUS
    <3>4. In(b) < In(c)
      <4> DEFINE p == b * m
                 q == (c - 1) * m
                 j == In(b)
                 k == In(c)
      <4>1. /\ p \in Nat /\ q \in Nat /\ p <= q
            /\ j \in (b - 1) * m + 1 .. p /\ k \in q + 1 .. c * m
        BY <3>1, <3>2, <3>3
      <4> SUFFICES j < k
        OBVIOUS
      <4>2. (b - 1) * m \in Int /\ c * m \in Int
        OBVIOUS
      <4> HIDE DEF p, q, j, k
      <4> QED
        BY <4>1, <4>2
    <3>5. In(b) \in Int /\ In(c) \in Int
      BY <3>2
    <3> HIDE DEF In
    <3> QED
      BY <3>4, <3>5
  <2> HIDE DEF In
  <2>3. \A b, c \in 1 .. n : b # c => f[b] # f[c]
    <3> SUFFICES ASSUME NEW b \in 1 .. n, NEW c \in 1 .. n, b # c
                 PROVE  f[b] # f[c]
      OBVIOUS
    <3>1. CASE b < c
      BY <2>2, <3>1
    <3>2. CASE c < b
      BY <2>2, <3>2
    <3> QED
      BY <3>1, <3>2
  <2>4. f \in [1 .. n -> L]
    BY <2>1
  <2> HIDE DEF f, L
  <2> QED
    BY <2>3, <2>4 DEF Injection, IsInjective
<1> HIDE DEF f
<1>3. IsFiniteSet(L) /\ n <= Cardinality(L) /\ Cardinality(L) \in Nat
  <2>1. IsFiniteSet(1 .. Len(g))
    BY <1>0, FS_Interval
  <2>2. L \in SUBSET (1 .. Len(g))
    BY <1>0
  <2>3. IsFiniteSet(L)
    BY <2>1, <2>2, FS_Subset
  <2> HIDE DEF L
  <2>4. Cardinality(1 .. n) <= Cardinality(L)
    BY <1>2, <2>3, FS_Injection
  <2>5. Cardinality(1 .. n) = n
    BY FS_Interval
  <2> QED
    BY <2>3, <2>4, <2>5, FS_CardinalityType
<1>4. Total(g) \in Nat /\ Total(g) >= e * Cardinality(L)
  BY SumBound
<1> HIDE DEF L
<1>5. e * Cardinality(L) >= e * n
  <2> DEFINE c == Cardinality(L)
  <2>1. c \in Nat /\ n <= c
    BY <1>3
  <2> SUFFICES e * c >= e * n
    OBVIOUS
  <2> HIDE DEF c
  <2>2. e * (c - n) \in Nat
    BY <2>1
  <2>3. e * c = e * (c - n) + e * n
    BY <2>1
  <2>4. e * n \in Nat /\ e * c \in Nat
    BY <2>1
  <2> QED
    BY <2>2, <2>3, <2>4
<1>6. e * Cardinality(L) \in Nat /\ e * n \in Nat
  BY <1>3
<1> QED
  BY <1>4, <1>5, <1>6

(* The assumption about the constants, unfolded.                           *)
LEMMA Constants ==
  /\ Every \in Nat /\ Late \in Nat /\ MaxSilence \in Nat /\ MaxCopies \in Nat
  /\ MinTimeout \in Nat /\ Multiplier \in Nat /\ DefaultInterval \in Nat
  /\ Window \in Nat
  /\ 1 <= Every /\ 1 <= MaxCopies /\ 1 <= MinTimeout /\ 1 <= Multiplier
  /\ 2 <= Window /\ Every < Late /\ Late < MaxSilence
  BY HeartbeatAssumption

(* Gaps sum to a number.                                                   *)
LEMMA GapsAreNat ==
  ASSUME NEW g \in Seq(0 .. MaxSilence)
  PROVE  g \in Seq(Nat) /\ Total(g) \in Nat
<1>1. g \in Seq(Nat)
  BY Constants
<1> QED
  BY <1>1, SumBound

(* A sensor that is overdue stays so while it is silent.                   *)
LEMMA OverdueMonotone ==
  ASSUME NEW g \in Seq(0 .. MaxSilence), NEW t \in Nat, NEW u \in Nat, t <= u,
         Overdue(g, t)
  PROVE  Overdue(g, u)
<1>1. u > MinTimeout
  BY Constants DEF Overdue
<1>2. CASE g = <<>>
  <2>1. /\ t > DefaultInterval * Multiplier
        /\ DefaultInterval * Multiplier \in Nat
    BY <1>2, Constants DEF Overdue
  <2>2. u > DefaultInterval * Multiplier
    BY <2>1
  <2> QED
    BY <1>1, <1>2, <2>2 DEF Overdue
<1>3. CASE g # <<>>
  <2> DEFINE n == Len(g)
             m == Total(g) * Multiplier
  <2>1. n \in Nat
    OBVIOUS
  <2>2. m \in Nat
    BY GapsAreNat, Constants
  <2>3. t * n > m
    BY <1>3 DEF Overdue
  <2> SUFFICES u * n > m
    BY <1>1, <1>3 DEF Overdue
  <2> HIDE DEF n, m
  <2>4. (u - t) * n \in Nat /\ t * n \in Nat /\ u * n \in Nat
    BY <2>1
  <2>5. u * n = (u - t) * n + t * n
    BY <2>1
  <2> QED
    BY <2>2, <2>3, <2>4, <2>5
<1> QED
  BY <1>2, <1>3

(* No sensor is overdue when it has just been heard.                       *)
LEMMA NotOverdueAtOnce == \A g : ~ Overdue(g, 0)
  BY Constants DEF Overdue

(* A gap is appended and, when the window is full, the oldest one dropped. *)
LEMMA LatestEffect ==
  ASSUME NEW g \in Seq(0 .. MaxSilence), Len(g) < Window,
         NEW x \in 0 .. MaxSilence
  PROVE  LET h == Latest(Append(g, x))
         IN  /\ h \in Seq(0 .. MaxSilence)
             /\ Len(h) < Window
             /\ \E d \in {0, 1} :
                  /\ Len(h) = Len(g) + 1 - d
                  /\ \A k \in 1 .. Len(h) :
                       h[k] = IF k + d <= Len(g) THEN g[k + d] ELSE x
<1> DEFINE a == Append(g, x)
           h == Latest(a)
<1>1. /\ a \in Seq(0 .. MaxSilence) /\ Len(a) = Len(g) + 1 /\ Len(g) \in Nat
      /\ \A k \in 1 .. Len(a) : a[k] = IF k <= Len(g) THEN g[k] ELSE x
  OBVIOUS
<1>2. CASE Len(a) < Window
  <2>1. h = a
    BY <1>2 DEF Latest
  <2> HIDE DEF h, a
  <2>2. Len(h) = Len(g) + 1 - 0
    BY <1>1, <2>1
  <2>3. \A k \in 1 .. Len(h) : h[k] = IF k + 0 <= Len(g) THEN g[k + 0] ELSE x
    BY <1>1, <2>1
  <2>4. h \in Seq(0 .. MaxSilence) /\ Len(h) < Window
    BY <1>1, <1>2, <2>1
  <2> QED
    BY <2>2, <2>3, <2>4 DEF h, a
<1>3. CASE ~ (Len(a) < Window)
  <2>1. Len(a) = Window /\ Len(g) = Window - 1
    BY <1>1, <1>3, Constants
  <2>2. h = SubSeq(a, 2, Window)
    BY <1>3, <2>1, Constants DEF Latest
  <2> HIDE DEF h, a
  <2>3. h \in Seq(0 .. MaxSilence) /\ Len(h) = Window - 1
    BY <1>1, <2>1, <2>2, Constants
  <2>4. \A k \in 1 .. Len(h) : h[k] = a[k + 1]
    BY <1>1, <2>1, <2>2, <2>3, Constants
  <2>5. Len(h) = Len(g) + 1 - 1
    BY <2>1, <2>3, Constants
  <2>6. \A k \in 1 .. Len(h) : h[k] = IF k + 1 <= Len(g) THEN g[k + 1] ELSE x
    <3> SUFFICES ASSUME NEW k \in 1 .. Len(h)
                 PROVE  h[k] = IF k + 1 <= Len(g) THEN g[k + 1] ELSE x
      OBVIOUS
    <3>1. k + 1 \in 1 .. Len(a)
      BY <2>1, <2>3, Constants
    <3>2. h[k] = a[k + 1]
      BY <2>4
    <3> QED
      BY <1>1, <3>1, <3>2
  <2> QED
    BY <2>1, <2>3, <2>5, <2>6, Constants DEF h, a
<1> QED
  BY <1>2, <1>3

(* The kept gaps.                                                          *)
GapsType == gaps \in [Sensors -> Seq(0 .. MaxSilence)]

(* A sensor without a stamp has no gaps; another has been heard by a base  *)
(* station.                                                                *)
StampedWhenSeen ==
  \A s \in Sensors :
    IF state[s] = "unseen"
    THEN gaps[s] = <<>> /\ silence[s] = 0 /\ copies[s] = 0
    ELSE copies[s] >= 1

(* After its pass the monitor has left no overdue sensor online.           *)
CheckedInTime ==
  checked => \A s \in Sensors :
               state[s] = "online" => ~ Overdue(gaps[s], silence[s])

(* Copies make gaps of zero, and an uplink has no more than MaxCopies - 1  *)
(* of them: c is the number of copies that the last one has had.           *)
CopiesBetween(g, c) ==
  /\ \A i \in 1 .. Len(g) : i + MaxCopies - 1 <= Len(g) =>
       \E k \in i .. i + MaxCopies - 1 : g[k] >= Every
  /\ \A i \in 1 .. Len(g) : Len(g) - i + 1 >= c =>
       \E k \in i .. Len(g) : g[k] >= Every

(* It holds of every sensor.                                               *)
CopiesAreFew == \A s \in Sensors : CopiesBetween(gaps[s], copies[s])

(* The inductive invariant, besides TypeOK.                                *)
HeartbeatInv ==
  /\ GapsType
  /\ StampedWhenSeen
  /\ CheckedInTime
  /\ StateFollowsSilence
  /\ CopiesAreFew

(* A gap that is appended leaves the copies few, be it that of a new       *)
(* uplink or that of one more copy.                                        *)
LEMMA GapKeepsCopies ==
  ASSUME NEW g \in Seq(0 .. MaxSilence), Len(g) < Window,
         NEW x \in 0 .. MaxSilence,
         NEW c \in 1 .. MaxCopies, CopiesBetween(g, c),
         NEW n \in Nat,
         \/ x >= Every /\ n = 1
         \/ c < MaxCopies /\ n = c + 1
  PROVE  CopiesBetween(Latest(Append(g, x)), n)
<1> DEFINE h == Latest(Append(g, x))
<1>1. h \in Seq(0 .. MaxSilence)
  BY LatestEffect
<1>2. PICK d \in {0, 1} :
        /\ Len(h) = Len(g) + 1 - d
        /\ \A k \in 1 .. Len(h) :
             h[k] = IF k + d <= Len(g) THEN g[k + d] ELSE x
  BY LatestEffect
<1> HIDE DEF h
<1>3. Len(g) \in Nat /\ Len(h) \in Nat /\ d \in Int /\ c \in Int
      /\ MaxCopies \in Nat /\ MaxCopies >= 1 /\ c <= MaxCopies /\ c >= 1
  BY <1>1, Constants
<1>4. h # <<>> => Len(h) >= 1 /\ (Len(h) + d = Len(g) + 1) /\ h[Len(h)] = x
  BY <1>1, <1>2, <1>3
<1>5. ASSUME NEW i \in 1 .. Len(h), Len(h) - i + 1 >= n
      PROVE  \E k \in i .. Len(h) : h[k] >= Every
  <2>0. h # <<>>
    BY <1>1, <1>3
  <2>1. CASE x >= Every
    BY <1>3, <1>4, <2>0, <2>1
  <2>2. CASE c < MaxCopies /\ n = c + 1
    <3>1. i + d \in 1 .. Len(g) /\ Len(g) - (i + d) + 1 >= c
      BY <1>2, <1>3, <1>5, <2>2
    <3>2. PICK k \in i + d .. Len(g) : g[k] >= Every
      BY <3>1 DEF CopiesBetween
    <3>3. k - d \in i .. Len(h) /\ k - d \in 1 .. Len(h) /\ h[k - d] = g[k]
      BY <1>2, <1>3, <3>2
    <3> QED
      BY <3>2, <3>3
  <2> QED
    BY <2>1, <2>2
<1>6. ASSUME NEW i \in 1 .. Len(h), i + MaxCopies - 1 <= Len(h)
      PROVE  \E k \in i .. i + MaxCopies - 1 : h[k] >= Every
  <2>1. CASE i + d + MaxCopies - 1 <= Len(g)
    <3>1. i + d \in 1 .. Len(g)
      BY <1>3, <2>1
    <3>2. PICK k \in i + d .. i + d + MaxCopies - 1 : g[k] >= Every
      BY <2>1, <3>1 DEF CopiesBetween
    <3>3. k - d \in i .. i + MaxCopies - 1 /\ k - d \in 1 .. Len(h)
          /\ h[k - d] = g[k]
      BY <1>2, <1>3, <2>1, <3>2
    <3> QED
      BY <3>2, <3>3
  <2>2. CASE ~ (i + d + MaxCopies - 1 <= Len(g))
    <3>1. i + MaxCopies - 1 = Len(h)
      BY <1>2, <1>3, <1>6, <2>2
    <3>2. Len(h) - i + 1 >= n
      BY <1>3, <3>1
    <3> QED
      BY <1>5, <3>1, <3>2
  <2> QED
    BY <2>1, <2>2
<1> QED
  BY <1>5, <1>6 DEF CopiesBetween, h

(* It holds at first.                                                      *)
LEMMA InitHeartbeat == Init => TypeOK /\ HeartbeatInv
<1> SUFFICES ASSUME Init
             PROVE  TypeOK /\ HeartbeatInv
  OBVIOUS
<1> USE DEF Init
<1>1. TypeOK
  <2>1. \A s \in Sensors : gaps[s] = <<>>
    OBVIOUS
  <2>2. \A s \in Sensors : /\ gaps[s] \in Seq(0 .. MaxSilence)
                           /\ Len(gaps[s]) < Window
    BY <2>1, Constants
  <2>3. /\ copies \in [Sensors -> 0 .. MaxCopies]
        /\ silence \in [Sensors -> 0 .. MaxSilence]
    BY Constants
  <2> QED
    BY <2>2, <2>3 DEF TypeOK
<1>2. GapsType /\ StampedWhenSeen /\ CheckedInTime /\ StateFollowsSilence
  BY DEF GapsType, StampedWhenSeen, CheckedInTime, StateFollowsSilence
<1>3. CopiesAreFew
  BY DEF CopiesAreFew, CopiesBetween
<1> QED
  BY <1>1, <1>2, <1>3 DEF HeartbeatInv

(* What a stamp does: s is online, at a new silence, and has one gap more  *)
(* unless it is its first. c is what its copies become.                    *)
LEMMA StampKeepsInv ==
  ASSUME TypeOK, HeartbeatInv, NEW s \in Sensors, Stamp(s),
         NEW c \in 1 .. MaxCopies, copies' = [copies EXCEPT ![s] = c],
         state[s] # "unseen" =>
           \/ silence[s] >= Every /\ c = 1
           \/ copies[s] < MaxCopies /\ c = copies[s] + 1,
         state[s] = "unseen" => c = 1
  PROVE  TypeOK' /\ HeartbeatInv'
<1> DEFINE h == Latest(Append(gaps[s], silence[s]))
<1>1. /\ gaps[s] \in Seq(0 .. MaxSilence) /\ Len(gaps[s]) < Window
      /\ silence[s] \in 0 .. MaxSilence
      /\ copies[s] \in 0 .. MaxCopies
  BY DEF TypeOK
<1>2. h \in Seq(0 .. MaxSilence) /\ Len(h) < Window
  BY <1>1, LatestEffect
<1> HIDE DEF h
<1>3. gaps' = IF state[s] = "unseen" THEN gaps ELSE [gaps EXCEPT ![s] = h]
  BY DEF Stamp, h
<1>4. \A o \in Sensors :
        /\ state'[o] = IF o = s THEN "online" ELSE state[o]
        /\ silence'[o] = IF o = s THEN 0 ELSE silence[o]
        /\ copies'[o] = IF o = s THEN c ELSE copies[o]
        /\ gaps'[o] = IF o = s /\ state[s] # "unseen" THEN h ELSE gaps[o]
  BY <1>3 DEF Stamp, TypeOK, HeartbeatInv, GapsType
<1>5. TypeOK'
  <2>1. state' \in [Sensors -> {"unseen", "online", "offline"}]
    BY DEF TypeOK, Stamp
  <2>2. silence' \in [Sensors -> 0 .. MaxSilence]
    BY Constants DEF TypeOK, Stamp
  <2>3. copies' \in [Sensors -> 0 .. MaxCopies]
    BY Constants DEF TypeOK
  <2>4. \A o \in Sensors : /\ gaps'[o] \in Seq(0 .. MaxSilence)
                           /\ Len(gaps'[o]) < Window
    BY <1>2, <1>4 DEF TypeOK
  <2> QED
    BY <2>1, <2>2, <2>3, <2>4 DEF TypeOK, Stamp
<1>6. GapsType'
  BY <1>2, <1>3 DEF GapsType, HeartbeatInv
<1>7. StampedWhenSeen'
  BY <1>4, Constants DEF StampedWhenSeen, HeartbeatInv
<1>8. CheckedInTime'
  BY <1>4, NotOverdueAtOnce DEF CheckedInTime, HeartbeatInv, Stamp
<1>9. StateFollowsSilence'
  BY <1>4 DEF StateFollowsSilence, HeartbeatInv
<1>10. CopiesAreFew'
  <2>1. ASSUME NEW o \in Sensors
        PROVE  CopiesBetween(gaps'[o], copies'[o])
    <3>1. CASE o # s
      BY <1>4, <3>1 DEF HeartbeatInv, CopiesAreFew
    <3>2. CASE o = s /\ state[s] = "unseen"
      <4>1. gaps'[o] = <<>>
        BY <1>4, <3>2 DEF HeartbeatInv, StampedWhenSeen
      <4> QED
        BY <4>1 DEF CopiesBetween
    <3>3. CASE o = s /\ state[s] # "unseen"
      <4>1. CopiesBetween(gaps[s], copies[s])
        BY DEF HeartbeatInv, CopiesAreFew
      <4>2. copies[s] \in 1 .. MaxCopies
        BY <1>1, <3>3, Constants DEF HeartbeatInv, StampedWhenSeen
      <4>3. CopiesBetween(h, c)
        BY <1>1, <3>3, <4>1, <4>2, GapKeepsCopies DEF h
      <4> QED
        BY <1>4, <3>3, <4>3
    <3> QED
      BY <3>1, <3>2, <3>3
  <2> QED
    BY <2>1 DEF CopiesAreFew
<1> QED
  BY <1>5, <1>6, <1>7, <1>8, <1>9, <1>10 DEF HeartbeatInv

(* Every step keeps it.                                                    *)
LEMMA NextHeartbeat ==
  TypeOK /\ HeartbeatInv /\ [Next]_heartbeatVars => TypeOK' /\ HeartbeatInv'
<1> SUFFICES ASSUME TypeOK, HeartbeatInv, [Next]_heartbeatVars
             PROVE  TypeOK' /\ HeartbeatInv'
  OBVIOUS
<1>1. CASE UNCHANGED heartbeatVars
  BY <1>1 DEF heartbeatVars, TypeOK, HeartbeatInv, GapsType, StampedWhenSeen,
     CheckedInTime, StateFollowsSilence, CopiesAreFew
<1>2. CASE Monitor
  <2>1. /\ UNCHANGED <<gaps, silence, copies>> /\ checked' = TRUE
        /\ \A s \in Sensors :
             state'[s] = IF state[s] = "online" /\ Overdue(gaps[s], silence[s])
                         THEN "offline" ELSE state[s]
    BY <1>2 DEF Monitor
  <2>2. TypeOK'
    BY <1>2, <2>1 DEF Monitor, TypeOK
  <2>3. GapsType' /\ CopiesAreFew'
    BY <2>1 DEF HeartbeatInv, GapsType, CopiesAreFew
  <2>4. StampedWhenSeen' /\ CheckedInTime'
    BY <2>1 DEF HeartbeatInv, StampedWhenSeen, CheckedInTime
  <2>5. StateFollowsSilence'
    BY <2>1 DEF HeartbeatInv, StateFollowsSilence
  <2> QED
    BY <2>2, <2>3, <2>4, <2>5 DEF HeartbeatInv
<1>3. CASE Tick
  <2>1. /\ UNCHANGED <<state, gaps, copies>> /\ checked /\ ~ checked'
        /\ \A s \in Sensors :
             silence'[s] = IF state[s] = "unseen" THEN 0
                           ELSE Min({silence[s] + 1, MaxSilence})
    BY <1>3 DEF Tick
  <2>2. \A s \in Sensors : silence[s] \in 0 .. MaxSilence
    BY DEF TypeOK
  <2>3. \A a, b \in Int : Min({a, b}) = IF a <= b THEN a ELSE b
    BY DEF Min
  <2>4. \A s \in Sensors :
          /\ silence'[s] \in 0 .. MaxSilence
          /\ state[s] # "unseen" => silence'[s] >= silence[s]
          /\ silence'[s] > 0 => silence'[s] - 1 <= silence[s]
    <3> SUFFICES ASSUME NEW s \in Sensors
                 PROVE  /\ silence'[s] \in 0 .. MaxSilence
                        /\ state[s] # "unseen" => silence'[s] >= silence[s]
                        /\ silence'[s] > 0 => silence'[s] - 1 <= silence[s]
      OBVIOUS
    <3>1. silence[s] \in 0 .. MaxSilence
      BY <2>2
    <3>2. silence'[s] = IF state[s] = "unseen" THEN 0
                        ELSE Min({silence[s] + 1, MaxSilence})
      BY <2>1
    <3>3. Min({silence[s] + 1, MaxSilence}) =
            IF silence[s] + 1 <= MaxSilence THEN silence[s] + 1 ELSE MaxSilence
      BY <2>3, <3>1, Constants
    <3> QED
      BY <3>1, <3>2, <3>3, Constants
  <2>5. silence' \in [Sensors -> 0 .. MaxSilence]
    BY <1>3, <2>4 DEF Tick
  <2>6. TypeOK'
    BY <1>3, <2>1, <2>5 DEF Tick, TypeOK
  <2>7. GapsType' /\ CopiesAreFew' /\ CheckedInTime'
    BY <2>1 DEF HeartbeatInv, GapsType, CopiesAreFew, CheckedInTime
  <2>8. StampedWhenSeen'
    BY <2>1 DEF HeartbeatInv, StampedWhenSeen
  <2>9. StateFollowsSilence'
    <3>1. ASSUME NEW s \in Sensors, state[s] = "offline"
          PROVE  Overdue(gaps[s], silence'[s])
      <4>1. Overdue(gaps[s], silence[s])
        BY <3>1 DEF HeartbeatInv, StateFollowsSilence
      <4>2. /\ gaps[s] \in Seq(0 .. MaxSilence)
            /\ silence[s] \in Nat /\ silence'[s] \in Nat
            /\ silence[s] <= silence'[s]
        BY <2>2, <2>4, <3>1 DEF TypeOK
      <4> QED
        BY <4>1, <4>2, OverdueMonotone
    <3>2. ASSUME NEW s \in Sensors, state[s] = "online", silence'[s] > 0
          PROVE  ~ Overdue(gaps[s], silence'[s] - 1)
      <4>1. ~ Overdue(gaps[s], silence[s])
        BY <2>1, <3>2 DEF HeartbeatInv, CheckedInTime
      <4>2. /\ gaps[s] \in Seq(0 .. MaxSilence)
            /\ silence[s] \in Nat /\ silence'[s] - 1 \in Nat
            /\ silence'[s] - 1 <= silence[s]
        BY <2>2, <2>4, <3>2 DEF TypeOK
      <4> QED
        BY <4>1, <4>2, OverdueMonotone
    <3> QED
      BY <2>1, <3>1, <3>2 DEF StateFollowsSilence
  <2> QED
    BY <2>6, <2>7, <2>8, <2>9 DEF HeartbeatInv
<1>4. ASSUME NEW s \in Sensors, Uplink(s)
      PROVE  TypeOK' /\ HeartbeatInv'
  <2>1. /\ Stamp(s) /\ copies' = [copies EXCEPT ![s] = 1]
        /\ state[s] # "unseen" => silence[s] >= Every
    BY <1>4, Constants DEF Uplink
  <2>2. 1 \in 1 .. MaxCopies
    BY Constants
  <2> QED
    BY <2>1, <2>2, StampKeepsInv
<1>5. ASSUME NEW s \in Sensors, Copy(s)
      PROVE  TypeOK' /\ HeartbeatInv'
  <2>1. copies[s] \in 1 .. MaxCopies - 1 /\ Stamp(s)
    BY <1>5 DEF Copy
  <2>2. copies' = [copies EXCEPT ![s] = copies[s] + 1]
    BY <1>5 DEF Copy
  <2>3. copies[s] + 1 \in 1 .. MaxCopies /\ copies[s] < MaxCopies
    BY <2>1, Constants
  <2>4. state[s] # "unseen"
    BY <2>1, Constants DEF HeartbeatInv, StampedWhenSeen
  <2> QED
    BY <2>1, <2>2, <2>3, <2>4, StampKeepsInv
<1> QED
  BY <1>1, <1>2, <1>3, <1>4, <1>5 DEF Next

(* The types and the invariant hold in every behaviour.                    *)
THEOREM Invariance == Spec => [](TypeOK /\ HeartbeatInv)
  BY InitHeartbeat, NextHeartbeat, PTL DEF Spec

(* The kept stamps, the silences and the states have their types, and      *)
(* there are never more than Window stamps.                                *)
THEOREM TypeCorrectness == Spec => []TypeOK
  BY Invariance, PTL

(* For any window, timeout and number of sensors: a sensor is marked       *)
(* offline (heartbeat_monitor) only when it has been silent for longer     *)
(* than its timeout, and at the latest one period of the monitor after     *)
(* that.                                                                   *)
THEOREM StatesFollowSilence == Spec => []StateFollowsSilence
<1>1. HeartbeatInv => StateFollowsSilence
  BY DEF HeartbeatInv
<1> QED
  BY <1>1, Invariance, PTL

(* The base stations are few enough for the window and the multiplier.     *)
FewStations == Window - 1 <= Multiplier * ((Window - 1) \div MaxCopies)

(* A full window of regular uplinks with few copies makes an interval that *)
(* the multiplier lifts above the time between uplinks.                    *)
LEMMA RegularIsOnline ==
  ASSUME FewStations, TypeOK, HeartbeatInv
  PROVE  RegularStaysOnline
<1> SUFFICES ASSUME NEW s \in Sensors, Len(gaps[s]) = Window - 1,
                    Range(gaps[s]) \subseteq {0, Every}, silence[s] <= Every
             PROVE  state[s] = "online"
  BY DEF RegularStaysOnline
<1> DEFINE g == gaps[s]
           n == (Window - 1) \div MaxCopies
           t == silence[s]
<1>1. /\ g \in Seq(0 .. MaxSilence) /\ Len(g) = Window - 1 /\ g # <<>>
      /\ t \in Nat /\ t <= Every
  BY Constants DEF TypeOK
<1>2. n \in Nat /\ n * MaxCopies <= Window - 1
  BY Constants
<1>3. Total(g) \in Nat /\ Total(g) >= Every * n
  <2>1. CopiesBetween(g, copies[s])
    BY DEF HeartbeatInv, CopiesAreFew
  <2>2. \A i \in 1 .. Len(g) : i + MaxCopies - 1 <= Len(g) =>
          \E k \in i .. i + MaxCopies - 1 : g[k] >= Every
    BY <2>1 DEF CopiesBetween
  <2>3. g \in Seq(Nat)
    BY <1>1, GapsAreNat
  <2>4. MaxCopies \in Nat \ {0} /\ Every \in Nat
    BY Constants
  <2>5. n * MaxCopies <= Len(g)
    BY <1>1, <1>2
  <2> HIDE DEF n, g
  <2> QED
    BY <1>2, <2>2, <2>3, <2>4, <2>5, BlocksBound
<1>4. ~ Overdue(g, t)
  <2> DEFINE l == Window - 1
             m == Multiplier
             e == Every
             x == Total(g)
  <2>1. /\ l \in Nat /\ m \in Nat /\ e \in Nat
        /\ t \in Nat /\ n \in Nat /\ x \in Nat
        /\ t <= e /\ l <= m * n /\ x >= e * n
    BY <1>1, <1>2, <1>3, Constants DEF FewStations
  <2> HIDE DEF l, m, e, n, x, t
  <2>2. t * l <= e * l
    <3>1. (e - t) * l \in Nat /\ e * l = (e - t) * l + t * l /\ t * l \in Nat
      BY <2>1
    <3> QED
      BY <3>1
  <2>3. e * l <= e * (m * n)
    <3>1. m * n \in Nat
      BY <2>1
    <3> DEFINE q == m * n
    <3> HIDE DEF q
    <3>2. q \in Nat /\ l <= q
      BY <2>1, <3>1 DEF q
    <3>3. e * (q - l) \in Nat /\ e * q = e * (q - l) + e * l /\ e * l \in Nat
      BY <2>1, <3>2
    <3>4. e * l <= e * q
      BY <3>3
    <3> QED
      BY <3>4 DEF q
  <2>4. e * (m * n) = (e * n) * m
    BY <2>1
  <2>5. (e * n) * m <= x * m
    <3> DEFINE q == e * n
    <3>1. q \in Nat /\ q <= x
      BY <2>1
    <3> HIDE DEF q
    <3>2. (x - q) * m \in Nat /\ x * m = (x - q) * m + q * m /\ q * m \in Nat
      BY <2>1, <3>1
    <3>3. q * m <= x * m
      BY <3>2
    <3> QED
      BY <3>3 DEF q
  <2>6. /\ t * l \in Nat /\ e * l \in Nat /\ (e * n) * m \in Nat
        /\ x * m \in Nat
    BY <2>1
  <2>7. ~ (t * l > x * m)
    BY <2>2, <2>3, <2>4, <2>5, <2>6
  <2> QED
    BY <1>1, <2>7 DEF Overdue, l, x, m
<1>5. state[s] # "offline"
  BY <1>4 DEF HeartbeatInv, StateFollowsSilence
<1>6. state[s] # "unseen"
  BY <1>1 DEF HeartbeatInv, StampedWhenSeen
<1> QED
  BY <1>5, <1>6 DEF TypeOK

(* If few enough base stations hear each uplink, the copies, each of which *)
(* _update_sensor_heartbeat stamps as an uplink of its own, do not make    *)
(* the monitor mark a regular sensor offline before its next uplink is     *)
(* due.                                                                    *)
THEOREM RegularSensorsStayOnline ==
  ASSUME FewStations
  PROVE  Spec => []RegularStaysOnline
  BY RegularIsOnline, Invariance, PTL

(* With the code's ten stamps and multiplier of four, few enough means     *)
(* that at most three base stations hear an uplink.                        *)
LEMMA ThreeStations ==
  Window = 10 /\ Multiplier = 4 => (FewStations <=> MaxCopies <= 3)
<1> SUFFICES ASSUME Window = 10, Multiplier = 4
             PROVE  FewStations <=> MaxCopies <= 3
  OBVIOUS
<1>1. FewStations <=> 9 <= 4 * (9 \div MaxCopies)
  BY DEF FewStations
<1>2. CASE MaxCopies = 1 \/ MaxCopies = 2 \/ MaxCopies = 3
  BY <1>1, <1>2
<1>3. CASE MaxCopies >= 4
  <2> DEFINE q == 9 \div MaxCopies
  <2>1. q \in Nat /\ q * MaxCopies <= 9
    BY <1>3, Constants
  <2>2. q <= 2
    <3>1. CASE q >= 3
      <4>1. q * MaxCopies >= 12
        BY <1>3, <2>1, <3>1, Constants
      <4> QED
        BY <2>1, <4>1, Constants
    <3> QED
      BY <2>1, <3>1
  <2> QED
    BY <1>1, <1>3, <2>1, <2>2, Constants
<1> QED
  BY <1>2, <1>3, Constants

-----------------------------------------------------------------------------
(***************************************************************************)
(* Framing                                                                 *)
(***************************************************************************)

(* The extents of the first n units of a stream.                           *)
Extents(q, n) == [i \in 1 .. n |-> Extent(q[i])]

(* The sum of those before the n-th.                                       *)
StartIn(q, n) == SumOf(Extents(q, n - 1))[1 .. n - 1]

(* Where a unit starts is such a sum.                                      *)
LEMMA StartIsSum == \A n : Start(n) = StartIn(stream, n)
  <1>1. \A n : DOMAIN [i \in 1 .. n - 1 |-> Extent(stream[i])] = 1 .. n - 1
    OBVIOUS
  <1> QED
    BY <1>1 DEF Start, StartIn, Extents, FoldSeq, FoldFunction,
            FoldFunctionOnSet, MapThenFoldSet, SumOf, IsSum, Sums, Pick

(* A step that keeps the stream keeps where its units start.               *)
LEMMA StartKept ==
  ASSUME stream' = stream
  PROVE  \A n : Start(n)' = Start(n)
<1>1. (\A n : Start(n) = StartIn(stream, n))'
  BY StartIsSum, PTL
<1> QED
  BY <1>1, StartIsSum

(* A unit is not empty, and a frame is its header and its payload.         *)
LEMMA UnitExtents ==
  ASSUME NEW u \in Units
  PROVE  /\ Extent(u) \in Nat \ {0}
         /\ u.size \in Nat \ {0}
         /\ u.kind # "junk" => Extent(u) = Header + u.size
<1>1. u.size \in Nat \ {0}
  BY FramingAssumption DEF Units
<1>2. Extent(u) = IF u.kind = "junk" THEN u.size ELSE u.size + Header
  BY <1>1 DEF Extent
<1> QED
  BY <1>1, <1>2 DEF Header

(* A unit starts where the one before it ends.                             *)
LEMMA StartNext ==
  ASSUME stream \in Seq(Units)
  PROVE  /\ Start(1) = 0
         /\ \A n \in 1 .. Len(stream) + 1 : Start(n) \in Nat
         /\ \A n \in 1 .. Len(stream) : Start(n + 1) = End(n)
<1> DEFINE E(k) == Extents(stream, k)
<1>1. \A k \in 0 .. Len(stream) : E(k) \in Seq(Nat) /\ DOMAIN E(k) = 1 .. k
  <2>1. \A i \in 1 .. Len(stream) : Extent(stream[i]) \in Nat
    BY UnitExtents
  <2> QED
    BY <2>1 DEF Extents
<1>2. ASSUME NEW n \in 1 .. Len(stream) + 1
      PROVE  Start(n) \in Nat
  <2>1. n - 1 \in 0 .. Len(stream)
    OBVIOUS
  <2>2. E(n - 1) \in Seq(Nat) /\ 1 .. n - 1 \in SUBSET DOMAIN E(n - 1)
    BY <1>1, <2>1
  <2> QED
    BY <2>2, SumAny, StartIsSum DEF StartIn
<1>3. Start(1) = 0
  <2>1. E(0) \in Seq(Nat) /\ {} \in SUBSET DOMAIN E(0)
    BY <1>1
  <2>2. SumOf(E(0))[{}] = 0
    BY <2>1, SumExists DEF IsSum, Sums
  <2>3. 1 .. 1 - 1 = {} /\ 1 - 1 = 0
    OBVIOUS
  <2> QED
    BY <2>2, <2>3, StartIsSum DEF StartIn
<1>4. ASSUME NEW n \in 1 .. Len(stream)
      PROVE  Start(n + 1) = End(n)
  <2>1. /\ E(n) \in Seq(Nat) /\ DOMAIN E(n) = 1 .. n
        /\ E(n - 1) \in Seq(Nat) /\ DOMAIN E(n - 1) = 1 .. n - 1
    BY <1>1
  <2>2. SumOf(E(n))[1 .. n] = E(n)[n] + SumOf(E(n))[(1 .. n) \ {n}]
    <3>1. n \in 1 .. n /\ 1 .. n \in SUBSET DOMAIN E(n)
      BY <2>1
    <3> HIDE DEF E
    <3>2. \A s \in SUBSET DOMAIN E(n) : \A x \in s :
            SumOf(E(n))[s] = E(n)[x] + SumOf(E(n))[s \ {x}]
      BY <2>1, SumAny
    <3> QED
      BY <3>1, <3>2
  <2>3. (1 .. n) \ {n} = 1 .. n - 1
    OBVIOUS
  <2>4. \A i \in 1 .. n - 1 : E(n)[i] = E(n - 1)[i]
    BY DEF Extents
  <2>5. SumOf(E(n))[1 .. n - 1] = SumOf(E(n - 1))[1 .. n - 1]
    BY <2>1, <2>4, SumRestrict
  <2>6. E(n)[n] = Extent(stream[n]) /\ Extent(stream[n]) \in Nat
    BY UnitExtents DEF Extents
  <2>7. n + 1 - 1 = n
    OBVIOUS
  <2>8. Start(n + 1) = SumOf(E(n))[1 .. n]
    BY <2>7, StartIsSum DEF StartIn
  <2>9. Start(n) = SumOf(E(n - 1))[1 .. n - 1]
    BY StartIsSum DEF StartIn
  <2>10. Start(n) \in Nat
    BY <1>2
  <2>11. Start(n + 1) = Extent(stream[n]) + Start(n)
    BY <2>2, <2>3, <2>5, <2>6, <2>8, <2>9
  <2> QED
    BY <2>6, <2>10, <2>11 DEF End
<1> QED
  BY <1>2, <1>3, <1>4

(* What else is needed of positions: units lie in order, each behind the   *)
(* other.                                                                  *)
LEMMA Layout ==
  ASSUME stream \in Seq(Units)
  PROVE  /\ Start(1) = 0
         /\ \A n \in 1 .. Len(stream) + 1 : Start(n) \in Nat
         /\ \A n \in 1 .. Len(stream) :
              /\ End(n) = Start(n + 1)
              /\ Start(n) < End(n)
              /\ stream[n].size \in Nat \ {0}
              /\ stream[n].kind # "junk"
                   => End(n) = Start(n) + Header + stream[n].size
         /\ \A m, n \in 1 .. Len(stream) + 1 : m < n => Start(m) < Start(n)
<1>1. ASSUME NEW n \in 1 .. Len(stream)
      PROVE  /\ End(n) = Start(n + 1)
             /\ Start(n) < End(n)
             /\ stream[n].size \in Nat \ {0}
             /\ stream[n].kind # "junk"
                  => End(n) = Start(n) + Header + stream[n].size
  <2>1. stream[n] \in Units /\ Start(n) \in Nat /\ End(n) = Start(n + 1)
    BY StartNext
  <2>2. /\ Extent(stream[n]) \in Nat \ {0}
        /\ stream[n].size \in Nat \ {0}
        /\ stream[n].kind # "junk"
             => Extent(stream[n]) = Header + stream[n].size
    BY <2>1, UnitExtents
  <2> QED
    BY <2>1, <2>2 DEF End, Header
<1> DEFINE Above(n) == \A m \in 1 .. Len(stream) + 1 :
                         m < n /\ n <= Len(stream) + 1 => Start(m) < Start(n)
           T == {n \in Nat : Above(n)}
<1>2. 0 \in T
  OBVIOUS
<1>3. ASSUME NEW n \in T
      PROVE  n + 1 \in T
  <2>1. n \in Nat /\ Above(n)
    OBVIOUS
  <2>2. ASSUME NEW m \in 1 .. Len(stream) + 1, m < n + 1,
               n + 1 <= Len(stream) + 1
        PROVE  Start(m) < Start(n + 1)
    <3>1. n \in 1 .. Len(stream) /\ Start(n) < Start(n + 1)
      BY <1>1, <2>1, <2>2
    <3>2. m = n \/ Start(m) < Start(n)
      BY <2>1, <2>2
    <3>3. Start(m) \in Nat /\ Start(n) \in Nat /\ Start(n + 1) \in Nat
      BY <2>1, <2>2, <3>1, StartNext
    <3> QED
      BY <3>1, <3>2, <3>3
  <2> QED
    BY <2>1, <2>2
<1>4. T = Nat
  <2>1. T \in SUBSET Nat
    OBVIOUS
  <2> HIDE DEF T
  <2> QED
    BY <1>2, <1>3, <2>1, NatSetInduction
<1>5. ASSUME NEW m \in 1 .. Len(stream) + 1, NEW n \in 1 .. Len(stream) + 1,
             m < n
      PROVE  Start(m) < Start(n)
  <2>1. n \in T
    BY <1>4
  <2> QED
    BY <1>5, <2>1
<1> QED
  BY <1>1, <1>5, StartNext

(* What is read at the start of a frame.                                   *)
LEMMA FrameHere ==
  ASSUME stream \in Seq(Units), "double" \notin Kinds,
         NEW n \in DOMAIN stream,
         stream[n].kind # "junk"
  PROVE  /\ FrameAt(Start(n)) = {n}
         /\ \A g : LengthAt(Start(n), g) = stream[n].size
         /\ Messages(Start(n)) =
              IF stream[n].kind = "good" THEN <<n>> ELSE <<>>
<1>1. FrameAt(Start(n)) = {n}
  <2>1. ASSUME NEW k \in DOMAIN stream, Start(k) = Start(n)
        PROVE  k = n
    <3>1. k \in 1 .. Len(stream) + 1 /\ n \in 1 .. Len(stream) + 1
      OBVIOUS
    <3>2. Start(k) \in Nat /\ (k < n => Start(k) < Start(n))
          /\ (n < k => Start(n) < Start(k))
      BY <3>1, Layout
    <3> QED
      BY <2>1, <3>1, <3>2
  <2> QED
    BY <2>1 DEF FrameAt
<1>2. Max({n}) = n
  BY DEF Max
<1>3. stream[n].kind # "double" /\ stream[n].kind \in {"good", "bad"}
  BY DEF Kinds, Units
<1>4. CASE stream[n].kind = "good"
  <2>1. [i \in 1 .. 1 |-> n] = <<n>>
    OBVIOUS
  <2>2. Objects[stream[n].kind] = 1
    BY <1>4 DEF Objects
  <2> QED
    BY <1>1, <1>2, <1>4, <2>1, <2>2 DEF Messages, LengthAt
<1>5. CASE stream[n].kind = "bad"
  <2>1. [i \in 1 .. 0 |-> n] = <<>>
    OBVIOUS
  <2>2. Objects[stream[n].kind] = 0
    BY <1>5 DEF Objects
  <2> QED
    BY <1>1, <1>2, <1>5, <2>1, <2>2 DEF Messages, LengthAt
<1> QED
  BY <1>3, <1>4, <1>5

(* decode_frames at a position, given what it makes of later ones.         *)
FramesAt(f, p, b) ==
  IF b - p < Header THEN <<>>
  ELSE IF FrameAt(p) = {} THEN f[p + 1]
  ELSE IF Header + LengthAt(p, 0) > b - p THEN <<>>
  ELSE Messages(p) \o f[p + Header + LengthAt(p, 0)]

IsFrames(f, a, b) == f = [p \in a .. b |-> FramesAt(f, p, b)]

FramesOf(a, b) == CHOOSE f : IsFrames(f, a, b)

(* DecodeFrames is the solution of that recursion,                         *)
LEMMA DecodeFramesIs == \A a, b : DecodeFrames(a, b) = FramesOf(a, b)[a]
  BY DEF DecodeFrames, FramesOf, IsFrames, FramesAt

(* Where a frame is found, it is one of the stream's.                      *)
LEMMA FrameSome ==
  ASSUME stream \in Seq(Units), "double" \notin Kinds,
         NEW p, FrameAt(p) # {}
  PROVE  \E n \in DOMAIN stream :
           /\ Start(n) = p
           /\ stream[n].kind # "junk"
           /\ FrameAt(p) = {n}
           /\ \A g : LengthAt(p, g) = stream[n].size
           /\ Messages(p) = IF stream[n].kind = "good" THEN <<n>> ELSE <<>>
<1>1. PICK n \in DOMAIN stream : Start(n) = p /\ stream[n].kind # "junk"
  BY DEF FrameAt
<1> QED
  BY <1>1, FrameHere

(* which has one.                                                          *)
LEMMA FramesExist ==
  ASSUME stream \in Seq(Units), "double" \notin Kinds,
         NEW a \in Nat, NEW b \in Nat, a <= b
  PROVE  FramesOf(a, b) = [p \in a .. b |-> FramesAt(FramesOf(a, b), p, b)]
<1> DEFINE X == a .. b
           V == Seq(Nat)
           m == [p \in X |-> b - p]
           stop == {p \in X : \/ b - p < Header
                              \/ /\ FrameAt(p) # {}
                                 /\ Header + LengthAt(p, 0) > b - p}
           base == [p \in X |-> <<>>]
           next == [p \in X \ stop |->
                      IF FrameAt(p) = {} THEN p + 1
                      ELSE p + Header + LengthAt(p, 0)]
           step == [x \in (X \ stop) \X V |->
                      IF FrameAt(x[1]) = {} THEN x[2]
                      ELSE Messages(x[1]) \o x[2]]
<1>1. m \in [X -> Nat] /\ \A p \in X : m[p] <= b
  OBVIOUS
<1>2. stop \in SUBSET X /\ base \in [X -> V] /\ b \in Nat
  OBVIOUS
<1>3. ASSUME NEW p \in X \ stop
      PROVE  /\ next[p] \in X /\ m[next[p]] < m[p]
             /\ \A v \in V : step[<<p, v>>] \in V
  <2>1. CASE FrameAt(p) = {}
    <3>1. next[p] = p + 1 /\ p + 1 \in X /\ p \in X
      BY <2>1 DEF Header
    <3>2. \A v \in V : step[<<p, v>>] = v
      BY <2>1
    <3>3. b - (p + 1) < b - p
      BY <3>1
    <3> QED
      BY <3>1, <3>2, <3>3
  <2>2. CASE FrameAt(p) # {}
    <3>1. PICK n \in DOMAIN stream :
            /\ \A g : LengthAt(p, g) = stream[n].size
            /\ Messages(p) = IF stream[n].kind = "good" THEN <<n>> ELSE <<>>
      BY <2>2, FrameSome
    <3>2. LengthAt(p, 0) \in Nat \ {0} /\ Messages(p) \in V
      <4>1. n \in 1 .. Len(stream) /\ n \in Nat
        OBVIOUS
      <4> QED
        BY <3>1, <4>1, Layout
    <3>3. /\ next[p] = p + Header + LengthAt(p, 0)
          /\ p + Header + LengthAt(p, 0) \in X /\ p \in X
          /\ p < p + Header + LengthAt(p, 0)
      BY <2>2, <3>2 DEF Header
    <3>4. \A v \in V : step[<<p, v>>] = Messages(p) \o v
      BY <2>2
    <3> HIDE DEF next, step
    <3>5. next[p] \in X /\ m[next[p]] < m[p]
      BY <3>2, <3>3
    <3>6. \A v \in V : step[<<p, v>>] \in V
      <4>1. \A v \in V : Messages(p) \o v \in V
        BY <3>2
      <4> HIDE DEF V
      <4> QED
        BY <3>4, <4>1
    <3> QED
      BY <3>5, <3>6
  <2> QED
    BY <2>1, <2>2
<1>4. next \in [X \ stop -> X] /\ step \in [(X \ stop) \X V -> V]
  <2> HIDE DEF X, V, m, stop
  <2>1. \A p \in X \ stop : (IF FrameAt(p) = {} THEN p + 1
                             ELSE p + Header + LengthAt(p, 0)) \in X
    BY <1>3
  <2>2. \A p \in X \ stop, v \in V :
           (IF FrameAt(p) = {} THEN v ELSE Messages(p) \o v) \in V
    BY <1>3
  <2> QED
    BY <2>1, <2>2
<1>5. \E f \in [X -> V] : \A p \in X : f[p] = IF p \in stop THEN base[p]
                                             ELSE step[<<p, f[next[p]]>>]
  <2>1. \A p \in X \ stop : m[next[p]] < m[p]
    BY <1>3
  <2> HIDE DEF X, V, m, stop, base, next, step
  <2>2. Recursion(X, V, m, b, stop, base, next, step)
    BY <1>1, <1>2, <1>4, <2>1 DEF Recursion
  <2>3. \E f \in [X -> V] : Recursive(f, X, stop, base, next, step)
    BY <2>2, RecursionExists
  <2> QED
    BY <2>3 DEF Recursive
<1>6. PICK f \in [X -> V] : \A p \in X : f[p] = IF p \in stop THEN base[p]
                                               ELSE step[<<p, f[next[p]]>>]
  BY <1>5
<1>7. ASSUME NEW p \in X
      PROVE  f[p] = FramesAt(f, p, b)
  <2>1. CASE p \in stop
    <3>1. f[p] = <<>>
      BY <1>6, <2>1
    <3> QED
      BY <2>1, <3>1 DEF FramesAt
  <2>2. CASE p \notin stop
    <3>1. f[p] = step[<<p, f[next[p]]>>] /\ f[next[p]] \in V
      BY <1>3, <1>6, <2>2
    <3>2. step[<<p, f[next[p]]>>] =
             IF FrameAt(p) = {} THEN f[next[p]]
             ELSE Messages(p) \o f[next[p]]
      <4> HIDE DEF X, V, stop, next
      <4> QED
        BY <2>2, <3>1
    <3>3. next[p] = IF FrameAt(p) = {} THEN p + 1
                    ELSE p + Header + LengthAt(p, 0)
      BY <2>2
    <3>4. ~ (b - p < Header)
          /\ (FrameAt(p) # {} => ~ (Header + LengthAt(p, 0) > b - p))
      BY <2>2
    <3> HIDE DEF X, V, stop, next, step
    <3> QED
      BY <3>1, <3>2, <3>3, <3>4 DEF FramesAt
  <2> QED
    BY <2>1, <2>2
<1>8. \E k : IsFrames(k, a, b)
  <2>1. f = [p \in X |-> f[p]]
    BY <1>6
  <2>2. f = [p \in a .. b |-> FramesAt(f, p, b)]
    BY <1>7, <2>1
  <2> QED
    BY <2>2 DEF IsFrames
<1> QED
  BY <1>8 DEF FramesOf, IsFrames

(* HandledInOrder, of any sequence.                                        *)
Increasing(q) == \A i, j \in DOMAIN q : i < j => q[i] < q[j]

(* The messages of the units from m on that end by b.                      *)
GoodFrom(m, b) ==
  {n \in m .. Len(stream) : stream[n].kind = "good" /\ End(n) <= b}

(* q is what should be decoded from the start of unit m up to b: those     *)
(* messages, in order. Without frames that hold no message, what follows   *)
(* the last of them is cut off at b.                                       *)
Batch(q, m, b) ==
  /\ q \in Seq(1 .. Len(stream))
  /\ Range(q) = GoodFrom(m, b)
  /\ Increasing(q)
  /\ \A i \in DOMAIN q : q[i] >= m + i - 1
  /\ "bad" \notin Kinds =>
       m + Len(q) = Len(stream) + 1 \/ End(m + Len(q)) > b

(* Nothing is to be decoded of a unit that is cut off.                     *)
LEMMA BatchEmpty ==
  ASSUME stream \in Seq(Units), "double" \notin Kinds,
         NEW m \in 1 .. Len(stream) + 1, NEW b \in Nat,
         m = Len(stream) + 1 \/ End(m) > b
  PROVE  Batch(<<>>, m, b)
<1>1. ASSUME NEW n \in m .. Len(stream)
      PROVE  End(n) > b
  <2>1. m \in 1 .. Len(stream) /\ End(m) > b /\ n \in 1 .. Len(stream)
    OBVIOUS
  <2>2. /\ End(m) = Start(m + 1) /\ End(n) = Start(n + 1)
        /\ Start(m + 1) \in Nat /\ Start(n + 1) \in Nat
        /\ m + 1 < n + 1 => Start(m + 1) < Start(n + 1)
    BY <2>1, Layout
  <2>3. m = n \/ m + 1 < n + 1
    BY <2>1
  <2> QED
    BY <2>1, <2>2, <2>3
<1>2. \A n \in m .. Len(stream) : End(n) \in Nat
  BY Layout
<1>3. GoodFrom(m, b) = {}
  BY <1>1, <1>2 DEF GoodFrom
<1>4. Range(<<>>) = {}
  BY DEF Range
<1> QED
  BY <1>3, <1>4 DEF Batch, Increasing

(* A frame without a message adds nothing,                                 *)
LEMMA BatchSkip ==
  ASSUME stream \in Seq(Units), "double" \notin Kinds,
         NEW m \in 1 .. Len(stream), NEW b \in Nat,
         stream[m].kind = "bad", NEW q, Batch(q, m + 1, b)
  PROVE  Batch(q, m, b)
<1>1. "bad" \in Kinds
  BY DEF Kinds
<1>2. GoodFrom(m, b) = GoodFrom(m + 1, b)
  BY DEF GoodFrom
<1>3. \A i \in DOMAIN q : q[i] >= m + i - 1
  BY DEF Batch
<1> QED
  BY <1>1, <1>2, <1>3 DEF Batch

(* one with a message adds it in front.                                    *)
LEMMA BatchCons ==
  ASSUME stream \in Seq(Units), "double" \notin Kinds,
         NEW m \in 1 .. Len(stream), NEW b \in Nat,
         stream[m].kind = "good", End(m) <= b, NEW q, Batch(q, m + 1, b)
  PROVE  Batch(<<m>> \o q, m, b)
<1> DEFINE r == <<m>> \o q
<1>1. /\ r \in Seq(1 .. Len(stream))
      /\ Len(r) = Len(q) + 1
      /\ r[1] = m
      /\ \A i \in 1 .. Len(q) : r[i + 1] = q[i]
      /\ Len(q) \in Nat
      /\ DOMAIN r = 1 .. Len(q) + 1
      /\ DOMAIN q = 1 .. Len(q)
  BY DEF Batch
<1> HIDE DEF r
<1>2. \A i \in 2 .. Len(q) + 1 : i - 1 \in 1 .. Len(q) /\ r[i] = q[i - 1]
  BY <1>1
<1>3. \A i \in 1 .. Len(q) : q[i] \in Nat /\ q[i] >= m + 1 + i - 1
  <2>1. /\ q \in Seq(1 .. Len(stream))
        /\ \A i \in DOMAIN q : q[i] >= m + 1 + i - 1
    BY DEF Batch
  <2> TAKE i \in 1 .. Len(q)
  <2>2. i \in DOMAIN q
    BY <1>1
  <2>3. q[i] \in 1 .. Len(stream) /\ q[i] >= m + 1 + i - 1
    BY <2>1, <2>2
  <2> QED
    BY <2>3
<1>4. Range(r) = {m} \union Range(q)
  <2>1. ASSUME NEW i \in DOMAIN r
        PROVE  r[i] \in {m} \union Range(q)
    <3>1. i = 1 \/ i \in 2 .. Len(q) + 1
      BY <1>1
    <3> QED
      BY <1>1, <1>2, <3>1 DEF Range
  <2>2. ASSUME NEW i \in DOMAIN q
        PROVE  q[i] \in Range(r)
    <3>1. i + 1 \in DOMAIN r /\ r[i + 1] = q[i]
      BY <1>1
    <3> QED
      BY <3>1 DEF Range
  <2>3. m \in Range(r)
    <3>1. 1 \in DOMAIN r
      BY <1>1
    <3> QED
      BY <1>1, <3>1 DEF Range
  <2> QED
    BY <2>1, <2>2, <2>3 DEF Range
<1>5. GoodFrom(m, b) = {m} \union GoodFrom(m + 1, b)
  BY DEF GoodFrom
<1>6. Increasing(r)
  <2> SUFFICES ASSUME NEW i \in DOMAIN r, NEW j \in DOMAIN r, i < j
               PROVE  r[i] < r[j]
    BY DEF Increasing
  <2>1. j - 1 \in 1 .. Len(q) /\ r[j] = q[j - 1] /\ q[j - 1] > m
    BY <1>1, <1>2, <1>3
  <2>2. CASE i = 1
    BY <1>1, <2>1, <2>2
  <2>3. CASE i # 1
    <3>1. i \in 2 .. Len(q) + 1
      BY <1>1, <2>3
    <3>2. i - 1 \in 1 .. Len(q) /\ r[i] = q[i - 1]
      BY <1>2, <3>1
    <3>3. i - 1 < j - 1
      BY <1>1
    <3>4. q[i - 1] < q[j - 1]
      BY <1>1, <2>1, <3>2, <3>3 DEF Batch, Increasing
    <3> QED
      BY <2>1, <3>2, <3>4
  <2> QED
    BY <2>2, <2>3
<1>7. \A i \in DOMAIN r : r[i] >= m + i - 1
  <2> TAKE i \in DOMAIN r
  <2>1. i = 1 \/ i \in 2 .. Len(q) + 1
    BY <1>1
  <2> QED
    BY <1>1, <1>2, <1>3, <2>1
<1>8. m + Len(r) = m + 1 + Len(q)
  BY <1>1
<1> QED
  BY <1>1, <1>4, <1>5, <1>6, <1>7, <1>8 DEF Batch, r

(* Either way, a whole frame adds Messages.                                *)
LEMMA BatchNext ==
  ASSUME stream \in Seq(Units), "double" \notin Kinds,
         NEW m \in 1 .. Len(stream), NEW b \in Nat,
         stream[m].kind # "junk", End(m) <= b, NEW q, Batch(q, m + 1, b)
  PROVE  Batch(Messages(Start(m)) \o q, m, b)
<1>1. Messages(Start(m)) = IF stream[m].kind = "good" THEN <<m>> ELSE <<>>
  BY FrameHere
<1>2. stream[m].kind = "good" \/ stream[m].kind = "bad"
  <2>1. stream[m].kind \in {"good", "double", "bad", "junk"}
    <3>1. stream[m] \in Units
      OBVIOUS
    <3> QED
      BY <3>1 DEF Units
  <2>2. stream[m].kind # "double"
    BY DEF Kinds
  <2> QED
    BY <2>1, <2>2
<1>3. <<>> \o q = q
  BY DEF Batch
<1> QED
  BY <1>1, <1>2, <1>3, BatchSkip, BatchCons

(* Without junk every unit is a frame.                                     *)
LEMMA NoJunk ==
  ASSUME "junk" \notin Kinds, NEW n \in DOMAIN stream
  PROVE  stream[n].kind # "junk"
  BY DEF Kinds

(* Every unit starts within the stream, and none behind its end.           *)
LEMMA Boundaries ==
  ASSUME stream \in Seq(Units), "double" \notin Kinds,
         NEW b \in Nat, b <= StreamEnd
  PROVE  /\ \A n \in 1 .. Len(stream) + 1 : Start(n) <= StreamEnd
         /\ Start(Len(stream) + 1) <= b => b = Start(Len(stream) + 1)
<1>1. ASSUME NEW n \in 1 .. Len(stream) + 1
      PROVE  Start(n) <= StreamEnd
  <2>1. Len(stream) + 1 \in 1 .. Len(stream) + 1 /\ Start(n) \in Nat
    BY Layout
  <2>2. n = Len(stream) + 1 \/ n < Len(stream) + 1
    OBVIOUS
  <2>3. n < Len(stream) + 1 => Start(n) < Start(Len(stream) + 1)
    BY <2>1, Layout
  <2>4. Start(Len(stream) + 1) \in Nat
    BY <2>1, Layout
  <2> QED
    BY <2>1, <2>2, <2>3, <2>4 DEF StreamEnd
<1>2. StreamEnd \in Nat
  <2>1. Len(stream) + 1 \in 1 .. Len(stream) + 1
    OBVIOUS
  <2> QED
    BY <2>1, Layout DEF StreamEnd
<1> QED
  BY <1>1, <1>2 DEF StreamEnd

(* decode_frames makes of a buffer that starts at a frame all the messages *)
(* in it, by induction from the end of the stream.                         *)
LEMMA FramesBatch ==
  ASSUME stream \in Seq(Units), "double" \notin Kinds,
         "junk" \notin Kinds,
         NEW m \in 1 .. Len(stream) + 1, NEW b \in Nat,
         Start(m) <= b, b <= StreamEnd
  PROVE  Batch(DecodeFrames(Start(m), b), m, b)
<1> DEFINE N == Len(stream)
           f == FramesOf(Start(m), b)
           T == {k \in 1 .. N + 1 : m <= k /\ Start(k) <= b
                                      => Batch(f[Start(k)], k, b)}
<1>1. \A k \in 1 .. N + 1 : Start(k) \in Nat
  BY Layout
<1>2. \A p \in Start(m) .. b : f[p] = FramesAt(f, p, b)
  BY <1>1, FramesExist
<1> HIDE DEF f
<1>3. ASSUME NEW k \in 1 .. N + 1, m <= k, Start(k) <= b
      PROVE  f[Start(k)] = FramesAt(f, Start(k), b)
  <2>1. Start(m) <= Start(k)
    BY <1>1, <1>3, Layout
  <2> QED
    BY <1>1, <1>2, <1>3, <2>1
<1>4. N + 1 \in T
  <2> SUFFICES ASSUME Start(N + 1) <= b
               PROVE  Batch(f[Start(N + 1)], N + 1, b)
    OBVIOUS
  <2>1. b = Start(N + 1)
    BY Boundaries
  <2>2. N + 1 \in 1 .. N + 1 /\ m <= N + 1 /\ b - b < Header
    BY DEF Header
  <2>3. f[Start(N + 1)] = <<>>
    BY <1>3, <2>1, <2>2 DEF FramesAt
  <2> QED
    BY <2>2, <2>3, BatchEmpty
<1>5. ASSUME NEW k \in 1 .. N, k + 1 \in T
      PROVE  k \in T
  <2> SUFFICES ASSUME m <= k, Start(k) <= b
               PROVE  Batch(f[Start(k)], k, b)
    OBVIOUS
  <2>1. /\ FrameAt(Start(k)) = {k}
        /\ LengthAt(Start(k), 0) = stream[k].size
    BY FrameHere, NoJunk
  <2>2. /\ End(k) = Start(k + 1)
        /\ End(k) = Start(k) + Header + stream[k].size
        /\ stream[k].size \in Nat
        /\ Start(k) \in Nat
        /\ k \in 1 .. N + 1
    BY Layout, NoJunk
  <2>3. f[Start(k)] = IF End(k) > b THEN <<>>
                      ELSE Messages(Start(k)) \o f[Start(k + 1)]
    <3>1. f[Start(k)] = FramesAt(f, Start(k), b)
      BY <1>3, <2>2
    <3>2. b - Start(k) < Header => End(k) > b
      BY <2>2 DEF Header
    <3>3. Header + stream[k].size > b - Start(k) <=> End(k) > b
      BY <2>2 DEF Header
    <3> QED
      BY <2>1, <2>2, <3>1, <3>2, <3>3 DEF FramesAt
  <2>4. CASE End(k) > b
    BY <2>2, <2>3, <2>4, BatchEmpty
  <2>5. CASE ~ (End(k) > b)
    <3>1. End(k) <= b /\ m <= k + 1 /\ k + 1 \in 1 .. N + 1
      BY <1>1, <2>2, <2>5
    <3>2. Batch(f[Start(k + 1)], k + 1, b)
      BY <2>2, <3>1, <1>5
    <3> QED
      BY <2>3, <2>5, <3>1, <3>2, BatchNext, NoJunk
  <2> QED
    BY <2>4, <2>5
<1>6. T = 1 .. N + 1
  <2> DEFINE K == N + 1
  <2>1. N \in Nat /\ K \in 1 .. N + 1 /\ K - 1 = N
    OBVIOUS
  <2>2. T \in SUBSET (1 .. K) /\ K \in T
    BY <1>4
  <2> HIDE DEF T
  <2>3. \A n \in 1 .. K - 1 : n + 1 \in T => n \in T
    BY <1>5, <2>1
  <2> HIDE DEF N, K
  <2>4. T = 1 .. K
    BY <2>1, <2>2, <2>3, DownwardInduction
  <2> QED
    BY <2>4 DEF K
<1>7. Batch(f[Start(m)], m, b)
  <2>1. m \in T
    BY <1>6
  <2> QED
    BY <2>1
<1> QED
  BY <1>7, DecodeFramesIs DEF f

(* The smaller of two numbers.                                             *)
LEMMA MinPair ==
  ASSUME NEW x \in Int, NEW y \in Int
  PROVE  Min({x, y}) = IF x <= y THEN x ELSE y
<1> DEFINE z == IF x <= y THEN x ELSE y
<1>1. z \in {x, y} /\ \A w \in {x, y} : z <= w
  OBVIOUS
<1>2. \A v \in {x, y} : (\A w \in {x, y} : v <= w) => v = z
  OBVIOUS
<1> HIDE DEF z
<1>3. Min({x, y}) = z
  BY <1>1, <1>2 DEF Min
<1> QED
  BY <1>3 DEF z

(* The first of them, when it is.                                          *)
LEMMA MinFirst ==
  ASSUME NEW x \in Nat, NEW y \in Nat, x <= y
  PROVE  Min({x, y}) = x
  BY MinPair

(* A length that is read is a number.                                      *)
LEMMA LengthIsNat ==
  ASSUME stream \in Seq(Units), "double" \notin Kinds,
         NEW p, NEW g \in Nat
  PROVE  LengthAt(p, g) \in Nat
<1>1. CASE FrameAt(p) = {}
  BY <1>1 DEF LengthAt
<1>2. CASE FrameAt(p) # {}
  <2>1. PICK n \in DOMAIN stream : \A h : LengthAt(p, h) = stream[n].size
    BY <1>2, FrameSome
  <2>2. n \in 1 .. Len(stream)
    OBVIOUS
  <2> QED
    BY <2>1, <2>2, Layout
<1> QED
  BY <1>1, <1>2

(* One step of _remaining_buf.                                             *)
Skip(p, b) ==
  IF b - p < Header THEN p ELSE Min({p + Header + LengthAt(p, StreamEnd), b})

IsRest(f, a, b, k) ==
  f = [i \in 0 .. k |-> IF i = 0 THEN a ELSE Skip(f[i - 1], b)]

RestOf(a, b, k) == CHOOSE f : IsRest(f, a, b, k)

(* Remaining is the solution of the recursion over its steps,              *)
LEMMA RemainingIs == \A a, b, k : Remaining(a, b, k) = RestOf(a, b, k)[k]
  BY DEF Remaining, RestOf, IsRest, Skip

(* which has one.                                                          *)
LEMMA RestExists ==
  ASSUME stream \in Seq(Units), "double" \notin Kinds,
         NEW a \in Nat, NEW b \in Nat, NEW k \in Nat
  PROVE  IsRest(RestOf(a, b, k), a, b, k)
<1> DEFINE X == 0 .. k
           m == [i \in X |-> i]
           stop == {0}
           base == [i \in X |-> a]
           next == [i \in X \ stop |-> i - 1]
           step == [x \in (X \ stop) \X Nat |-> Skip(x[2], b)]
<1>1. ASSUME NEW p \in Nat
      PROVE  Skip(p, b) \in Nat
  <2>1. StreamEnd \in Nat
    <3>1. Len(stream) + 1 \in 1 .. Len(stream) + 1
      OBVIOUS
    <3> QED
      BY <3>1, Layout DEF StreamEnd
  <2>2. LengthAt(p, StreamEnd) \in Nat
    BY <2>1, LengthIsNat
  <2>3. p + Header + LengthAt(p, StreamEnd) \in Nat
    BY <2>2 DEF Header
  <2>4. Min({p + Header + LengthAt(p, StreamEnd), b}) \in Nat
    BY <2>3, MinPair
  <2> QED
    BY <2>4 DEF Skip
<1>2. step \in [(X \ stop) \X Nat -> Nat]
  BY <1>1
<1>3. Recursion(X, Nat, m, k, stop, base, next, step)
  BY <1>2 DEF Recursion
<1>4. PICK f \in [X -> Nat] : Recursive(f, X, stop, base, next, step)
  <2> HIDE DEF X, m, stop, base, next, step
  <2> QED
    BY <1>3, RecursionExists
<1>5. ASSUME NEW i \in X
      PROVE  f[i] = IF i = 0 THEN a ELSE Skip(f[i - 1], b)
  <2>1. CASE i = 0
    BY <1>4, <2>1 DEF Recursive
  <2>2. CASE i # 0
    <3>1. i \in X \ stop /\ next[i] = i - 1 /\ i - 1 \in X
      BY <2>2
    <3>2. step[<<i, f[i - 1]>>] = Skip(f[i - 1], b)
      BY <3>1
    <3>3. f[i] = step[<<i, f[next[i]]>>]
      BY <1>4, <3>1 DEF Recursive
    <3> HIDE DEF X, stop, next, step
    <3> QED
      BY <2>2, <3>1, <3>2, <3>3
  <2> QED
    BY <2>1, <2>2
<1>6. \E g : IsRest(g, a, b, k)
  <2>1. f = [i \in X |-> f[i]]
    BY <1>4
  <2>2. f = [i \in 0 .. k |-> IF i = 0 THEN a ELSE Skip(f[i - 1], b)]
    BY <1>5, <2>1
  <2> QED
    BY <2>2 DEF IsRest
<1> QED
  BY <1>6 DEF RestOf

(* _remaining_buf skips k whole frames.                                    *)
LEMMA RemainingSkips ==
  ASSUME stream \in Seq(Units), "double" \notin Kinds,
         "junk" \notin Kinds,
         NEW m \in 1 .. Len(stream) + 1, NEW k \in Nat, NEW b \in Nat,
         m + k <= Len(stream) + 1, Start(m + k) <= b
  PROVE  Remaining(Start(m), b, k) = Start(m + k)
<1> DEFINE f == RestOf(Start(m), b, k)
           T == {i \in Nat : i <= k => f[i] = Start(m + i)}
<1>1. Start(m) \in Nat
  BY Layout
<1>2. f = [i \in 0 .. k |-> IF i = 0 THEN Start(m) ELSE Skip(f[i - 1], b)]
  BY <1>1, RestExists DEF IsRest
<1> HIDE DEF f
<1>3. 0 \in T
  BY <1>2
<1>4. ASSUME NEW i \in T
      PROVE  i + 1 \in T
  <2> SUFFICES ASSUME i + 1 <= k
               PROVE  f[i + 1] = Start(m + i + 1)
    OBVIOUS
  <2> DEFINE n == m + i
  <2>1. /\ f[i] = Start(n) /\ n \in 1 .. Len(stream)
        /\ n + 1 <= m + k /\ i \in Nat /\ n + 1 \in 1 .. Len(stream) + 1
        /\ m + k \in 1 .. Len(stream) + 1
    OBVIOUS
  <2> HIDE DEF n
  <2>2. f[i + 1] = Skip(Start(n), b)
    <3>1. i + 1 \in 0 .. k /\ i + 1 # 0 /\ i + 1 - 1 = i
      BY <2>1
    <3> QED
      BY <1>2, <2>1, <3>1
  <2>3. /\ End(n) = Start(n + 1)
        /\ End(n) = Start(n) + Header + stream[n].size
        /\ stream[n].size \in Nat /\ Start(n) \in Nat
        /\ LengthAt(Start(n), StreamEnd) = stream[n].size
    BY <2>1, Layout, FrameHere, NoJunk
  <2>4. Start(n + 1) <= b
    <3>1. n + 1 = m + k \/ n + 1 < m + k
      BY <2>1
    <3>2. n + 1 < m + k => Start(n + 1) < Start(m + k)
      BY <2>1, Layout
    <3>3. Start(n + 1) \in Nat /\ Start(m + k) \in Nat
      BY <2>1, Layout
    <3> QED
      BY <3>1, <3>2, <3>3
  <2>5. Skip(Start(n), b) = Start(n + 1)
    <3>1. Min({Start(n + 1), b}) = Start(n + 1)
      <4>1. Start(n + 1) \in Nat
        BY <2>3 DEF Header
      <4> QED
        BY <2>4, <4>1, MinFirst
    <3>2. ~ (b - Start(n) < Header)
      BY <2>3, <2>4 DEF Header
    <3> QED
      BY <2>3, <3>1, <3>2 DEF Skip
  <2> QED
    BY <2>2, <2>5 DEF n
<1>5. T = Nat
  <2>1. T \in SUBSET Nat
    OBVIOUS
  <2> HIDE DEF T
  <2> QED
    BY <1>3, <1>4, <2>1, NatSetInduction
<1>6. f[k] = Start(m + k)
  <2>1. k \in T
    BY <1>5
  <2> QED
    BY <2>1
<1> QED
  BY <1>6, RemainingIs DEF f

(* decode_messages stops at a position.                                    *)
Ends(p, b, g) == b - p <= Header \/ LengthAt(p, g) + 8 > b - p

(* Where it goes on.                                                       *)
Behind(p, b, g) == Min({p + Header + LengthAt(p, g), b})

(* decode_messages at a position, given what it makes of later ones.       *)
ObjectsAt(f, p, b, g) ==
  IF Ends(p, b, g) THEN <<>>
  ELSE Payload(p, LengthAt(p, g), b) \o f[Behind(p, b, g)]

IsObjects(f, a, b, g) == f = [p \in a .. b |-> ObjectsAt(f, p, b, g)]

ObjectsOf(a, b, g) == CHOOSE f : IsObjects(f, a, b, g)

(* DecodeMessages is the solution of that recursion.                       *)
LEMMA DecodeMessagesIs ==
  \A a, b, g : DecodeMessages(a, b, g) = ObjectsOf(a, b, g)[a]
  BY DEF DecodeMessages, ObjectsOf, IsObjects, ObjectsAt, Ends, Behind

(* It goes on further behind, and within the read.                         *)
LEMMA BehindIsAhead ==
  ASSUME stream \in Seq(Units), "double" \notin Kinds,
         NEW p \in Nat, NEW b \in Nat, NEW g \in Nat,
         ~ Ends(p, b, g)
  PROVE  /\ Behind(p, b, g) \in p + 1 .. b
         /\ LengthAt(p, g) \in Nat
         /\ p + Header + LengthAt(p, g) <= b
              => Behind(p, b, g) = p + Header + LengthAt(p, g)
<1>1. LengthAt(p, g) \in Nat
  BY LengthIsNat
<1>2. Behind(p, b, g) = IF p + Header + LengthAt(p, g) <= b
                        THEN p + Header + LengthAt(p, g) ELSE b
  BY <1>1, MinPair DEF Behind, Header
<1>3. p + Header < b
  BY DEF Ends, Header
<1> QED
  BY <1>1, <1>2, <1>3 DEF Header

(* The empty sequence and those of one element.                            *)
LEMMA ShortSequences ==
  ASSUME NEW S
  PROVE  <<>> \in Seq(S) /\ \A x \in S : <<x>> \in Seq(S)
  OBVIOUS

(* The unpacker makes messages of the stream's units, and objects that are *)
(* none.                                                                   *)
LEMMA PayloadType ==
  ASSUME stream \in Seq(Units), "double" \notin Kinds,
         NEW p \in Nat, NEW l \in Nat, NEW b \in Nat
  PROVE  Payload(p, l, b) \in Seq(0 .. Len(stream))
<1>1. CASE FrameAt(p) = {}
  <2>1. NoMessage \in 0 .. Len(stream)
    BY DEF NoMessage
  <2>2. Payload(p, l, b) = IF l > 0 THEN <<NoMessage>> ELSE <<>>
    BY <1>1 DEF Payload
  <2> HIDE DEF NoMessage
  <2> QED
    BY <2>1, <2>2, ShortSequences
<1>2. CASE FrameAt(p) # {}
  <2>1. PICK n \in DOMAIN stream :
          Messages(p) = IF stream[n].kind = "good" THEN <<n>> ELSE <<>>
    BY <1>2, FrameSome
  <2>2. n \in 0 .. Len(stream)
    OBVIOUS
  <2>3. Messages(p) \in Seq(0 .. Len(stream))
    BY <2>1, <2>2, ShortSequences
  <2>4. Payload(p, l, b) = <<>> \/ Payload(p, l, b) = Messages(p)
    BY <1>2 DEF Payload
  <2> QED
    BY <2>3, <2>4, ShortSequences
<1> QED
  BY <1>1, <1>2

(* The recursion has a solution, and it has the type of what is decoded.   *)
LEMMA ObjectsExist ==
  ASSUME stream \in Seq(Units), "double" \notin Kinds,
         NEW a \in Nat, NEW b \in Nat, NEW g \in Nat
  PROVE  /\ ObjectsOf(a, b, g) \in [a .. b -> Seq(0 .. Len(stream))]
         /\ \A p \in a .. b : ObjectsOf(a, b, g)[p]
                               = ObjectsAt(ObjectsOf(a, b, g), p, b, g)
<1> DEFINE X == a .. b
           V == Seq(0 .. Len(stream))
           m == [p \in X |-> b - p]
           stop == {p \in X : Ends(p, b, g)}
           base == [p \in X |-> <<>>]
           next == [p \in X \ stop |-> Behind(p, b, g)]
           step == [x \in (X \ stop) \X V |->
                      Payload(x[1], LengthAt(x[1], g), b) \o x[2]]
<1>1. ASSUME NEW p \in X \ stop
      PROVE  Behind(p, b, g) \in X /\ b - Behind(p, b, g) < b - p
  <2>1. p \in Nat /\ ~ Ends(p, b, g) /\ p \in a .. b
    OBVIOUS
  <2>2. Behind(p, b, g) \in p + 1 .. b
    BY <2>1, BehindIsAhead
  <2> QED
    BY <2>1, <2>2
<1>2. ASSUME NEW p \in X \ stop, NEW v \in V
      PROVE  Payload(p, LengthAt(p, g), b) \o v \in V
  <2>1. p \in Nat /\ ~ Ends(p, b, g)
    OBVIOUS
  <2>2. Payload(p, LengthAt(p, g), b) \in V
    BY <2>1, BehindIsAhead, PayloadType
  <2> QED
    BY <2>2
<1>3. next \in [X \ stop -> X]
  BY <1>1
<1>4. step \in [(X \ stop) \X V -> V]
  <2> HIDE DEF X, V, stop
  <2> QED
    BY <1>2
<1>5. Recursion(X, V, m, b, stop, base, next, step)
  <2>1. /\ m \in [X -> Nat] /\ b \in Nat /\ stop \in SUBSET X
        /\ base \in [X -> V] /\ \A x \in X : m[x] <= b
    OBVIOUS
  <2>2. \A x \in X \ stop : m[next[x]] < m[x]
    BY <1>1
  <2> HIDE DEF X, V, m, stop, base, next, step
  <2> QED
    BY <1>3, <1>4, <2>1, <2>2 DEF Recursion
<1>6. PICK f \in [X -> V] : Recursive(f, X, stop, base, next, step)
  <2> HIDE DEF X, V, m, stop, base, next, step
  <2> QED
    BY <1>5, RecursionExists
<1>7. ASSUME NEW p \in X
      PROVE  f[p] = ObjectsAt(f, p, b, g)
  <2>1. CASE p \in stop
    <3>1. f[p] = base[p] /\ base[p] = <<>>
      BY <1>6, <2>1 DEF Recursive
    <3>2. Ends(p, b, g)
      BY <2>1
    <3> QED
      BY <3>1, <3>2 DEF ObjectsAt
  <2>2. CASE p \notin stop
    <3>1. next[p] = Behind(p, b, g) /\ Behind(p, b, g) \in X
      BY <1>1, <2>2
    <3>2. f[Behind(p, b, g)] \in V
      BY <3>1
    <3>3. f[p] = step[<<p, f[Behind(p, b, g)]>>]
      BY <1>6, <2>2, <3>1 DEF Recursive
    <3>4. step[<<p, f[Behind(p, b, g)]>>]
            = Payload(p, LengthAt(p, g), b) \o f[Behind(p, b, g)]
      <4> HIDE DEF X, V, stop
      <4> QED
        BY <2>2, <3>2
    <3>5. ~ Ends(p, b, g)
      BY <2>2
    <3> HIDE DEF X, V, stop, step, next
    <3> QED
      BY <3>3, <3>4, <3>5 DEF ObjectsAt
  <2> QED
    BY <2>1, <2>2
<1>8. IsObjects(f, a, b, g)
  <2>1. f = [p \in X |-> f[p]]
    BY <1>6
  <2>2. f = [p \in a .. b |-> ObjectsAt(f, p, b, g)]
    BY <1>7, <2>1
  <2> QED
    BY <2>2 DEF IsObjects
<1> DEFINE h == ObjectsOf(a, b, g)
<1>9. IsObjects(h, a, b, g)
  BY <1>8 DEF ObjectsOf
<1> HIDE DEF h
<1>10. \A p \in X : h[p] = ObjectsAt(h, p, b, g)
  BY <1>9 DEF IsObjects
<1>11. ASSUME NEW p \in X
       PROVE  h[p] \in V
  <2> DEFINE P == {x \in X : h[x] \in V}
  <2>1. ASSUME NEW x \in X, \A y \in X : m[y] < m[x] => y \in P
        PROVE  x \in P
    <3>1. CASE Ends(x, b, g)
      <4>1. h[x] = <<>> /\ <<>> \in V
        BY <1>10, <3>1 DEF ObjectsAt
      <4> QED
        BY <4>1
    <3>2. CASE ~ Ends(x, b, g)
      <4>1. x \in X \ stop
        BY <3>2
      <4>2. Behind(x, b, g) \in X /\ m[Behind(x, b, g)] < m[x]
        BY <1>1, <4>1
      <4>3. h[Behind(x, b, g)] \in V
        BY <2>1, <4>2
      <4>4. h[x] = Payload(x, LengthAt(x, g), b) \o h[Behind(x, b, g)]
        BY <1>10, <3>2 DEF ObjectsAt
      <4> HIDE DEF V, X, stop, m
      <4> QED
        BY <1>2, <4>1, <4>3, <4>4
    <3> QED
      BY <3>1, <3>2
  <2>2. m \in [X -> Nat] /\ P \in SUBSET X
    OBVIOUS
  <2>3. P = X
    <3>1. \A x \in X : (\A y \in X : m[y] < m[x] => y \in P) => x \in P
      BY <2>1
    <3> HIDE DEF P, X, V, m, stop, base, next, step
    <3> QED
      <4>1. Progressive(P, X, m)
        BY <3>1 DEF Progressive
      <4> QED
        BY <2>2, <4>1, MeasureInduction
  <2> QED
    BY <2>3
<1> QED
  BY <1>9, <1>10, <1>11 DEF IsObjects, h

(* q holds messages of whole frames between p and b, in order, whatever    *)
(* other objects lie between them.                                         *)
Sound(q, p, b) ==
  /\ q \in Seq(0 .. Len(stream))
  /\ \A i \in DOMAIN q : IsMessage(q[i]) =>
       stream[q[i]].kind = "good" /\ p <= Start(q[i]) /\ End(q[i]) <= b
  /\ \A i, j \in DOMAIN q : i < j /\ IsMessage(q[i]) /\ IsMessage(q[j])
                              => q[i] < q[j]

(* A unit that ends before another starts comes before it.                 *)
LEMMA OrderedByStart ==
  ASSUME stream \in Seq(Units), "double" \notin Kinds,
         NEW i \in 1 .. Len(stream),
         NEW j \in 1 .. Len(stream), End(i) <= Start(j)
  PROVE  i < j
<1>1. /\ i \in 1 .. Len(stream) + 1 /\ j \in 1 .. Len(stream) + 1
      /\ Start(i) \in Nat /\ Start(j) \in Nat /\ End(i) \in Nat
      /\ Start(i) < End(i)
  BY Layout
<1>2. j < i => Start(j) < Start(i)
  BY <1>1, Layout
<1>3. i = j \/ j < i \/ i < j
  OBVIOUS
<1> QED
  BY <1>1, <1>2, <1>3

(* A unit that ends by t comes before one that ends after it.              *)
LEMMA OrderedByEnd ==
  ASSUME stream \in Seq(Units), "double" \notin Kinds,
         NEW i \in 1 .. Len(stream),
         NEW j \in 1 .. Len(stream), NEW t \in Nat, End(i) <= t, End(j) > t
  PROVE  i < j
<1>1. /\ End(i) = Start(i + 1) /\ End(j) = Start(j + 1)
  BY Layout
<1>2. i + 1 \in 1 .. Len(stream) + 1 /\ j + 1 \in 1 .. Len(stream) + 1
  OBVIOUS
<1>3. Start(i + 1) \in Nat /\ Start(j + 1) \in Nat
  BY <1>2, Layout
<1>4. j + 1 < i + 1 => Start(j + 1) < Start(i + 1)
  BY <1>2, Layout
<1>5. ~ (Start(j + 1) < Start(i + 1)) /\ i # j
  BY <1>1, <1>3
<1>6. i = j \/ j + 1 < i + 1 \/ i < j
  OBVIOUS
<1> QED
  BY <1>4, <1>5, <1>6

(* What is sound from r on is sound from earlier on.                       *)
LEMMA SoundLater ==
  ASSUME stream \in Seq(Units), "double" \notin Kinds,
         NEW p \in Nat, NEW r \in Nat, p <= r,
         NEW b, NEW q, Sound(q, r, b)
  PROVE  Sound(q, p, b)
<1>1. \A i \in DOMAIN q : IsMessage(q[i]) => p <= Start(q[i])
  <2> TAKE i \in DOMAIN q
  <2> SUFFICES ASSUME IsMessage(q[i])
               PROVE  p <= Start(q[i])
    OBVIOUS
  <2>1. q[i] \in 0 .. Len(stream) /\ r <= Start(q[i])
    BY DEF Sound
  <2>2. Start(q[i]) \in Nat
    BY <2>1, Layout DEF IsMessage, NoMessage
  <2> QED
    BY <2>1, <2>2
<1> QED
  BY <1>1 DEF Sound

(* An object is put in front: none, or the message of a frame that ends by *)
(* r.                                                                      *)
LEMMA SoundCons ==
  ASSUME stream \in Seq(Units), "double" \notin Kinds,
         NEW p \in Nat, NEW r \in Nat, p <= r,
         NEW b \in Nat, NEW q, Sound(q, r, b), NEW n \in 0 .. Len(stream),
         IsMessage(n) => /\ stream[n].kind = "good" /\ p <= Start(n)
                         /\ End(n) <= r /\ r <= b
  PROVE  Sound(<<n>> \o q, p, b)
<1> DEFINE s == <<n>> \o q
<1>1. /\ s \in Seq(0 .. Len(stream))
      /\ s[1] = n
      /\ \A i \in 1 .. Len(q) : s[i + 1] = q[i]
      /\ Len(q) \in Nat
      /\ DOMAIN s = 1 .. Len(q) + 1
      /\ DOMAIN q = 1 .. Len(q)
  <2>1. q \in Seq(0 .. Len(stream)) /\ n \in 0 .. Len(stream)
    BY DEF Sound
  <2> QED
    BY <2>1
<1> HIDE DEF s
<1>2. \A i \in 2 .. Len(q) + 1 : i - 1 \in 1 .. Len(q) /\ s[i] = q[i - 1]
  BY <1>1
<1>3. \A i \in DOMAIN s : i = 1 \/ i \in 2 .. Len(q) + 1
  BY <1>1
<1>4. Sound(q, p, b)
  BY SoundLater
<1>5. IsMessage(n) => End(n) <= b
  <2>1. IsMessage(n) => End(n) \in Nat
    <3>1. IsMessage(n) => n \in 1 .. Len(stream)
      BY DEF IsMessage, NoMessage
    <3> QED
      BY <3>1, Layout
  <2> QED
    BY <2>1
<1>6. \A i \in DOMAIN s : IsMessage(s[i]) =>
        stream[s[i]].kind = "good" /\ p <= Start(s[i]) /\ End(s[i]) <= b
  <2> TAKE i \in DOMAIN s
  <2>1. CASE i = 1
    BY <1>1, <1>5, <2>1
  <2>2. CASE i # 1
    <3>1. i - 1 \in DOMAIN q /\ s[i] = q[i - 1]
      BY <1>1, <1>2, <1>3, <2>2
    <3> QED
      BY <1>4, <3>1 DEF Sound
  <2> QED
    BY <2>1, <2>2
<1>7. ASSUME NEW i \in DOMAIN s, NEW j \in DOMAIN s, i < j,
             IsMessage(s[i]), IsMessage(s[j])
      PROVE  s[i] < s[j]
  <2>1. j - 1 \in DOMAIN q /\ s[j] = q[j - 1]
    BY <1>1, <1>2, <1>3, <1>7
  <2>2. CASE i = 1
    <3>1. s[i] = n /\ End(n) <= r /\ n \in 1 .. Len(stream)
      BY <1>1, <1>7, <2>2 DEF IsMessage, NoMessage
    <3>2. q[j - 1] \in 1 .. Len(stream) /\ r <= Start(q[j - 1])
      <4>1. q[j - 1] \in 0 .. Len(stream) /\ r <= Start(q[j - 1])
        BY <1>7, <2>1 DEF Sound
      <4> QED
        BY <1>7, <2>1, <4>1 DEF IsMessage, NoMessage
    <3>3. End(n) \in Nat /\ Start(q[j - 1]) \in Nat
      <4>1. q[j - 1] \in 1 .. Len(stream) + 1
        BY <3>2
      <4> QED
        BY <3>1, <4>1, Layout
    <3>4. End(n) <= Start(q[j - 1])
      BY <3>1, <3>2, <3>3
    <3> QED
      BY <2>1, <3>1, <3>2, <3>4, OrderedByStart
  <2>3. CASE i # 1
    <3>1. i - 1 \in DOMAIN q /\ s[i] = q[i - 1]
      BY <1>1, <1>2, <1>3, <2>3
    <3>2. i - 1 < j - 1
      BY <1>1, <1>7
    <3> QED
      BY <1>7, <2>1, <3>1, <3>2 DEF Sound
  <2> QED
    BY <2>2, <2>3
<1> QED
  BY <1>1, <1>6, <1>7 DEF Sound, s

(* What decode_messages makes of any read is sound, wherever the read      *)
(* starts and whatever the bytes that are no frame hold.                   *)
LEMMA ObjectsSound ==
  ASSUME stream \in Seq(Units), "double" \notin Kinds,
         NEW a \in Nat, NEW b \in Nat, NEW g \in Nat,
         a <= b
  PROVE  Sound(DecodeMessages(a, b, g), a, b)
<1> DEFINE X == a .. b
           m == [p \in X |-> b - p]
           f == ObjectsOf(a, b, g)
           P == {p \in X : Sound(f[p], p, b)}
<1>1. /\ f \in [X -> Seq(0 .. Len(stream))]
      /\ \A p \in X : f[p] = ObjectsAt(f, p, b, g)
  BY ObjectsExist
<1> HIDE DEF f
<1>2. ASSUME NEW p \in X, \A y \in X : m[y] < m[p] => y \in P
      PROVE  Sound(f[p], p, b)
  <2>1. CASE Ends(p, b, g)
    <3>1. f[p] = <<>>
      BY <1>1, <2>1 DEF ObjectsAt
    <3> QED
      BY <3>1, ShortSequences DEF Sound
  <2>2. CASE ~ Ends(p, b, g)
    <3> DEFINE r == Behind(p, b, g)
               l == LengthAt(p, g)
    <3>1. p \in Nat
      OBVIOUS
    <3>2. /\ r \in p + 1 .. b /\ l \in Nat
          /\ p + Header + l <= b => r = p + Header + l
      BY <2>2, <3>1, BehindIsAhead
    <3> HIDE DEF r, l
    <3>3. r \in X /\ r \in Nat /\ p <= r /\ r <= b /\ m[r] < m[p]
      BY <3>2
    <3>4. Sound(f[r], r, b)
      BY <1>2, <3>3
    <3>5. f[p] = Payload(p, l, b) \o f[r]
      BY <1>1, <2>2 DEF ObjectsAt, r, l
    <3>6. CASE Payload(p, l, b) = <<>>
      <4>1. f[p] = f[r]
        BY <3>4, <3>5, <3>6 DEF Sound
      <4> QED
        BY <3>1, <3>3, <3>4, <4>1, SoundLater
    <3>7. CASE FrameAt(p) = {} /\ Payload(p, l, b) # <<>>
      <4>1. Payload(p, l, b) = <<NoMessage>>
        BY <3>7 DEF Payload
      <4>2. NoMessage \in 0 .. Len(stream) /\ ~ IsMessage(NoMessage)
        BY DEF NoMessage, IsMessage
      <4> QED
        BY <3>1, <3>3, <3>4, <3>5, <4>1, <4>2, SoundCons
    <3>8. CASE FrameAt(p) # {} /\ Payload(p, l, b) # <<>>
      <4>1. PICK n \in DOMAIN stream :
              /\ Start(n) = p
              /\ stream[n].kind # "junk"
              /\ LengthAt(p, g) = stream[n].size
              /\ Messages(p) = IF stream[n].kind = "good" THEN <<n>> ELSE <<>>
        BY <3>8, FrameSome
      <4>2. p + Header + l <= b /\ Payload(p, l, b) = <<n>>
            /\ stream[n].kind = "good"
        <5>1. ~ (p + Header + l > b)
          BY <3>8 DEF Payload
        <5>2. Payload(p, l, b) = Messages(p)
          BY <3>8, <5>1 DEF Payload
        <5> QED
          BY <3>1, <3>2, <3>8, <4>1, <5>1, <5>2 DEF Header
      <4>3. n \in 1 .. Len(stream) /\ n \in 0 .. Len(stream)
        OBVIOUS
      <4>4. End(n) = r
        BY <3>2, <4>1, <4>2, <4>3, Layout DEF l
      <4>5. p <= Start(n) /\ End(n) <= r
        BY <3>1, <3>3, <4>1, <4>4
      <4> QED
        BY <3>1, <3>3, <3>4, <3>5, <4>2, <4>3, <4>5, SoundCons
    <3> QED
      BY <3>6, <3>7, <3>8
  <2> QED
    BY <2>1, <2>2
<1>3. P = X
  <2>1. \A p \in X : (\A y \in X : m[y] < m[p] => y \in P) => p \in P
    BY <1>2
  <2>2. m \in [X -> Nat] /\ P \in SUBSET X
    OBVIOUS
  <2> HIDE DEF P, X, m
  <2>3. Progressive(P, X, m)
    BY <2>1 DEF Progressive
  <2> QED
    BY <2>2, <2>3, MeasureInduction
<1>4. a \in P
  BY <1>3
<1> QED
  BY <1>4, DecodeMessagesIs DEF f

(* What it makes of a read between two boundaries of frames is all there   *)
(* is.                                                                     *)
LEMMA ObjectsBatch ==
  ASSUME stream \in Seq(Units), "double" \notin Kinds,
         "junk" \notin Kinds,
         NEW k \in 1 .. Len(stream) + 1, NEW m \in 1 .. k, NEW g \in Nat
  PROVE  Batch(DecodeMessages(Start(m), Start(k), g), m, Start(k))
<1> DEFINE N == Len(stream)
           b == Start(k)
           f == ObjectsOf(Start(m), b, g)
           T == {i \in 1 .. k : m <= i => Batch(f[Start(i)], i, b)}
<1>1. /\ \A i \in 1 .. N + 1 : Start(i) \in Nat
      /\ \A i, j \in 1 .. N + 1 : i < j => Start(i) < Start(j)
      /\ b \in Nat
  BY Layout
<1>2. \A p \in Start(m) .. b : f[p] = ObjectsAt(f, p, b, g)
  <2>1. Start(m) \in Nat /\ b \in Nat
    BY <1>1
  <2> HIDE DEF b
  <2> QED
    BY <2>1, ObjectsExist
<1> HIDE DEF f
<1>3. ASSUME NEW i \in 1 .. k, m <= i
      PROVE  f[Start(i)] = ObjectsAt(f, Start(i), b, g)
  <2>1. i = m \/ m < i
    BY <1>3
  <2>2. i = k \/ i < k
    OBVIOUS
  <2>3. Start(m) <= Start(i) /\ Start(i) <= b /\ Start(i) \in Nat
    BY <1>1, <2>1, <2>2
  <2>4. Start(m) \in Nat
    BY <1>1
  <2> QED
    BY <1>1, <1>2, <2>3, <2>4
<1>4. k \in T
  <2>1. Ends(b, b, g)
    BY <1>1 DEF Ends, Header
  <2>2. f[b] = <<>>
    BY <1>3, <2>1 DEF ObjectsAt
  <2>3. k = N + 1 \/ End(k) > b
    <3>1. k # N + 1 => k \in 1 .. N
      OBVIOUS
    <3> QED
      BY <3>1, Layout
  <2>4. Batch(<<>>, k, b)
    BY <1>1, <2>3, BatchEmpty
  <2> QED
    BY <2>2, <2>4
<1>5. ASSUME NEW i \in 1 .. k - 1, i + 1 \in T
      PROVE  i \in T
  <2> SUFFICES ASSUME m <= i
               PROVE  Batch(f[Start(i)], i, b)
    OBVIOUS
  <2>1. /\ i \in 1 .. N /\ i + 1 \in 1 .. N + 1 /\ i \in 1 .. k
        /\ i \in DOMAIN stream
    OBVIOUS
  <2>2. /\ FrameAt(Start(i)) = {i}
        /\ LengthAt(Start(i), g) = stream[i].size
    BY <2>1, FrameHere, NoJunk
  <2>3. /\ End(i) = Start(i + 1)
        /\ End(i) = Start(i) + Header + stream[i].size
        /\ stream[i].size \in Nat \ {0}
        /\ Start(i) \in Nat
    BY <1>1, <2>1, Layout, NoJunk
  <2>4. End(i) <= b
    <3>1. i + 1 = k \/ i + 1 < k
      OBVIOUS
    <3>2. Start(i + 1) \in Nat
      BY <1>1, <2>1
    <3>3. i + 1 < k => Start(i + 1) < b
      BY <1>1, <2>1
    <3> QED
      BY <1>1, <2>3, <3>1, <3>2, <3>3
  <2>5. f[Start(i)] = Messages(Start(i)) \o f[Start(i + 1)]
    <3>1. f[Start(i)] = ObjectsAt(f, Start(i), b, g)
      BY <1>3, <2>1
    <3>2. ~ Ends(Start(i), b, g)
      BY <1>1, <2>2, <2>3, <2>4 DEF Ends, Header
    <3>3. Behind(Start(i), b, g) = Start(i + 1)
      <4>1. Min({Start(i + 1), b}) = Start(i + 1)
        BY <1>1, <2>1, <2>3, <2>4, MinFirst
      <4> HIDE DEF b
      <4> QED
        BY <2>2, <2>3, <4>1 DEF Behind
    <3>4. ~ (Start(i) + Header + stream[i].size > b)
      BY <1>1, <2>3, <2>4 DEF Header
    <3>5. Payload(Start(i), stream[i].size, b) = Messages(Start(i))
      BY <2>2, <3>4 DEF Payload
    <3> QED
      BY <2>2, <3>1, <3>2, <3>3, <3>5 DEF ObjectsAt
  <2>6. Batch(f[Start(i + 1)], i + 1, b)
    BY <1>5, <2>1
  <2> QED
    BY <1>1, <2>1, <2>4, <2>5, <2>6, BatchNext, NoJunk
<1>6. T = 1 .. k
  <2>1. N \in Nat /\ k \in 1 .. N + 1 /\ T \in SUBSET (1 .. k)
    OBVIOUS
  <2> HIDE DEF T, N
  <2> QED
    BY <1>4, <1>5, <2>1, DownwardInduction
<1>7. m \in T
  BY <1>6
<1> QED
  BY <1>7, DecodeMessagesIs DEF f

(* What is handled of the objects with indices in s.                       *)
HandledUpto(f, h, q, s) ==
  IF s = {} THEN h ELSE Handle(f[s \ {Max(s)}], q[Max(s)])

IsHandling(f, h, q) == f = [s \in SUBSET DOMAIN q |-> HandledUpto(f, h, q, s)]

HandlingOf(h, q) == CHOOSE f : IsHandling(f, h, q)

(* The fold of ReadMessages is the solution of that recursion,             *)
LEMMA FoldIsHandling ==
  \A h, q : FoldLeft(Handle, h, q) = HandlingOf(h, q)[DOMAIN q]
  BY DEF FoldLeft, MapThenFoldSet, HandlingOf, IsHandling, HandledUpto

(* A nonempty set of indices has a greatest one.                           *)
LEMMA MaxInside ==
  ASSUME NEW n \in Nat, NEW s \in SUBSET (1 .. n), s # {}
  PROVE  Max(s) \in s
<1> DEFINE Tops(r) == \E x \in r : \A y \in r : x >= y
           T == {k \in Nat : \A r \in SUBSET (1 .. k) : r # {} => Tops(r)}
<1>1. 0 \in T
  <2>1. 1 .. 0 = {}
    OBVIOUS
  <2>2. \A r \in SUBSET (1 .. 0) : r = {}
    BY <2>1
  <2> HIDE DEF Tops
  <2> QED
    BY <2>2
<1>2. ASSUME NEW k \in T
      PROVE  k + 1 \in T
  <2>1. k \in Nat /\ \A r \in SUBSET (1 .. k) : r # {} => Tops(r)
    OBVIOUS
  <2>2. ASSUME NEW r \in SUBSET (1 .. k + 1), r # {}
        PROVE  Tops(r)
    <3>1. CASE k + 1 \in r
      <4>1. \A y \in r : k + 1 >= y
        BY <2>1
      <4> QED
        BY <3>1, <4>1
    <3>2. CASE k + 1 \notin r
      <4>1. r \in SUBSET (1 .. k)
        BY <2>1, <3>2
      <4> HIDE DEF Tops
      <4> QED
        BY <2>1, <2>2, <4>1
    <3> QED
      BY <3>1, <3>2
  <2> QED
    BY <2>1, <2>2
<1>3. T = Nat
  <2>1. T \in SUBSET Nat
    OBVIOUS
  <2> HIDE DEF T
  <2> QED
    BY <1>1, <1>2, <2>1, NatSetInduction
<1>4. Tops(s)
  <2>1. n \in T
    BY <1>3
  <2> HIDE DEF Tops
  <2> QED
    BY <2>1
<1> QED
  BY <1>4 DEF Max

(* That of an interval is its end.                                         *)
LEMMA MaxUpto ==
  ASSUME NEW i \in Nat \ {0}
  PROVE  Max(1 .. i) = i
<1>1. i \in 1 .. i /\ \A y \in 1 .. i : i >= y
  OBVIOUS
<1>2. \A x \in 1 .. i : (\A y \in 1 .. i : x >= y) => x = i
  OBVIOUS
<1> QED
  BY <1>1, <1>2 DEF Max

(* A sequence keeps its type when it is appended to.                       *)
LEMMA AppendType ==
  ASSUME NEW S, NEW v \in Seq(S), NEW x \in S
  PROVE  Append(v, x) \in Seq(S)
  OBVIOUS

(* An interval without its end.                                            *)
LEMMA IntervalLess ==
  ASSUME NEW k \in Nat
  PROVE  1 .. k + 1 # {} /\ (1 .. k + 1) \ {k + 1} = 1 .. k
  OBVIOUS

(* which has one.                                                          *)
LEMMA HandlingExists ==
  ASSUME NEW N \in Nat, NEW h \in Seq(1 .. N), NEW q \in Seq(0 .. N)
  PROVE  IsHandling(HandlingOf(h, q), h, q)
<1> DEFINE D == DOMAIN q
           X == SUBSET D
           V == Seq(1 .. N)
           m == [s \in X |-> Cardinality(s)]
           stop == {{}}
           base == [s \in X |-> h]
           next == [s \in X \ stop |-> s \ {Max(s)}]
           step == [x \in (X \ stop) \X V |-> Handle(x[2], q[Max(x[1])])]
<1>1. IsFiniteSet(D) /\ D = 1 .. Len(q) /\ Len(q) \in Nat
  BY DomainFinite
<1>2. ASSUME NEW s \in X, s # {}
      PROVE  Max(s) \in s /\ Max(s) \in D
  BY <1>1, <1>2, MaxInside
<1>3. \A s \in X : IsFiniteSet(s) /\ Cardinality(s) \in Nat
                   /\ Cardinality(s) <= Cardinality(D)
  BY <1>1, FS_Subset, SubsetsFinite
<1>4. ASSUME NEW s \in X \ stop
      PROVE  s \ {Max(s)} \in X /\ Cardinality(s \ {Max(s)}) < Cardinality(s)
  <2>1. s \in X /\ Max(s) \in s
    BY <1>2
  <2>2. Cardinality(s \ {Max(s)}) = Cardinality(s) - 1
    BY <1>3, <2>1, FS_RemoveElement
  <2>3. Cardinality(s) \in Nat
    BY <1>3, <2>1
  <2> QED
    BY <2>1, <2>2, <2>3
<1>5. ASSUME NEW s \in X \ stop, NEW v \in V
      PROVE  Handle(v, q[Max(s)]) \in V
  <2>1. q[Max(s)] \in 0 .. N
    <3>1. Max(s) \in D
      BY <1>2
    <3> QED
      BY <3>1
  <2>2. IsMessage(q[Max(s)]) => q[Max(s)] \in 1 .. N
    BY <2>1 DEF IsMessage, NoMessage
  <2>3. q[Max(s)] \in 1 .. N => Append(v, q[Max(s)]) \in V
    BY AppendType
  <2> QED
    BY <2>2, <2>3 DEF Handle
<1>6. Recursion(X, V, m, Cardinality(D), stop, base, next, step)
  <2>1. next \in [X \ stop -> X]
    BY <1>4
  <2>2. step \in [(X \ stop) \X V -> V]
    <3> HIDE DEF X, V, stop
    <3> QED
      BY <1>5
  <2>3. /\ m \in [X -> Nat] /\ Cardinality(D) \in Nat
        /\ \A x \in X : m[x] <= Cardinality(D)
    BY <1>3
  <2>4. stop \in SUBSET X /\ base \in [X -> V]
    OBVIOUS
  <2>5. \A x \in X \ stop : m[next[x]] < m[x]
    BY <1>4
  <2> HIDE DEF D, X, V, m, stop, base, next, step
  <2> QED
    BY <2>1, <2>2, <2>3, <2>4, <2>5 DEF Recursion
<1>7. PICK f \in [X -> V] : Recursive(f, X, stop, base, next, step)
  <2> HIDE DEF D, X, V, m, stop, base, next, step
  <2> QED
    BY <1>6, RecursionExists
<1>8. ASSUME NEW s \in X
      PROVE  f[s] = HandledUpto(f, h, q, s)
  <2>1. CASE s = {}
    <3>1. f[s] = base[s]
      BY <1>7, <2>1 DEF Recursive
    <3> QED
      BY <2>1, <3>1 DEF HandledUpto
  <2>2. CASE s # {}
    <3>1. s \in X \ stop /\ next[s] = s \ {Max(s)} /\ s \ {Max(s)} \in X
      BY <1>4, <2>2
    <3>2. f[s \ {Max(s)}] \in V
      BY <3>1
    <3>3. step[<<s, f[s \ {Max(s)}]>>] = Handle(f[s \ {Max(s)}], q[Max(s)])
      <4> HIDE DEF X, V, stop
      <4> QED
        BY <3>1, <3>2
    <3>4. f[s] = step[<<s, f[next[s]]>>]
      BY <1>7, <3>1 DEF Recursive
    <3> HIDE DEF X, V, stop, step, next
    <3> QED
      BY <2>2, <3>1, <3>3, <3>4 DEF HandledUpto
  <2> QED
    BY <2>1, <2>2
<1>9. IsHandling(f, h, q)
  <2>1. f = [s \in X |-> f[s]]
    BY <1>7
  <2>2. f = [s \in SUBSET DOMAIN q |-> HandledUpto(f, h, q, s)]
    BY <1>8, <2>1
  <2> QED
    BY <2>2 DEF IsHandling
<1> QED
  BY <1>9 DEF HandlingOf

(* An increasing sequence stays so when something greater is appended.     *)
LEMMA AppendIncreasing ==
  ASSUME NEW N \in Nat, NEW r \in Seq(1 .. N), Increasing(r),
         NEW n \in 1 .. N, \A x \in Range(r) : x < n
  PROVE  /\ Append(r, n) \in Seq(1 .. N)
         /\ Increasing(Append(r, n))
         /\ Range(Append(r, n)) = Range(r) \union {n}
<1> DEFINE s == Append(r, n)
<1>1. /\ s \in Seq(1 .. N)
      /\ Len(r) \in Nat
      /\ DOMAIN s = 1 .. Len(r) + 1
      /\ DOMAIN r = 1 .. Len(r)
      /\ \A i \in 1 .. Len(r) : s[i] = r[i]
      /\ s[Len(r) + 1] = n
  OBVIOUS
<1> HIDE DEF s
<1>2. \A i \in DOMAIN s : i = Len(r) + 1 \/ i \in DOMAIN r
  BY <1>1
<1>3. Range(s) = Range(r) \union {n}
  <2>1. \A i \in DOMAIN s : s[i] \in Range(r) \union {n}
    BY <1>1, <1>2 DEF Range
  <2>2. \A i \in DOMAIN r : r[i] \in Range(s)
    <3>1. \A i \in DOMAIN r : i \in DOMAIN s /\ s[i] = r[i]
      BY <1>1
    <3> QED
      BY <3>1 DEF Range
  <2>3. n \in Range(s)
    <3>1. Len(r) + 1 \in DOMAIN s
      BY <1>1
    <3> QED
      BY <1>1, <3>1 DEF Range
  <2> QED
    BY <2>1, <2>2, <2>3 DEF Range
<1>4. Increasing(s)
  <2> SUFFICES ASSUME NEW i \in DOMAIN s, NEW j \in DOMAIN s, i < j
               PROVE  s[i] < s[j]
    BY DEF Increasing
  <2>1. i \in DOMAIN r /\ s[i] = r[i] /\ r[i] \in Range(r)
    BY <1>1 DEF Range
  <2>2. CASE j = Len(r) + 1
    BY <1>1, <2>1, <2>2
  <2>3. CASE j \in DOMAIN r
    BY <1>1, <2>1, <2>3 DEF Increasing
  <2> QED
    BY <1>2, <2>2, <2>3
<1> QED
  BY <1>1, <1>3, <1>4 DEF s

(* Handling objects in order appends the messages among them, and keeps    *)
(* the handled messages increasing if they are.                            *)
LEMMA HandleAll ==
  ASSUME NEW N \in Nat, NEW h \in Seq(1 .. N), NEW q \in Seq(0 .. N),
         Increasing(h),
         \A i \in DOMAIN q : IsMessage(q[i]) => \A x \in Range(h) : x < q[i],
         \A i, j \in DOMAIN q : i < j /\ IsMessage(q[i]) /\ IsMessage(q[j])
                                  => q[i] < q[j]
  PROVE  /\ FoldLeft(Handle, h, q) \in Seq(1 .. N)
         /\ Increasing(FoldLeft(Handle, h, q))
         /\ Range(FoldLeft(Handle, h, q))
              = Range(h) \union {n \in Range(q) : IsMessage(n)}
<1> DEFINE f == HandlingOf(h, q)
           Got(i) == {n \in {q[j] : j \in 1 .. i} : IsMessage(n)}
           Fine(i) == /\ f[1 .. i] \in Seq(1 .. N)
                      /\ Increasing(f[1 .. i])
                      /\ Range(f[1 .. i]) = Range(h) \union Got(i)
           T == {i \in Nat : i <= Len(q) => Fine(i)}
<1>1. DOMAIN q = 1 .. Len(q) /\ Len(q) \in Nat
  OBVIOUS
<1>2. \A s \in SUBSET DOMAIN q : f[s] = HandledUpto(f, h, q, s)
  BY HandlingExists DEF IsHandling
<1> HIDE DEF f
<1>3. 0 \in T
  <2>1. 1 .. 0 = {}
    OBVIOUS
  <2>2. f[{}] = h
    BY <1>2 DEF HandledUpto
  <2>3. Got(0) = {}
    BY <2>1
  <2> HIDE DEF Got
  <2> QED
    BY <2>1, <2>2, <2>3
<1>4. ASSUME NEW k \in T
      PROVE  k + 1 \in T
  <2> SUFFICES ASSUME k + 1 <= Len(q)
               PROVE  Fine(k + 1)
    OBVIOUS
  <2> DEFINE i == k + 1
  <2>1. k \in Nat /\ Fine(k) /\ i \in DOMAIN q /\ i \in Nat \ {0}
    <3>1. k \in Nat /\ k <= Len(q) /\ (k <= Len(q) => Fine(k))
      <4> HIDE DEF Fine
      <4> QED
        BY <1>1
    <3>2. i \in DOMAIN q /\ i \in Nat \ {0}
      BY <1>1, <3>1
    <3> HIDE DEF Fine, i
    <3> QED
      BY <3>1, <3>2
  <2>2. f[1 .. i] = Handle(f[1 .. k], q[i])
    <3>1. 1 .. i \in SUBSET DOMAIN q /\ 1 .. i # {} /\ (1 .. i) \ {i} = 1 .. k
      <4>1. k \in Nat /\ k + 1 <= Len(q)
        BY <2>1
      <4>2. 1 .. k + 1 \in SUBSET (1 .. Len(q))
        BY <1>1, <4>1
      <4>3. 1 .. k + 1 # {} /\ (1 .. k + 1) \ {k + 1} = 1 .. k
        BY <4>1, IntervalLess
      <4> QED
        BY <1>1, <4>2, <4>3
    <3>2. Max(1 .. i) = i
      BY <2>1, MaxUpto
    <3> HIDE DEF i
    <3> QED
      BY <1>2, <3>1, <3>2 DEF HandledUpto
  <2>3. Got(i) = Got(k) \union (IF IsMessage(q[i]) THEN {q[i]} ELSE {})
    <3>1. {q[j] : j \in 1 .. i} = {q[j] : j \in 1 .. k} \union {q[i]}
      <4>1. 1 .. i = (1 .. k) \union {i}
        BY <2>1
      <4> HIDE DEF i
      <4> QED
        BY <4>1
    <3> HIDE DEF i
    <3> QED
      BY <3>1
  <2>4. CASE ~ IsMessage(q[i])
    <3>1. f[1 .. i] = f[1 .. k] /\ Got(i) = Got(k)
      BY <2>2, <2>3, <2>4 DEF Handle
    <3> HIDE DEF Got, i
    <3> QED
      BY <2>1, <3>1 DEF i
  <2>5. CASE IsMessage(q[i])
    <3>1. f[1 .. i] = Append(f[1 .. k], q[i]) /\ Got(i) = Got(k) \union {q[i]}
      BY <2>2, <2>3, <2>5 DEF Handle
    <3>2. q[i] \in 1 .. N
      <4>1. q[i] \in 0 .. N
        BY <2>1
      <4> QED
        BY <2>5, <4>1 DEF IsMessage, NoMessage
    <3>3. \A x \in Range(f[1 .. k]) : x < q[i]
      <4>1. ASSUME NEW x \in Got(k)
            PROVE  x < q[i]
        <5>1. PICK j \in 1 .. k : x = q[j] /\ IsMessage(q[j])
          OBVIOUS
        <5>2. j \in DOMAIN q /\ j < i
          BY <1>1, <2>1
        <5> QED
          BY <2>1, <2>5, <5>1, <5>2
      <4>2. \A x \in Range(h) : x < q[i]
        BY <2>1, <2>5
      <4> HIDE DEF Got, i
      <4> QED
        BY <2>1, <4>1, <4>2
    <3>4. /\ Append(f[1 .. k], q[i]) \in Seq(1 .. N)
          /\ Increasing(Append(f[1 .. k], q[i]))
          /\ Range(Append(f[1 .. k], q[i])) = Range(f[1 .. k]) \union {q[i]}
      <4> HIDE DEF Got, i
      <4> QED
        BY <2>1, <3>2, <3>3, AppendIncreasing
    <3> HIDE DEF Got
    <3> QED
      BY <2>1, <3>1, <3>4
  <2> QED
    BY <2>4, <2>5
<1>5. T = Nat
  <2>1. T \in SUBSET Nat
    OBVIOUS
  <2> HIDE DEF T
  <2> QED
    BY <1>3, <1>4, <2>1, NatSetInduction
<1>6. Fine(Len(q))
  <2>1. Len(q) \in T
    BY <1>1, <1>5
  <2> HIDE DEF Fine
  <2> QED
    BY <1>1, <2>1
<1>7. Got(Len(q)) = {n \in Range(q) : IsMessage(n)}
  BY <1>1 DEF Range
<1>8. FoldLeft(Handle, h, q) = f[1 .. Len(q)]
  BY <1>1, FoldIsHandling DEF f
<1> HIDE DEF Got
<1> QED
  BY <1>6, <1>7, <1>8

(* A sequence behind another.                                              *)
LEMMA ConcatIncreasing ==
  ASSUME NEW N \in Nat, NEW h \in Seq(1 .. N), NEW q \in Seq(1 .. N)
  PROVE  /\ h \o q \in Seq(1 .. N)
         /\ Range(h \o q) = Range(h) \union Range(q)
         /\ Increasing(h) /\ Increasing(q)
              /\ (\A x \in Range(h), y \in Range(q) : x < y)
              => Increasing(h \o q)
<1> DEFINE s == h \o q
<1>1. /\ s \in Seq(1 .. N)
      /\ Len(h) \in Nat /\ Len(q) \in Nat
      /\ DOMAIN s = 1 .. Len(h) + Len(q)
      /\ DOMAIN h = 1 .. Len(h)
      /\ DOMAIN q = 1 .. Len(q)
      /\ \A i \in 1 .. Len(h) : s[i] = h[i]
      /\ \A i \in 1 .. Len(q) : s[Len(h) + i] = q[i]
  OBVIOUS
<1> HIDE DEF s
<1>2. ASSUME NEW i \in DOMAIN s, i \notin DOMAIN h
      PROVE  i - Len(h) \in DOMAIN q /\ s[i] = q[i - Len(h)]
  <2>1. i - Len(h) \in DOMAIN q /\ Len(h) + (i - Len(h)) = i
    BY <1>1, <1>2
  <2> QED
    BY <1>1, <2>1
<1>3. Range(s) = Range(h) \union Range(q)
  <2>1. \A i \in DOMAIN s : s[i] \in Range(h) \union Range(q)
    BY <1>1, <1>2 DEF Range
  <2>2. \A i \in DOMAIN h : h[i] \in Range(s)
    <3>1. \A i \in DOMAIN h : i \in DOMAIN s /\ s[i] = h[i]
      BY <1>1
    <3> QED
      BY <3>1 DEF Range
  <2>3. \A i \in DOMAIN q : q[i] \in Range(s)
    <3>1. \A i \in DOMAIN q : Len(h) + i \in DOMAIN s /\ s[Len(h) + i] = q[i]
      BY <1>1
    <3> QED
      BY <3>1 DEF Range
  <2> QED
    BY <2>1, <2>2, <2>3 DEF Range
<1>4. ASSUME Increasing(h), Increasing(q),
             \A x \in Range(h), y \in Range(q) : x < y
      PROVE  Increasing(s)
  <2> SUFFICES ASSUME NEW i \in DOMAIN s, NEW j \in DOMAIN s, i < j
               PROVE  s[i] < s[j]
    BY DEF Increasing
  <2>1. CASE i \in DOMAIN h /\ j \in DOMAIN h
    BY <1>1, <1>4, <2>1 DEF Increasing
  <2>2. CASE i \in DOMAIN h /\ j \notin DOMAIN h
    <3>1. s[i] \in Range(h) /\ s[j] \in Range(q)
      BY <1>1, <1>2, <2>2 DEF Range
    <3> QED
      BY <1>4, <3>1
  <2>3. CASE i \notin DOMAIN h
    <3>1. j \notin DOMAIN h
      BY <1>1, <2>3
    <3>2. i - Len(h) < j - Len(h)
      BY <1>1
    <3> QED
      BY <1>2, <1>4, <2>3, <3>1, <3>2 DEF Increasing
  <2> QED
    BY <2>1, <2>2, <2>3
<1> QED
  BY <1>1, <1>3, <1>4 DEF s

(* Arrived, had the last read ended at t.                                  *)
ArrivedBy(t) == {n \in DOMAIN stream : stream[n].kind = "good" /\ End(n) <= t}

(* A base station's part of the invariant, of the handled messages h, the  *)
(* end t of the last read and whether all of them ended with a unit, s.    *)
StationState(h, t, s) ==
  /\ h \in Seq(1 .. Len(stream))
  /\ Increasing(h)
  /\ \A n \in Range(h) : End(n) <= t
  /\ s => \E m \in 1 .. Len(stream) + 1 : t = Start(m)
  /\ s /\ "junk" \notin Kinds => Range(h) = ArrivedBy(t)

(* An Application Center's part, of the handled messages h, the start f of *)
(* the buffer and the end t of the last read: the buffer starts at a unit, *)
(* and if every frame holds a message at the first that has not arrived.   *)
CenterState(h, f, t) ==
  /\ h \in Seq(1 .. Len(stream))
  /\ Range(h) = ArrivedBy(t)
  /\ "bad" \notin Kinds => Increasing(h)
  /\ \E m \in 1 .. Len(stream) + 1 :
       /\ f = Start(m)
       /\ f <= t
       /\ "bad" \notin Kinds => m = Len(stream) + 1 \/ End(m) > t

(* What the reads keep of a stream without double frames.                  *)
Framed ==
  /\ protocol \in {"bssci", "scaci"}
  /\ stream \in Seq(Units)
  /\ to \in Nat
  /\ inStep \in BOOLEAN
  /\ protocol = "bssci" => StationState(handled, to, inStep)
  /\ protocol = "scaci" /\ "junk" \notin Kinds
       => CenterState(handled, from, to)

(* The inductive invariant.                                                *)
FramingInv == "double" \notin Kinds => Framed

(* What has arrived by b has by a, or is of the units from m on.           *)
LEMMA ArrivedSplit ==
  ASSUME stream \in Seq(Units), "double" \notin Kinds,
         NEW m \in 1 .. Len(stream) + 1,
         NEW a \in Nat, NEW b \in Nat, Start(m) <= a, a <= b
  PROVE  ArrivedBy(b) = ArrivedBy(a) \union GoodFrom(m, b)
<1>1. ASSUME NEW n \in DOMAIN stream
      PROVE  /\ End(n) \in Nat
             /\ n \in m .. Len(stream) \/ End(n) <= a
  <2>1. /\ n \in 1 .. Len(stream) /\ n + 1 \in 1 .. Len(stream) + 1
        /\ End(n) = Start(n + 1) /\ End(n) \in Nat /\ Start(m) \in Nat
    BY Layout
  <2>2. n \in m .. Len(stream) \/ n + 1 = m \/ n + 1 < m
    BY <2>1
  <2>3. n + 1 < m => Start(n + 1) < Start(m)
    BY <2>1, Layout
  <2> QED
    BY <2>1, <2>2, <2>3
<1>2. m .. Len(stream) \subseteq DOMAIN stream
  OBVIOUS
<1>3. \A n \in DOMAIN stream : End(n) <= a => End(n) <= b
  BY <1>1
<1> QED
  BY <1>1, <1>2, <1>3 DEF ArrivedBy, GoodFrom

(* What is handled before a failure is sound as well.                      *)
LEMMA SoundPrefix ==
  ASSUME NEW p, NEW b, NEW q, Sound(q, p, b), NEW i \in DOMAIN q
  PROVE  Sound(SubSeq(q, 1, i), p, b)
<1> DEFINE s == SubSeq(q, 1, i)
<1>1. q \in Seq(0 .. Len(stream))
  BY DEF Sound
<1>2. /\ s \in Seq(0 .. Len(stream))
      /\ DOMAIN s \subseteq DOMAIN q
      /\ \A j \in DOMAIN s : s[j] = q[j]
  BY <1>1
<1> HIDE DEF s
<1>3. Sound(s, p, b)
  BY <1>2 DEF Sound
<1> QED
  BY <1>3 DEF s

(* Sound objects are handled in order behind what was handled before.      *)
LEMMA StationHandles ==
  ASSUME stream \in Seq(Units), "double" \notin Kinds,
         NEW a \in Nat, NEW b \in Nat, a <= b,
         NEW q, Sound(q, a, b), NEW h \in Seq(1 .. Len(stream)),
         Increasing(h), \A n \in Range(h) : End(n) <= a
  PROVE  /\ FoldLeft(Handle, h, q) \in Seq(1 .. Len(stream))
         /\ Increasing(FoldLeft(Handle, h, q))
         /\ \A n \in Range(FoldLeft(Handle, h, q)) : End(n) <= b
         /\ Range(FoldLeft(Handle, h, q))
              = Range(h) \union {n \in Range(q) : IsMessage(n)}
<1> DEFINE N == Len(stream)
<1>1. N \in Nat /\ q \in Seq(0 .. N) /\ h \in Seq(1 .. N)
  BY DEF Sound
<1>2. \A n \in Range(h) : n \in 1 .. N /\ End(n) \in Nat
  <2>1. \A n \in Range(h) : n \in 1 .. N
    BY <1>1 DEF Range
  <2> QED
    BY <2>1, Layout
<1>3. \A i \in DOMAIN q : IsMessage(q[i]) =>
        /\ q[i] \in 1 .. N /\ a <= Start(q[i]) /\ Start(q[i]) \in Nat
        /\ End(q[i]) <= b
  <2> TAKE i \in DOMAIN q
  <2> HAVE IsMessage(q[i])
  <2>1. q[i] \in 0 .. N /\ a <= Start(q[i]) /\ End(q[i]) <= b
    BY <1>1 DEF Sound
  <2>2. q[i] \in 1 .. N
    BY <2>1 DEF IsMessage, NoMessage
  <2>3. q[i] \in 1 .. Len(stream) + 1
    BY <2>2
  <2> QED
    BY <2>1, <2>2, <2>3, Layout
<1>4. ASSUME NEW i \in DOMAIN q, IsMessage(q[i]), NEW x \in Range(h)
      PROVE  x < q[i]
  <2>1. /\ x \in 1 .. N /\ q[i] \in 1 .. N
        /\ End(x) \in Nat /\ Start(q[i]) \in Nat
        /\ End(x) <= a /\ a <= Start(q[i])
    BY <1>2, <1>3, <1>4
  <2>2. End(x) <= Start(q[i])
    BY <2>1
  <2> QED
    BY <2>1, <2>2, OrderedByStart
<1>5. \A i, j \in DOMAIN q : i < j /\ IsMessage(q[i]) /\ IsMessage(q[j])
                               => q[i] < q[j]
  BY DEF Sound
<1> DEFINE r == FoldLeft(Handle, h, q)
<1>6. /\ r \in Seq(1 .. N) /\ Increasing(r)
      /\ Range(r) = Range(h) \union {n \in Range(q) : IsMessage(n)}
  <2>1. \A i \in DOMAIN q : IsMessage(q[i]) => \A x \in Range(h) : x < q[i]
    BY <1>4
  <2> HIDE DEF N
  <2> QED
    BY <1>1, <1>5, <2>1, HandleAll
<1> HIDE DEF r
<1>7. ASSUME NEW n \in Range(r)
      PROVE  End(n) <= b
  <2>1. CASE n \in Range(h)
    BY <1>2, <2>1
  <2>2. CASE n \notin Range(h)
    <3>1. n \in Range(q) /\ IsMessage(n)
      BY <1>6, <2>2
    <3>2. PICK i \in DOMAIN q : n = q[i]
      BY <3>1 DEF Range
    <3> QED
      BY <1>3, <3>1, <3>2
  <2> QED
    BY <2>1, <2>2
<1> QED
  BY <1>6, <1>7 DEF r

(* One read keeps a base station's part, whether all objects of it are     *)
(* handled or an object that is no message ends the connection.            *)
LEMMA StationStep ==
  ASSUME stream \in Seq(Units), "double" \notin Kinds,
         NEW a \in Nat, NEW b \in a + 1 .. StreamEnd,
         NEW g \in Nat, NEW h, NEW s, NEW t, StationState(h, a, s),
         t <=> (s /\ \E n \in DOMAIN stream : End(n) = b)
  PROVE  LET q == DecodeMessages(a, b, g)
         IN  /\ StationState(FoldLeft(Handle, h, q), b, t)
             /\ \A i \in DOMAIN q :
                  ~ IsMessage(q[i])
                    => StationState(FoldLeft(Handle, h, SubSeq(q, 1, i)), b, t)
<1> DEFINE q == DecodeMessages(a, b, g)
           All(r) == FoldLeft(Handle, h, r)
<1>1. b \in Nat /\ a <= b
  OBVIOUS
<1>2. Sound(q, a, b)
  BY <1>1, ObjectsSound
<1> HIDE DEF q
<1>3. /\ h \in Seq(1 .. Len(stream)) /\ Increasing(h)
      /\ \A n \in Range(h) : End(n) <= a
  BY DEF StationState
<1>4. t => \E m \in 1 .. Len(stream) + 1 : b = Start(m)
  <2> SUFFICES ASSUME t
               PROVE  \E m \in 1 .. Len(stream) + 1 : b = Start(m)
    OBVIOUS
  <2>1. PICK n \in DOMAIN stream : End(n) = b
    BY Zenon
  <2>2. n \in 1 .. Len(stream)
    OBVIOUS
  <2>3. b = Start(n + 1) /\ n + 1 \in 1 .. Len(stream) + 1
    BY <2>1, <2>2, Layout
  <2> QED
    BY <2>3
<1>5. ASSUME t, "junk" \notin Kinds
      PROVE  /\ Range(All(q)) = ArrivedBy(b)
             /\ \A i \in DOMAIN q : IsMessage(q[i])
  <2>1. PICK m \in 1 .. Len(stream) + 1 : a = Start(m)
    BY <1>5 DEF StationState
  <2>2. PICK k \in 1 .. Len(stream) + 1 : b = Start(k)
    BY <1>4, <1>5
  <2>3. m \in 1 .. k
    <3>1. k < m => Start(k) < Start(m)
      BY Layout
    <3> QED
      BY <1>1, <2>1, <2>2, <3>1
  <2>4. Batch(q, m, b)
    BY <1>5, <2>1, <2>2, <2>3, ObjectsBatch DEF q
  <2>5. \A i \in DOMAIN q : q[i] \in 1 .. Len(stream)
    BY <2>4 DEF Batch
  <2>6. \A n \in Range(q) : IsMessage(n)
    BY <2>5 DEF Range, IsMessage, NoMessage
  <2>7. Range(All(q)) = Range(h) \union Range(q)
    <3>1. Range(All(q)) = Range(h) \union {n \in Range(q) : IsMessage(n)}
      BY <1>1, <1>2, <1>3, StationHandles
    <3> HIDE DEF All
    <3> QED
      BY <2>6, <3>1
  <2>8. Range(h) = ArrivedBy(a)
    BY <1>5 DEF StationState
  <2>9. ArrivedBy(b) = ArrivedBy(a) \union GoodFrom(m, b)
    <3>1. Start(m) <= a
      BY <2>1
    <3> QED
      BY <1>1, <3>1, ArrivedSplit
  <2>10. Range(q) = GoodFrom(m, b)
    BY <2>4 DEF Batch
  <2> HIDE DEF All
  <2> QED
    BY <2>5, <2>6, <2>7, <2>8, <2>9, <2>10 DEF Range
<1>6. StationState(All(q), b, t)
  <2>1. /\ All(q) \in Seq(1 .. Len(stream)) /\ Increasing(All(q))
        /\ \A n \in Range(All(q)) : End(n) <= b
    BY <1>1, <1>2, <1>3, StationHandles
  <2> HIDE DEF All
  <2> QED
    BY <1>4, <1>5, <2>1 DEF StationState
<1>7. ASSUME NEW i \in DOMAIN q, ~ IsMessage(q[i])
      PROVE  StationState(All(SubSeq(q, 1, i)), b, t)
  <2> DEFINE r == SubSeq(q, 1, i)
  <2>1. Sound(r, a, b)
    BY <1>2, SoundPrefix
  <2> HIDE DEF r
  <2>2. /\ All(r) \in Seq(1 .. Len(stream)) /\ Increasing(All(r))
        /\ \A n \in Range(All(r)) : End(n) <= b
    BY <1>1, <1>3, <2>1, StationHandles
  <2>3. t => "junk" \in Kinds
    BY <1>5, <1>7
  <2>4. StationState(All(r), b, t)
    <3> HIDE DEF All
    <3> QED
      BY <1>4, <2>2, <2>3 DEF StationState
  <2> QED
    BY <2>4 DEF r
<1> QED
  BY <1>6, <1>7 DEF q

(* One read keeps an Application Center's part.                            *)
LEMMA CenterStep ==
  ASSUME stream \in Seq(Units), "double" \notin Kinds,
         "junk" \notin Kinds, NEW a \in Nat,
         NEW b \in a + 1 .. StreamEnd, NEW h, NEW f, CenterState(h, f, a)
  PROVE  LET q == DecodeFrames(f, b)
         IN  CenterState(h \o q, Remaining(f, b, Len(q)), b)
<1> DEFINE N == Len(stream)
           q == DecodeFrames(f, b)
<1>1. PICK m \in 1 .. N + 1 :
        /\ f = Start(m)
        /\ f <= a
        /\ "bad" \notin Kinds => m = N + 1 \/ End(m) > a
  BY DEF CenterState
<1>2. /\ h \in Seq(1 .. N)
      /\ Range(h) = ArrivedBy(a)
      /\ "bad" \notin Kinds => Increasing(h)
  BY DEF CenterState
<1>3. b \in Nat /\ a <= b /\ f \in Nat /\ f <= b /\ b <= StreamEnd
  <2>1. StreamEnd \in Nat /\ Start(m) \in Nat
    <3>1. N + 1 \in 1 .. N + 1
      OBVIOUS
    <3> QED
      BY <3>1, Layout DEF StreamEnd
  <2> QED
    BY <1>1, <2>1
<1>4. Batch(q, m, b)
  BY <1>1, <1>3, FramesBatch
<1> HIDE DEF q
<1>5. /\ q \in Seq(1 .. N) /\ Len(q) \in Nat
      /\ Range(q) = GoodFrom(m, b) /\ Increasing(q)
      /\ \A i \in DOMAIN q : q[i] >= m + i - 1
      /\ "bad" \notin Kinds => m + Len(q) = N + 1 \/ End(m + Len(q)) > b
  BY <1>4 DEF Batch
<1>6. m + Len(q) \in 1 .. N + 1 /\ Start(m + Len(q)) <= b
  <2>1. CASE Len(q) = 0
    BY <1>1, <1>3, <2>1
  <2>2. CASE Len(q) # 0
    <3> DEFINE n == m + Len(q) - 1
               l == q[Len(q)]
    <3>1. Len(q) \in DOMAIN q
      BY <1>5, <2>2
    <3>2. l \in 1 .. N /\ l >= n /\ l \in Range(q)
      BY <1>5, <3>1 DEF Range
    <3>3. End(l) <= b
      BY <1>5, <3>2 DEF GoodFrom
    <3>4. n \in 1 .. N /\ n + 1 = m + Len(q)
      BY <1>5, <2>2, <3>2
    <3> HIDE DEF n, l
    <3>5. /\ End(l) = Start(l + 1) /\ Start(l + 1) \in Nat
          /\ Start(n + 1) \in Nat
          /\ n + 1 < l + 1 => Start(n + 1) < Start(l + 1)
      BY <3>2, <3>4, Layout
    <3>6. n = l \/ n + 1 < l + 1
      BY <3>2, <3>4
    <3>7. Start(n + 1) <= b
      BY <1>3, <3>3, <3>5, <3>6
    <3> QED
      BY <3>4, <3>7
  <2> QED
    BY <2>1, <2>2
<1>7. Remaining(f, b, Len(q)) = Start(m + Len(q))
  <2>1. m + Len(q) <= N + 1
    BY <1>5, <1>6
  <2> QED
    BY <1>1, <1>3, <1>5, <1>6, <2>1, RemainingSkips
<1>8. Range(h \o q) = ArrivedBy(b) /\ h \o q \in Seq(1 .. N)
  <2>1. Range(h \o q) = Range(h) \union Range(q) /\ h \o q \in Seq(1 .. N)
    <3>1. N \in Nat
      OBVIOUS
    <3> HIDE DEF N
    <3> QED
      BY <1>2, <1>5, <3>1, ConcatIncreasing
  <2>2. ArrivedBy(b) = ArrivedBy(a) \union GoodFrom(m, b)
    BY <1>1, <1>3, ArrivedSplit
  <2> QED
    BY <1>2, <1>5, <2>1, <2>2
<1>9. ASSUME "bad" \notin Kinds
      PROVE  Increasing(h \o q)
  <2>1. ASSUME NEW x \in Range(h), NEW y \in Range(q)
        PROVE  x < y
    <3>1. /\ x \in 1 .. N /\ End(x) <= a /\ y \in m .. N /\ y \in 1 .. N
      BY <1>2, <1>5 DEF ArrivedBy, GoodFrom
    <3>2. m \in 1 .. N /\ End(m) > a
      BY <1>1, <1>9, <3>1
    <3>3. x < m
      BY <3>1, <3>2, OrderedByEnd
    <3> QED
      BY <3>1, <3>2, <3>3
  <2>2. N \in Nat
    OBVIOUS
  <2> HIDE DEF N
  <2> QED
    BY <1>2, <1>5, <1>9, <2>1, <2>2, ConcatIncreasing
<1>10. CenterState(h \o q, Start(m + Len(q)), b)
  BY <1>5, <1>6, <1>8, <1>9 DEF CenterState
<1> QED
  BY <1>7, <1>10 DEF q

(* A position in the stream is a number.                                   *)
LEMMA NextType ==
  ASSUME stream \in Seq(Units), "double" \notin Kinds,
         to \in Nat, NEW b \in to + 1 .. StreamEnd
  PROVE  b \in Nat
  OBVIOUS

(* The stream is not changed, so the parts of the invariant are those of   *)
(* the new values.                                                         *)
LEMMA SameStream ==
  ASSUME stream' = stream
  PROVE  /\ \A n : End(n)' = End(n)
         /\ Kinds' = Kinds
         /\ Arrived' = ArrivedBy(to')
         /\ StationState(handled, to, inStep)'
              <=> StationState(handled', to', inStep')
         /\ CenterState(handled, from, to)'
              <=> CenterState(handled', from', to')
<1>1. \A n : Start(n)' = Start(n)
  BY StartKept
<1>2. \A n : End(n)' = End(n)
  BY <1>1 DEF End
<1>3. Kinds' = Kinds
  BY DEF Kinds
<1>4. Arrived' = ArrivedBy(to')
  BY <1>2 DEF Arrived, ArrivedBy
<1>5. ArrivedBy(to)' = ArrivedBy(to')
  BY <1>2 DEF ArrivedBy
<1>6. Increasing(handled)' = Increasing(handled')
  BY DEF Increasing
<1>7. StationState(handled, to, inStep)'
        <=> StationState(handled', to', inStep')
  BY <1>1, <1>2, <1>3, <1>5, <1>6 DEF StationState
<1>8. CenterState(handled, from, to)' <=> CenterState(handled', from', to')
  BY <1>1, <1>2, <1>3, <1>5, <1>6 DEF CenterState
<1> QED
  BY <1>2, <1>3, <1>4, <1>7, <1>8

(* The invariant holds at first.                                           *)
LEMMA InitFraming == FramingInit => FramingInv
<1> SUFFICES ASSUME FramingInit, "double" \notin Kinds
             PROVE  Framed
  BY DEF FramingInv
<1>1. /\ protocol \in {"bssci", "scaci"} /\ handled = <<>>
      /\ from = 0 /\ to = 0 /\ inStep = TRUE
  BY DEF FramingInit
<1>2. stream \in Seq(Units)
  <2>1. PICK n \in 0 .. MaxUnits : stream \in [1 .. n -> Units]
    BY DEF FramingInit, SeqOf
  <2>2. n \in Nat
    BY FramingAssumption
  <2> HIDE DEF Units
  <2> QED
    BY <2>1, <2>2
<1>3. 1 \in 1 .. Len(stream) + 1 /\ Start(1) = 0
  BY <1>2, Layout
<1>4. ASSUME NEW n \in DOMAIN stream
      PROVE  End(n) \in Nat /\ End(n) > 0
  <2>1. n \in 1 .. Len(stream)
    BY <1>2
  <2>2. Start(n) \in Nat /\ Start(n) < End(n) /\ End(n) \in Nat
    BY <1>2, <2>1, Layout
  <2> QED
    BY <2>2
<1>5. ArrivedBy(0) = {}
  BY <1>4 DEF ArrivedBy
<1>6. /\ <<>> \in Seq(1 .. Len(stream))
      /\ Range(<<>>) = {} /\ Increasing(<<>>)
  BY ShortSequences DEF Range, Increasing
<1>7. 1 = Len(stream) + 1 \/ End(1) > 0
  <2>1. 1 # Len(stream) + 1 => 1 \in DOMAIN stream
    BY <1>2
  <2> QED
    BY <1>4, <2>1
<1>8. StationState(<<>>, 0, TRUE)
  BY <1>3, <1>5, <1>6 DEF StationState
<1>9. CenterState(<<>>, 0, 0)
  <2>1. \E m \in 1 .. Len(stream) + 1 :
          /\ 0 = Start(m)
          /\ 0 <= 0
          /\ "bad" \notin Kinds => m = Len(stream) + 1 \/ End(m) > 0
    BY <1>3, <1>7
  <2> QED
    BY <1>5, <1>6, <2>1 DEF CenterState
<1> QED
  BY <1>1, <1>2, <1>8, <1>9 DEF Framed

(* A read of a base station's stream keeps it.                             *)
LEMMA ReadMessagesKeeps == FramingInv /\ ReadMessages => FramingInv'
<1> SUFFICES ASSUME Framed, ReadMessages, "double" \notin Kinds
             PROVE  Framed'
  BY SameStream DEF FramingInv, ReadMessages
<1>1. /\ protocol = "bssci" /\ protocol' = protocol /\ stream' = stream
      /\ stream \in Seq(Units) /\ to \in Nat
      /\ StationState(handled, to, inStep)
  BY DEF Framed, ReadMessages
<1>2. PICK b \in to + 1 .. StreamEnd, g \in {0, 1, StreamEnd} :
        /\ to' = b
        /\ \/ handled' = FoldLeft(Handle, handled, DecodeMessages(to, b, g))
           \/ \E i \in DOMAIN DecodeMessages(to, b, g) :
                /\ ~ IsMessage(DecodeMessages(to, b, g)[i])
                /\ handled' = FoldLeft(Handle, handled,
                                SubSeq(DecodeMessages(to, b, g), 1, i))
        /\ inStep' = (inStep /\ \E n \in DOMAIN stream : End(n) = b)
  BY DEF ReadMessages
<1>3. b \in Nat
  BY <1>1, NextType
<1>4. g \in Nat
  <2>1. Len(stream) + 1 \in 1 .. Len(stream) + 1
    BY <1>1
  <2> QED
    BY <1>1, <2>1, Layout DEF StreamEnd
<1>5. inStep' <=> (inStep /\ \E n \in DOMAIN stream : End(n) = b)
  BY <1>2
<1>6. StationState(handled', b, inStep')
  <2> DEFINE q == DecodeMessages(to, b, g)
  <2>1. /\ StationState(FoldLeft(Handle, handled, q), b, inStep')
        /\ \A i \in DOMAIN q :
             ~ IsMessage(q[i]) =>
               StationState(FoldLeft(Handle, handled, SubSeq(q, 1, i)), b,
                            inStep')
    BY <1>1, <1>4, <1>5, StationStep
  <2> QED
    BY <1>2, <2>1
<1>7. StationState(handled, to, inStep)'
  BY <1>1, <1>2, <1>6, SameStream
<1>8. inStep' \in BOOLEAN
  BY <1>2
<1> QED
  BY <1>1, <1>2, <1>3, <1>7, <1>8 DEF Framed, Units

(* A read of an Application Center's stream keeps it.                      *)
LEMMA ReadFramesKeeps == FramingInv /\ ReadFrames => FramingInv'
<1> SUFFICES ASSUME Framed, ReadFrames, "double" \notin Kinds
             PROVE  Framed'
  BY SameStream DEF FramingInv, ReadFrames
<1>1. /\ protocol = "scaci" /\ protocol' = protocol /\ stream' = stream
      /\ stream \in Seq(Units) /\ to \in Nat
      /\ "junk" \notin Kinds => CenterState(handled, from, to)
  BY DEF Framed, ReadFrames
<1>2. PICK b \in to + 1 .. StreamEnd :
        /\ to' = b
        /\ from' = Remaining(from, b, Len(DecodeFrames(from, b)))
        /\ handled' = handled \o DecodeFrames(from, b)
        /\ inStep' = (inStep /\ \E n \in DOMAIN stream : End(n) = b)
  BY DEF ReadFrames
<1>3. b \in Nat
  BY <1>1, NextType
<1>4. ASSUME "junk" \notin Kinds
      PROVE  CenterState(handled', from', b)
  BY <1>1, <1>2, <1>4, CenterStep
<1>5. /\ Kinds' = Kinds
      /\ CenterState(handled, from, to)'
           <=> CenterState(handled', from', to')
  BY <1>1, SameStream
<1>6. inStep' \in BOOLEAN
  BY <1>2
<1> QED
  BY <1>1, <1>2, <1>3, <1>4, <1>5, <1>6 DEF Framed, Units

(* A stuttering step keeps it.                                             *)
LEMMA FramingUnchanged ==
  FramingInv /\ UNCHANGED framingVars => FramingInv'
<1> SUFFICES ASSUME Framed, UNCHANGED framingVars
             PROVE  Framed'
  BY SameStream DEF FramingInv, framingVars
<1>1. /\ protocol' = protocol /\ stream' = stream /\ from' = from
      /\ to' = to /\ handled' = handled /\ inStep' = inStep
  BY DEF framingVars
<1>2. /\ Kinds' = Kinds
      /\ StationState(handled, to, inStep)'
           <=> StationState(handled, to, inStep)
      /\ CenterState(handled, from, to)' <=> CenterState(handled, from, to)
  BY <1>1, SameStream
<1> QED
  BY <1>1, <1>2 DEF Framed, Units

(* It says what the two properties do.                                     *)
LEMMA Unscathed ==
  FramingInv => StationMessagesInStep /\ CenterMessagesComplete
<1>1. Arrived = ArrivedBy(to) /\ (HandledInOrder <=> Increasing(handled))
  BY DEF Arrived, ArrivedBy, HandledInOrder, Increasing
<1> QED
  BY <1>1 DEF FramingInv, Framed, StationState, CenterState,
         StationMessagesInStep, CenterMessagesComplete

(* The invariant holds in every behaviour.                                 *)
THEOREM FramingInvariance == FramingSpec => []FramingInv
<1>1. FramingInv /\ [FramingNext]_framingVars => FramingInv'
  BY ReadMessagesKeeps, ReadFramesKeeps, FramingUnchanged DEF FramingNext
<1> QED
  BY <1>1, InitFraming, PTL DEF FramingSpec

(* For any stream of frames, with one message or none, and other bytes,    *)
(* and any reads: a base station's messages are handled at most once and   *)
(* in the order they were sent, and all of them are while every read ends  *)
(* where a frame does (decode_messages).                                   *)
THEOREM StationMessagesHandled == FramingSpec => []StationMessagesInStep
  BY FramingInvariance, Unscathed, PTL

(* For any stream of frames, with one message or none, and any reads: all  *)
(* of an Application Center's messages that have arrived have been         *)
(* handled, each once and in order if every frame holds one                *)
(* (decode_frames, _remaining_buf).                                        *)
THEOREM CenterMessagesHandled == FramingSpec => []CenterMessagesComplete
  BY FramingInvariance, Unscathed, PTL
=============================================================================
