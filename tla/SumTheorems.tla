----------------------------- MODULE SumTheorems -----------------------------
(***************************************************************************)
(* Sums over a finite set. A sum is a choice of a function; what it comes  *)
(* to follows by taking a least subset at which it would not.              *)
(***************************************************************************)
EXTENDS Integers, FiniteSetsExt, FiniteSetTheorems, WellFoundedInduction, TLAPS

SumOf(w, S) == MapThenSumSet(LAMBDA x : w[x], S)

First(S) == CHOOSE x \in S : TRUE
Sums(g, w, S) ==
    g = [s \in SUBSET S |-> IF s = {} THEN 0 ELSE w[First(s)] + g[s \ {First(s)}]]

\* A sum is the value of a function that was chosen.
LEMMA SumIsChosen ==
    ASSUME NEW w, NEW S
    PROVE  SumOf(w, S) = (CHOOSE g : Sums(g, w, S))[S]
BY DEF SumOf, Sums, First, MapThenSumSet, MapThenFoldSet

\* Among subsets of a finite set, some has none below it.
LEMMA LeastSubset ==
    ASSUME NEW D, IsFiniteSet(D), NEW T, T \subseteq SUBSET D, T # {}
    PROVE  \E m \in T : \A s \in T : s \subseteq m => s = m
<1>1. IsWellFoundedOn(StrictSubsetOrdering(D), FiniteSubsetsOf(D))
  BY FS_StrictSubsetOrderingWellFounded
<1>2. FiniteSubsetsOf(D) = SUBSET D
  BY FS_FiniteSubsetsOfFinite
<1>3. PICK m \in T : \A s \in T : <<s, m>> \notin StrictSubsetOrdering(D)
  BY <1>1, <1>2, WFMin
<1>4. QED
  BY <1>3 DEF StrictSubsetOrdering

\* The first member is a member.
LEMMA FirstIn == ASSUME NEW S, S # {} PROVE First(S) \in S
BY DEF First

\* Two such functions agree wherever both are defined.
LEMMA SumsAgree ==
    ASSUME NEW D, IsFiniteSet(D), NEW w, NEW g, NEW h,
           NEW R \in SUBSET D, NEW S \in SUBSET D, Sums(g, w, R), Sums(h, w, S),
           NEW s, s \subseteq R, s \subseteq S
    PROVE  g[s] = h[s]
<1> DEFINE T == {u \in SUBSET D : u \subseteq R /\ u \subseteq S /\ g[u] # h[u]}
<1>1. SUFFICES ASSUME T # {} PROVE FALSE
  OBVIOUS
<1>2. PICK m \in T : \A u \in T : u \subseteq m => u = m
  <2>1. T \subseteq SUBSET D
    OBVIOUS
  <2> HIDE DEF T
  <2>2. QED
    BY <1>1, <2>1, LeastSubset
<1>3. /\ g[m] = IF m = {} THEN 0 ELSE w[First(m)] + g[m \ {First(m)}]
      /\ h[m] = IF m = {} THEN 0 ELSE w[First(m)] + h[m \ {First(m)}]
  BY <1>2 DEF Sums
<1>4. m # {} /\ g[m \ {First(m)}] # h[m \ {First(m)}]
  BY <1>2, <1>3
<1>5. m \ {First(m)} \in T
  BY <1>2, <1>4
<1>6. m \ {First(m)} = m
  BY <1>2, <1>5
<1>7. QED
  BY <1>4, <1>6, FirstIn

\* There is such a function.
LEMMA SumsExist ==
    ASSUME NEW D, IsFiniteSet(D), NEW w, NEW S \in SUBSET D
    PROVE  \E g : Sums(g, w, S)
<1> DEFINE T == {u \in SUBSET D : ~\E g : Sums(g, w, u)}
<1>1. SUFFICES ASSUME T # {} PROVE FALSE
  OBVIOUS
<1>2. PICK m \in T : \A u \in T : u \subseteq m => u = m
  <2>1. T \subseteq SUBSET D
    OBVIOUS
  <2> HIDE DEF T
  <2>2. QED
    BY <1>1, <2>1, LeastSubset
<1> DEFINE G(u) == CHOOSE g : Sums(g, w, u)
           Step(u) == IF u = {} THEN 0 ELSE w[First(u)] + G(u \ {First(u)})[u \ {First(u)}]
           h == [u \in SUBSET m |-> Step(u)]
<1>3. ASSUME NEW u \in SUBSET m, u # m
      PROVE  Sums(G(u), w, u)
  <2>1. u \notin T
    BY <1>2, <1>3
  <2>2. \E g : Sums(g, w, u)
    BY <2>1, <1>2
  <2>3. QED
    BY <2>2
<1> HIDE DEF G
<1>4. ASSUME NEW u \in SUBSET m, u # {}
      PROVE  G(u \ {First(u)})[u \ {First(u)}] = h[u \ {First(u)}]
  <2> DEFINE v == u \ {First(u)}
  <2>1. v \in SUBSET m /\ v # m
    BY <1>4, FirstIn
  <2>2. Sums(G(v), w, v)
    BY <2>1, <1>3
  <2>3. G(v)[v] = IF v = {} THEN 0 ELSE w[First(v)] + G(v)[v \ {First(v)}]
    BY <2>2 DEF Sums
  <2>4. CASE v = {}
    BY <2>1, <2>3, <2>4
  <2>5. CASE v # {}
    <3>1. v \ {First(v)} \in SUBSET m /\ v \ {First(v)} # m
      BY <2>1
    <3>2. Sums(G(v \ {First(v)}), w, v \ {First(v)})
      BY <3>1, <1>3
    <3>3. G(v)[v \ {First(v)}] = G(v \ {First(v)})[v \ {First(v)}]
      BY <2>1, <2>2, <3>1, <3>2, <1>2, SumsAgree
    <3>4. QED
      BY <2>1, <2>3, <2>5, <3>3
  <2>6. QED
    BY <2>4, <2>5
<1>5. h = [u \in SUBSET m |-> IF u = {} THEN 0 ELSE w[First(u)] + h[u \ {First(u)}]]
  BY <1>4
<1>6. Sums(h, w, m)
  BY <1>5 DEF Sums
<1>7. QED
  BY <1>2, <1>6

\* A sum is its first term and the rest.
LEMMA SumStep ==
    ASSUME NEW D, IsFiniteSet(D), NEW w, NEW S \in SUBSET D
    PROVE  /\ S = {} => SumOf(w, S) = 0
           /\ S # {} => SumOf(w, S) = w[First(S)] + SumOf(w, S \ {First(S)})
<1> DEFINE G(u) == CHOOSE g : Sums(g, w, u)
<1>1. \A u \in SUBSET D : Sums(G(u), w, u)
  BY SumsExist
<1>2. \A u : SumOf(w, u) = G(u)[u]
  BY SumIsChosen
<1> HIDE DEF G
<1>3. G(S)[S] = IF S = {} THEN 0 ELSE w[First(S)] + G(S)[S \ {First(S)}]
  BY <1>1 DEF Sums
<1>4. G(S)[S \ {First(S)}] = G(S \ {First(S)})[S \ {First(S)}]
  BY <1>1, SumsAgree
<1>5. QED
  BY <1>2, <1>3, <1>4

\* A sum of naturals is one.
LEMMA SumIsNat ==
    ASSUME NEW D, IsFiniteSet(D), NEW w, \A x \in D : w[x] \in Nat, NEW S \in SUBSET D
    PROVE  SumOf(w, S) \in Nat
<1> DEFINE T == {u \in SUBSET D : SumOf(w, u) \notin Nat}
<1>1. SUFFICES ASSUME T # {} PROVE FALSE
  OBVIOUS
<1>2. PICK m \in T : \A u \in T : u \subseteq m => u = m
  <2>1. T \subseteq SUBSET D
    OBVIOUS
  <2> HIDE DEF T
  <2>2. QED
    BY <1>1, <2>1, LeastSubset
<1>3. /\ m = {} => SumOf(w, m) = 0
      /\ m # {} => SumOf(w, m) = w[First(m)] + SumOf(w, m \ {First(m)})
  <2>1. m \in SUBSET D
    OBVIOUS
  <2> HIDE DEF T
  <2>2. QED
    BY <2>1, SumStep
<1>4. m # {}
  BY <1>2, <1>3
<1>5. First(m) \in m
  BY <1>4, FirstIn
<1>6. SumOf(w, m \ {First(m)}) \in Nat
  BY <1>2, <1>5
<1>7. QED
  BY <1>2, <1>3, <1>5, <1>6

\* A new member adds its term.
LEMMA SumAdds ==
    ASSUME NEW D, IsFiniteSet(D), NEW w, \A x \in D : w[x] \in Nat,
           NEW S \in SUBSET D, NEW a \in D, a \notin S
    PROVE  SumOf(w, S \union {a}) = SumOf(w, S) + w[a]
<1> DEFINE Fails(u) == \E b \in D \ u : SumOf(w, u \union {b}) # SumOf(w, u) + w[b]
           T == {u \in SUBSET D : Fails(u)}
<1>1. SUFFICES ASSUME T # {} PROVE FALSE
  OBVIOUS
<1>2. PICK m \in T : \A u \in T : u \subseteq m => u = m
  <2>1. T \subseteq SUBSET D
    OBVIOUS
  <2> HIDE DEF T
  <2>2. QED
    BY <1>1, <2>1, LeastSubset
<1>3. PICK b \in D \ m : SumOf(w, m \union {b}) # SumOf(w, m) + w[b]
  BY <1>2
<1> DEFINE v == m \union {b}
           f == First(v)
<1>4. v \in SUBSET D /\ f \in v
  BY <1>2, <1>3, FirstIn
<1>5. SumOf(w, v) = w[f] + SumOf(w, v \ {f})
  BY <1>4, SumStep
<1>6. SumOf(w, m) \in Nat /\ w[b] \in Nat /\ w[f] \in Nat
  BY <1>2, <1>3, <1>4, SumIsNat
<1>7. CASE f = b
  <2>1. v \ {f} = m
    BY <1>7, <1>3
  <2>2. SumOf(w, v) = w[b] + SumOf(w, m)
    BY <2>1, <1>5, <1>7
  <2> HIDE DEF f
  <2>3. QED
    BY <2>2, <1>3, <1>6
<1>8. CASE f # b
  <2> DEFINE r == m \ {f}
  <2>1. f \in m /\ r \in SUBSET D /\ f \in D /\ f \notin r /\ b \in D \ r
    BY <1>2, <1>3, <1>4, <1>8
  <2>2. r \notin T
    BY <1>2, <2>1
  <2>3. ~Fails(r)
    BY <2>1, <2>2
  <2>4. SumOf(w, r \union {b}) = SumOf(w, r) + w[b]
    BY <2>1, <2>3
  <2>5. SumOf(w, r \union {f}) = SumOf(w, r) + w[f]
    BY <2>1, <2>3
  <2>6. r \union {f} = m /\ v \ {f} = r \union {b}
    BY <2>1, <1>8
  <2>7. SumOf(w, r) \in Nat
    BY <2>1, SumIsNat
  <2>8. SumOf(w, v) = SumOf(w, m) + w[b]
    <3> HIDE DEF f, v, r
    <3>1. QED
      BY <2>4, <2>5, <2>6, <2>7, <1>5, <1>6
  <2>9. QED
    BY <2>8, <1>3
<1>9. QED
  BY <1>7, <1>8

\* Greater terms over more members sum to more.
LEMMA SumGrows ==
    ASSUME NEW D, IsFiniteSet(D), NEW v, \A x \in D : v[x] \in Nat,
           NEW w, \A x \in D : w[x] \in Nat,
           NEW R \in SUBSET D, NEW S \in SUBSET R, \A x \in S : v[x] <= w[x]
    PROVE  SumOf(v, S) <= SumOf(w, R)
<1> DEFINE Fails(u) == ~(SumOf(v, u \intersect S) <= SumOf(w, u))
           T == {u \in SUBSET D : Fails(u)}
<1>1. SUFFICES ASSUME T # {} PROVE FALSE
  <2>1. R \intersect S = S
    OBVIOUS
  <2>2. QED
    BY <2>1
<1>2. PICK m \in T : \A u \in T : u \subseteq m => u = m
  <2>1. T \subseteq SUBSET D
    OBVIOUS
  <2> HIDE DEF T
  <2>2. QED
    BY <1>1, <2>1, LeastSubset
<1>3. m # {}
  <2>1. SUFFICES ASSUME m = {} PROVE FALSE
    OBVIOUS
  <2>2. m \intersect S = {} /\ SumOf(v, {}) = 0 /\ SumOf(w, {}) = 0
    BY <2>1, SumStep
  <2>3. QED
    BY <2>1, <2>2, <1>2
<1> DEFINE f == First(m)
           r == m \ {f}
<1>4. f \in m /\ f \in D /\ f \notin r /\ r \in SUBSET D /\ m = r \union {f}
  BY <1>2, <1>3, FirstIn
<1>5. ~Fails(r)
  BY <1>2, <1>4
<1>6. SumOf(w, m) = SumOf(w, r) + w[f]
  BY <1>4, SumAdds
<1>7. /\ SumOf(w, r) \in Nat /\ SumOf(v, r \intersect S) \in Nat
      /\ v[f] \in Nat /\ w[f] \in Nat
  BY <1>4, SumIsNat
<1>8. SumOf(v, m \intersect S) <= SumOf(v, r \intersect S) + w[f]
  <2>1. CASE f \in S
    <3>1. m \intersect S = (r \intersect S) \union {f}
      BY <2>1, <1>4
    <3>2. SumOf(v, m \intersect S) = SumOf(v, r \intersect S) + v[f]
      BY <3>1, <1>4, SumAdds
    <3>3. v[f] <= w[f]
      BY <2>1
    <3> HIDE DEF f, r
    <3>4. QED
      BY <3>2, <3>3, <1>7
  <2>2. CASE f \notin S
    <3>1. m \intersect S = r \intersect S
      BY <2>2, <1>4
    <3>2. SumOf(v, m \intersect S) = SumOf(v, r \intersect S)
      BY <3>1
    <3> HIDE DEF f, r
    <3>3. QED
      BY <3>2, <1>7
  <2>3. QED
    BY <2>1, <2>2
<1>9. SumOf(v, m \intersect S) \in Nat /\ SumOf(w, m) \in Nat
  BY <1>2, SumIsNat
<1>10. SumOf(v, m \intersect S) <= SumOf(w, m)
  <2> HIDE DEF f, r
  <2>1. SumOf(v, r \intersect S) <= SumOf(w, r)
    BY <1>5
  <2>2. QED
    BY <2>1, <1>6, <1>7, <1>8, <1>9
<1>11. QED
  BY <1>2, <1>10

\* Changing one term changes the sum by as much.
LEMMA SumChanges ==
    ASSUME NEW D, IsFiniteSet(D), NEW v, \A x \in D : v[x] \in Nat,
           NEW w, \A x \in D : w[x] \in Nat,
           NEW a \in D, \A x \in D \ {a} : v[x] = w[x]
    PROVE  SumOf(w, D) = SumOf(v, D) - v[a] + w[a]
<1> DEFINE r == D \ {a}
<1>1. r \in SUBSET D /\ a \notin r /\ D = r \union {a}
  OBVIOUS
<1>2. SumOf(v, D) = SumOf(v, r) + v[a] /\ SumOf(w, D) = SumOf(w, r) + w[a]
  <2>1. SumOf(v, r \union {a}) = SumOf(v, r) + v[a]
    BY <1>1, SumAdds
  <2>2. SumOf(w, r \union {a}) = SumOf(w, r) + w[a]
    BY <1>1, SumAdds
  <2>3. QED
    BY <1>1, <2>1, <2>2
<1>3. SumOf(v, r) \in Nat /\ SumOf(w, r) \in Nat
  BY <1>1, SumIsNat
<1>4. SumOf(v, r) <= SumOf(w, r) /\ SumOf(w, r) <= SumOf(v, r)
  BY <1>1, SumGrows
<1>5. QED
  <2> HIDE DEF r
  <2>1. QED
    BY <1>2, <1>3, <1>4

\* Terms of nothing may be left out.
LEMMA SumSkips ==
    ASSUME NEW D, IsFiniteSet(D), NEW v, \A x \in D : v[x] \in Nat,
           NEW S \in SUBSET D, NEW R \in SUBSET S, \A x \in S \ R : v[x] = 0
    PROVE  SumOf(v, S) = SumOf(v, R)
<1> DEFINE Fails(u) == SumOf(v, u) # SumOf(v, u \intersect R)
           T == {u \in SUBSET D : u \subseteq S /\ Fails(u)}
<1>1. SUFFICES ASSUME T # {} PROVE FALSE
  <2>1. S \intersect R = R
    OBVIOUS
  <2>2. QED
    BY <2>1
<1>2. PICK m \in T : \A u \in T : u \subseteq m => u = m
  <2>1. T \subseteq SUBSET D
    OBVIOUS
  <2> HIDE DEF T
  <2>2. QED
    BY <1>1, <2>1, LeastSubset
<1>3. m # {}
  <2>1. SUFFICES ASSUME m = {} PROVE FALSE
    OBVIOUS
  <2>2. m \intersect R = m
    BY <2>1
  <2>3. QED
    BY <2>2, <1>2
<1> DEFINE f == First(m)
           r == m \ {f}
<1>4. f \in m /\ f \in D /\ f \notin r /\ r \in SUBSET D /\ m = r \union {f} /\ f \in S
  BY <1>2, <1>3, FirstIn
<1>5. SumOf(v, r) = SumOf(v, r \intersect R)
  BY <1>2, <1>4
<1>6. SumOf(v, m) = SumOf(v, r) + v[f]
  <2>1. SumOf(v, r \union {f}) = SumOf(v, r) + v[f]
    <3> HIDE DEF T, f, r
    <3>1. QED
      BY <1>4, SumAdds
  <2>2. QED
    BY <1>4, <2>1
<1>7. SumOf(v, r) \in Nat
  BY <1>4, SumIsNat
<1>8. CASE f \in R
  <2>1. m \intersect R = (r \intersect R) \union {f} /\ r \intersect R \in SUBSET D
        /\ f \notin r \intersect R
    BY <1>4, <1>8
  <2>2. SumOf(v, (r \intersect R) \union {f}) = SumOf(v, r \intersect R) + v[f]
    BY <1>4, <2>1, SumAdds
  <2> HIDE DEF f, r
  <2>3. SumOf(v, m) = SumOf(v, m \intersect R)
    BY <1>5, <1>6, <2>1, <2>2
  <2>4. QED
    BY <1>2, <2>3
<1>9. CASE f \notin R
  <2>1. m \intersect R = r \intersect R /\ v[f] = 0
    BY <1>4, <1>9
  <2> HIDE DEF f, r, T
  <2>2. SumOf(v, r) + v[f] = SumOf(v, r)
    BY <1>7, <2>1
  <2>3. SumOf(v, m \intersect R) = SumOf(v, r \intersect R)
    BY <2>1
  <2>4. SumOf(v, m) = SumOf(v, m \intersect R)
    BY <1>5, <1>6, <2>2, <2>3
  <2>5. QED
    BY <1>2, <2>4 DEF T
<1>10. QED
  BY <1>8, <1>9

\* The sum of two terms each is the two sums.
LEMMA SumSplits ==
    ASSUME NEW D, IsFiniteSet(D), NEW v, \A x \in D : v[x] \in Nat,
           NEW w, \A x \in D : w[x] \in Nat,
           NEW z, \A x \in D : z[x] = v[x] + w[x], NEW S \in SUBSET D
    PROVE  SumOf(z, S) = SumOf(v, S) + SumOf(w, S)
<1> DEFINE Fails(u) == SumOf(z, u) # SumOf(v, u) + SumOf(w, u)
           T == {u \in SUBSET D : Fails(u)}
<1>1. SUFFICES ASSUME T # {} PROVE FALSE
  OBVIOUS
<1>2. PICK m \in T : \A u \in T : u \subseteq m => u = m
  <2>1. T \subseteq SUBSET D
    OBVIOUS
  <2> HIDE DEF T
  <2>2. QED
    BY <1>1, <2>1, LeastSubset
<1>3. m # {}
  <2>1. SUFFICES ASSUME m = {} PROVE FALSE
    OBVIOUS
  <2>2. SumOf(z, {}) = 0 /\ SumOf(v, {}) = 0 /\ SumOf(w, {}) = 0
    BY SumStep
  <2>3. QED
    BY <2>1, <2>2, <1>2
<1> DEFINE f == First(m)
           r == m \ {f}
<1>4. f \in m /\ f \in D /\ f \notin r /\ r \in SUBSET D /\ m = r \union {f}
  BY <1>2, <1>3, FirstIn
<1>5. SumOf(z, r) = SumOf(v, r) + SumOf(w, r)
  BY <1>2, <1>4
<1>6. \A x \in D : z[x] \in Nat
  OBVIOUS
<1>7. /\ SumOf(z, m) = SumOf(z, r) + z[f]
      /\ SumOf(v, m) = SumOf(v, r) + v[f]
      /\ SumOf(w, m) = SumOf(w, r) + w[f]
  BY <1>4, <1>6, SumAdds
<1>8. /\ SumOf(v, r) \in Nat /\ SumOf(w, r) \in Nat
      /\ v[f] \in Nat /\ w[f] \in Nat /\ z[f] = v[f] + w[f]
  BY <1>4, SumIsNat
<1>9. ~Fails(m)
  <2> HIDE DEF f, r
  <2>1. QED
    BY <1>5, <1>7, <1>8
<1>10. QED
  BY <1>2, <1>9

\* One more term, of c at the most, adds c at the most.
LEMMA OneMore ==
    ASSUME NEW D, IsFiniteSet(D), NEW v, \A x \in D : v[x] \in Nat,
           NEW w, \A x \in D : w[x] \in Nat,
           NEW S \in SUBSET D, NEW R \in SUBSET D, NEW a \in D, NEW c \in Nat,
           R \subseteq S \union {a}, a \in R => w[a] <= c, \A x \in R \ {a} : w[x] <= v[x]
    PROVE  SumOf(w, R) <= SumOf(v, S) + c
<1> DEFINE r == R \ {a}
<1>1. r \in SUBSET S /\ r \in SUBSET D /\ a \notin r
  OBVIOUS
<1>2. SumOf(w, r) <= SumOf(v, S)
  BY <1>1, SumGrows
<1>3. SumOf(w, R) <= SumOf(w, r) + c
  <2>1. CASE a \in R
    <3>1. R = r \union {a}
      BY <2>1
    <3>2. SumOf(w, r \union {a}) = SumOf(w, r) + w[a]
      BY <1>1, SumAdds
    <3>3. SumOf(w, r) \in Nat /\ w[a] \in Nat
      BY <1>1, SumIsNat
    <3> HIDE DEF r
    <3>4. QED
      BY <3>1, <3>2, <3>3
  <2>2. CASE a \notin R
    <3>1. R = r
      BY <2>2
    <3>2. SumOf(w, r) \in Nat /\ w[a] \in Nat
      BY <1>1, SumIsNat
    <3> HIDE DEF r
    <3>3. QED
      BY <3>1, <3>2
  <2>3. QED
    BY <2>1, <2>2
<1>4. /\ SumOf(w, r) \in Nat /\ SumOf(v, S) \in Nat /\ SumOf(w, R) \in Nat
      /\ w[a] \in Nat
  BY <1>1, SumIsNat
<1> HIDE DEF r
<1>5. QED
  BY <1>2, <1>3, <1>4

\* A set of natural numbers has a least one.
LEMMA LeastNumber ==
    ASSUME NEW S, S \subseteq Nat, S # {}
    PROVE  Min(S) \in S /\ \A y \in S : Min(S) <= y
<1>1. PICK k \in S : TRUE
  OBVIOUS
<1> DEFINE D == 0..k
           T == {0..x : x \in {y \in S : y <= k}}
<1>2. IsFiniteSet(D)
  BY <1>1, FS_Interval
<1>3. T \subseteq SUBSET D /\ T # {}
  BY <1>1
<1>4. PICK m \in T : \A u \in T : u \subseteq m => u = m
  <2> HIDE DEF T, D
  <2>1. QED
    BY <1>2, <1>3, LeastSubset
<1>5. PICK x \in S : x <= k /\ m = 0..x
  BY <1>4
<1>6. ASSUME NEW y \in S PROVE x <= y
  <2>1. SUFFICES ASSUME y < x PROVE FALSE
    BY <1>5, <1>6
  <2>2. y \in Nat /\ x \in Nat /\ k \in Nat
    BY <1>1, <1>5, <1>6
  <2>3. 0..y \in T
    BY <1>5, <2>1, <2>2
  <2>4. 0..y \subseteq m
    BY <1>5, <2>1, <2>2
  <2>5. 0..y = 0..x
    BY <1>4, <1>5, <2>3, <2>4
  <2>6. x \in 0..y
    BY <2>2, <2>5
  <2>7. QED
    BY <2>1, <2>2, <2>6
<1>7. QED
  BY <1>5, <1>6 DEF Min

===============================================================================
