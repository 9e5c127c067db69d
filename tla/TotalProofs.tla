---------------------------- MODULE TotalProofs ----------------------------
(***************************************************************************)
(* What Total counts: it is 0 for nothing, grows and shrinks by one unit,  *)
(* and misses no unit.                                                     *)
(***************************************************************************)
EXTENDS Total, FiniteSetTheorems, Functions, TLAPS

\* The units of a function on a finite set.
LEMMA UnitsFinite ==
  ASSUME NEW S, IsFiniteSet(S), NEW h \in [S -> Nat]
  PROVE  /\ \A u : u \in Units(h) <=>
                     \E x \in S, i \in Nat : u = <<x, i>> /\ 1 <= i /\ i <= h[x]
         /\ IsFiniteSet(Units(h))
<1> DEFINE f == [x \in S |-> {x} \X (1 .. h[x])]
           C == {f[x] : x \in S}
<1>1. Units(h) = UNION C
  BY DEF Units
<1>2. IsFiniteSet(C)
  <2>1. f \in Surjection(S, C)
    BY DEF Surjection
  <2> QED
    BY <2>1, FS_Surjection
<1>3. ASSUME NEW x \in S PROVE IsFiniteSet(f[x])
  <2>1. IsFiniteSet({x})
    BY FS_Singleton
  <2>2. IsFiniteSet(1 .. h[x])
    BY FS_Interval
  <2> QED
    BY <2>1, <2>2, FS_Product
<1>4. \A T \in C : IsFiniteSet(T)
  BY <1>3
<1>5. IsFiniteSet(UNION C)
  <2> HIDE DEF C
  <2> QED
    BY <1>2, <1>4, FS_UNION
<1>6. \A u : u \in Units(h) <=>
               \E x \in S, i \in Nat : u = <<x, i>> /\ 1 <= i /\ i <= h[x]
  BY DEF Units
<1> QED
  BY <1>1, <1>5, <1>6

LEMMA TotalType ==
  ASSUME NEW S, IsFiniteSet(S), NEW h \in [S -> Nat]
  PROVE  Total(h) \in Nat
BY UnitsFinite, FS_CardinalityType DEF Total

\* Nothing is counted where there is nothing.
LEMMA TotalZero ==
  ASSUME NEW S, IsFiniteSet(S), NEW h \in [S -> Nat], \A x \in S : h[x] = 0
  PROVE  Total(h) = 0
<1>1. Units(h) = {}
  BY UnitsFinite
<1> QED
  BY <1>1, FS_EmptySet DEF Total

\* What one point holds is counted.
LEMMA TotalPositive ==
  ASSUME NEW S, IsFiniteSet(S), NEW h \in [S -> Nat],
         NEW x \in S, h[x] > 0
  PROVE  Total(h) > 0
<1>1. <<x, 1>> \in Units(h)
  BY UnitsFinite
<1>2. IsFiniteSet(Units(h)) /\ Total(h) \in Nat
  BY UnitsFinite, TotalType
<1> QED
  BY <1>1, <1>2, FS_EmptySet DEF Total

\* One unit more at x is one unit more in all.
LEMMA TotalRaised ==
  ASSUME NEW S, IsFiniteSet(S), NEW h \in [S -> Nat], NEW g \in [S -> Nat],
         NEW x \in S, g[x] = h[x] + 1, \A y \in S \ {x} : g[y] = h[y]
  PROVE  Total(g) = Total(h) + 1
<1> DEFINE new == <<x, h[x] + 1>>
<1>1. new \notin Units(h)
  BY UnitsFinite
<1>2. Units(g) = Units(h) \cup {new}
  <2>1. ASSUME NEW u \in Units(g) PROVE u \in Units(h) \cup {new}
    <3>1. PICK y \in S, i \in Nat : u = <<y, i>> /\ 1 <= i /\ i <= g[y]
      BY <2>1, UnitsFinite
    <3>2. CASE y = x /\ i = h[x] + 1
      BY <3>1, <3>2
    <3>3. CASE ~(y = x /\ i = h[x] + 1)
      <4>1. i <= h[y]
        BY <3>1, <3>3
      <4> QED
        BY <3>1, <4>1, UnitsFinite
    <3> QED
      BY <3>2, <3>3
  <2>2. ASSUME NEW u \in Units(h) PROVE u \in Units(g)
    <3>1. PICK y \in S, i \in Nat : u = <<y, i>> /\ 1 <= i /\ i <= h[y]
      BY <2>2, UnitsFinite
    <3>2. i <= g[y]
      BY <3>1
    <3> QED
      BY <3>1, <3>2, UnitsFinite
  <2>3. new \in Units(g)
    BY UnitsFinite
  <2> QED
    BY <2>1, <2>2, <2>3
<1>3. IsFiniteSet(Units(h))
  BY UnitsFinite
<1> QED
  BY <1>1, <1>2, <1>3, FS_AddElement DEF Total

\* Who holds nowhere more holds no more in all.
LEMMA TotalAtMost ==
  ASSUME NEW S, IsFiniteSet(S), NEW h \in [S -> Nat], NEW g \in [S -> Nat],
         \A x \in S : g[x] <= h[x]
  PROVE  Total(g) <= Total(h)
<1>1. ASSUME NEW u \in Units(g) PROVE u \in Units(h)
  <2>1. PICK x \in S, i \in Nat : u = <<x, i>> /\ 1 <= i /\ i <= g[x]
    BY <1>1, UnitsFinite
  <2>2. i <= h[x]
    BY <2>1
  <2> QED
    BY <2>1, <2>2, UnitsFinite
<1>2. IsFiniteSet(Units(h)) /\ Units(g) \in SUBSET Units(h)
  BY <1>1, UnitsFinite
<1> QED
  BY <1>2, FS_Subset DEF Total

\* What holds nothing but n units at x, n being 0 or 1.
LEMMA TotalOne ==
  ASSUME NEW S, IsFiniteSet(S), NEW h \in [S -> Nat], NEW x \in S,
         h[x] \in {0, 1}, \A y \in S \ {x} : h[y] = 0
  PROVE  Total(h) = h[x]
<1> DEFINE zero == [y \in S |-> 0]
<1>1. zero \in [S -> Nat] /\ Total(zero) = 0
  BY TotalZero
<1>2. CASE h[x] = 0
  BY <1>2, TotalZero
<1>3. CASE h[x] = 1
  <2>1. Total(h) = Total(zero) + 1
    BY <1>1, <1>3, TotalRaised
  <2> QED
    BY <1>1, <1>3, <2>1
<1> QED
  BY <1>2, <1>3
=============================================================================
