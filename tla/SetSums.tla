------------------------------ MODULE SetSums ------------------------------
(***************************************************************************)
(* Sums of natural numbers over a finite set, as MapThenSumSet of the      *)
(* community modules computes them: take an element out, add its number to *)
(* the sum of the rest.  What the recursion yields is shown by taking the  *)
(* smallest set on which it would fail, which needs no induction theorem   *)
(* with an operator as its parameter.                                      *)
(***************************************************************************)
EXTENDS Integers, FiniteSets, FiniteSetsExt, FiniteSetTheorems,
        WellFoundedInduction, TLAPS

(* The element that is taken out of s, and a function g that gives the sum *)
(* of a over every subset of S.                                            *)
Chosen(s) == CHOOSE x \in s : TRUE
Sums(a, S, g) ==
    g = [s \in SUBSET S |-> IF s = {} THEN 0 ELSE a[Chosen(s)] + g[s \ {Chosen(s)}]]

-----------------------------------------------------------------------------
(* A nonempty set of natural numbers has a least element.                  *)
LEMMA LeastNat ==
    ASSUME NEW T \in SUBSET Nat, T # {}
    PROVE  \E n \in T : \A m \in T : n <= m
<1> DEFINE R == OpToRel(<, Nat)
<1>1. IsWellFoundedOn(R, Nat)
  BY NatLessThanWellFounded
<1>2. \A m, n \in Nat : m < n => <<m, n>> \in R
  BY DEF OpToRel
<1> HIDE DEF R
<1>3. PICK n \in T : \A m \in T : ~(<<m, n>> \in R)
  BY <1>1, WFMin
<1>4. \A m \in T : ~(m < n)
  BY <1>2, <1>3
<1>5. \A m \in T : n <= m
  BY <1>4
<1> QED
  BY <1>5

(* The smallest of the finite subsets of S that violate a condition.       *)
LEMMA SmallestSet ==
    ASSUME NEW S, IsFiniteSet(S), NEW B \in SUBSET (SUBSET S), B # {}
    PROVE  \E s \in B : \A r \in SUBSET s : r # s => r \notin B
<1> DEFINE T == {Cardinality(s) : s \in B}
<1>1. \A s \in B : IsFiniteSet(s) /\ Cardinality(s) \in Nat
  BY FS_Subset, FS_CardinalityType
<1>2. T \in SUBSET Nat /\ T # {}
  BY <1>1
<1>3. PICK n \in T : \A m \in T : n <= m
  BY <1>2, LeastNat
<1>4. PICK s \in B : n = Cardinality(s)
  BY <1>3
<1>5. ASSUME NEW r \in SUBSET s, r # s PROVE r \notin B
  <2>1. Cardinality(r) <= Cardinality(s) /\ Cardinality(r) # Cardinality(s)
    <3>1. IsFiniteSet(s)
      BY <1>1, <1>4
    <3> QED
      BY <1>5, <3>1, FS_Subset
  <2>2. Cardinality(r) \in Nat /\ n \in Nat
    BY <1>1, <1>4, <1>5, FS_Subset, FS_CardinalityType
  <2> QED
    BY <1>3, <1>4, <2>1, <2>2
<1> QED
  BY <1>4, <1>5

(* The element a sum takes out first.                                      *)
LEMMA ChosenIn == ASSUME NEW s, s # {} PROVE Chosen(s) \in s
  BY DEF Chosen

(* A sum of natural numbers is one.                                        *)
LEMMA SumsNat ==
    ASSUME NEW S, IsFiniteSet(S), NEW a \in [S -> Nat], NEW g, Sums(a, S, g),
           NEW s \in SUBSET S
    PROVE  g[s] \in Nat
<1> DEFINE B == {r \in SUBSET S : g[r] \notin Nat}
<1>1. SUFFICES ASSUME B # {} PROVE FALSE
  OBVIOUS
<1>2. PICK r \in B : \A q \in SUBSET r : q # r => q \notin B
  <2>1. B \in SUBSET (SUBSET S)
    OBVIOUS
  <2> HIDE DEF B
  <2> QED
    BY <1>1, <2>1, SmallestSet
<1>3. g[r] = IF r = {} THEN 0 ELSE a[Chosen(r)] + g[r \ {Chosen(r)}]
  BY <1>2 DEF Sums
<1>4. r # {}
  BY <1>2, <1>3
<1>5. Chosen(r) \in r
  BY <1>4, ChosenIn
<1>6. r \ {Chosen(r)} \in SUBSET r /\ r \ {Chosen(r)} # r /\ r \in SUBSET S
  BY <1>2, <1>5
<1>7. g[r \ {Chosen(r)}] \in Nat /\ a[Chosen(r)] \in Nat
  BY <1>2, <1>5, <1>6
<1> QED
  BY <1>2, <1>3, <1>4, <1>7

(* Sums of two functions that differ in one place differ by as much.       *)
LEMMA SumsChange ==
    ASSUME NEW S, IsFiniteSet(S), NEW a \in [S -> Nat], NEW b \in [S -> Nat],
           NEW c \in S, \A x \in S : x # c => a[x] = b[x],
           NEW g, Sums(a, S, g), NEW h, Sums(b, S, h)
    PROVE  \A s \in SUBSET S :
              IF c \in s THEN h[s] + a[c] = g[s] + b[c] ELSE h[s] = g[s]
<1> DEFINE Good(s) == IF c \in s THEN h[s] + a[c] = g[s] + b[c] ELSE h[s] = g[s]
           B == {r \in SUBSET S : ~Good(r)}
<1> HIDE DEF Good
<1>1. SUFFICES ASSUME B # {} PROVE FALSE
  BY DEF Good
<1>2. PICK r \in B : \A q \in SUBSET r : q # r => q \notin B
  <2>1. B \in SUBSET (SUBSET S)
    OBVIOUS
  <2> HIDE DEF B
  <2> QED
    BY <1>1, <2>1, SmallestSet
<1> USE DEF Good
<1> DEFINE x == Chosen(r)
           q == r \ {Chosen(r)}
<1>3. /\ g[r] = IF r = {} THEN 0 ELSE a[x] + g[q]
      /\ h[r] = IF r = {} THEN 0 ELSE b[x] + h[q]
  BY <1>2 DEF Sums
<1>4. r # {}
  BY <1>2, <1>3
<1>5. x \in r
  BY <1>4, ChosenIn
<1>6. q \in SUBSET r /\ q # r /\ q \in SUBSET S /\ r \in SUBSET S
  BY <1>2, <1>5
<1>7. Good(q)
  BY <1>2, <1>6
<1>8. /\ a[x] \in Nat /\ b[x] \in Nat /\ a[c] \in Nat /\ b[c] \in Nat
      /\ g[q] \in Nat /\ h[q] \in Nat /\ x \in S
  BY <1>5, <1>6, SumsNat
<1>9. ~Good(r)
  BY <1>2
<1>10. CASE x = c
  <2>1. c \notin q /\ c \in r
    BY <1>5, <1>10
  <2>2. h[q] = g[q]
    BY <1>7, <2>1
  <2> HIDE DEF x, q
  <2>3. h[r] + a[c] = g[r] + b[c]
    BY <1>3, <1>4, <1>8, <1>10, <2>2
  <2> QED
    BY <1>9, <2>1, <2>3
<1>11. CASE x # c
  <2>1. c \in q <=> c \in r
    BY <1>11
  <2>2. a[x] = b[x]
    BY <1>8, <1>11
  <2> HIDE DEF x, q
  <2>3. CASE c \in q
    <3>1. h[q] + a[c] = g[q] + b[c]
      BY <1>7, <2>3
    <3>2. h[r] + a[c] = g[r] + b[c]
      BY <1>3, <1>4, <1>8, <2>2, <3>1
    <3> QED BY <1>9, <2>1, <2>3, <3>2
  <2>4. CASE c \notin q
    <3>1. h[q] = g[q]
      BY <1>7, <2>4
    <3>2. h[r] = g[r]
      BY <1>3, <1>4, <2>2, <3>1
    <3> QED BY <1>9, <2>1, <2>4, <3>2
  <2> QED BY <2>3, <2>4
<1> QED
  BY <1>10, <1>11

(* A sum of zeros is zero.                                                *)
LEMMA SumsZero ==
    ASSUME NEW S, IsFiniteSet(S), NEW a \in [S -> Nat], \A x \in S : a[x] = 0,
           NEW g, Sums(a, S, g), NEW s \in SUBSET S
    PROVE  g[s] = 0
<1> DEFINE B == {r \in SUBSET S : g[r] # 0}
<1>1. SUFFICES ASSUME B # {} PROVE FALSE
  OBVIOUS
<1>2. PICK r \in B : \A q \in SUBSET r : q # r => q \notin B
  <2>1. B \in SUBSET (SUBSET S)
    OBVIOUS
  <2> HIDE DEF B
  <2> QED
    BY <1>1, <2>1, SmallestSet
<1>3. g[r] = IF r = {} THEN 0 ELSE a[Chosen(r)] + g[r \ {Chosen(r)}]
  BY <1>2 DEF Sums
<1>4. r # {}
  BY <1>2, <1>3
<1>5. Chosen(r) \in r
  BY <1>4, ChosenIn
<1>6. r \ {Chosen(r)} \in SUBSET r /\ r \ {Chosen(r)} # r /\ r \in SUBSET S
  BY <1>2, <1>5
<1>7. g[r \ {Chosen(r)}] = 0 /\ a[Chosen(r)] = 0
  BY <1>2, <1>5, <1>6
<1> QED
  BY <1>2, <1>3, <1>4, <1>7

(* The recursion defines a function.                                       *)
LEMMA SumsExist ==
    ASSUME NEW S, IsFiniteSet(S), NEW a \in [S -> Nat]
    PROVE  \E g : Sums(a, S, g)
<1> DEFINE Step(g) == [s \in SUBSET S |->
                        IF s = {} THEN 0 ELSE a[Chosen(s)] + g[s \ {Chosen(s)}]]
           UpTo(n, g) == \A s \in SUBSET S : Cardinality(s) <= n => g[s] = Step(g)[s]
           T == {n \in Nat : ~\E g \in [SUBSET S -> Nat] : UpTo(n, g)}
<1>1. \A s \in SUBSET S : IsFiniteSet(s) /\ Cardinality(s) \in Nat
  BY FS_Subset, FS_CardinalityType
<1>2. ASSUME NEW s \in SUBSET S, s # {}
      PROVE  /\ Chosen(s) \in S /\ a[Chosen(s)] \in Nat
             /\ s \ {Chosen(s)} \in SUBSET S
             /\ Cardinality(s \ {Chosen(s)}) = Cardinality(s) - 1
  <2>1. Chosen(s) \in s
    BY <1>2, ChosenIn
  <2> QED
    BY <1>1, <2>1, FS_RemoveElement
<1>3. \A g \in [SUBSET S -> Nat] : Step(g) \in [SUBSET S -> Nat]
  BY <1>2
<1>4. 0 \notin T
  <2> DEFINE z == [s \in SUBSET S |-> 0]
  <2>1. ASSUME NEW s \in SUBSET S, Cardinality(s) <= 0 PROVE s = {}
    BY <1>1, <2>1, FS_EmptySet
  <2>2. UpTo(0, z)
    BY <2>1
  <2>3. z \in [SUBSET S -> Nat]
    OBVIOUS
  <2> HIDE DEF UpTo, z
  <2> QED
    BY <2>2, <2>3
<1>5. ASSUME NEW n \in Nat, n \notin T PROVE n + 1 \notin T
  <2>1. PICK g \in [SUBSET S -> Nat] : UpTo(n, g)
    BY <1>5
  <2> DEFINE h == Step(g)
  <2>2. h \in [SUBSET S -> Nat]
    BY <1>3
  <2>3. ASSUME NEW s \in SUBSET S, Cardinality(s) <= n + 1 PROVE h[s] = Step(h)[s]
    <3>1. CASE s = {}
      BY <3>1
    <3>2. CASE s # {}
      <4> DEFINE q == s \ {Chosen(s)}
      <4>1. q \in SUBSET S /\ Cardinality(q) <= n
        BY <1>1, <1>2, <2>3, <3>2
      <4>2. g[q] = h[q]
        BY <2>1, <4>1
      <4>3. h[s] = a[Chosen(s)] + g[q]
        BY <3>2
      <4>4. Step(h)[s] = a[Chosen(s)] + h[q]
        BY <3>2
      <4> QED
        BY <4>2, <4>3, <4>4
    <3> QED BY <3>1, <3>2
  <2>4. UpTo(n + 1, h)
    BY <2>3
  <2> HIDE DEF UpTo, h
  <2> QED
    BY <2>2, <2>4
<1>6. T = {}
  <2>1. SUFFICES ASSUME T # {} PROVE FALSE
    OBVIOUS
  <2>2. T \in SUBSET Nat
    OBVIOUS
  <2> HIDE DEF T
  <2>3. PICK n \in T : \A m \in T : n <= m
    BY <2>1, <2>2, LeastNat
  <2>4. n # 0 /\ n \in Nat
    BY <1>4, <2>2, <2>3
  <2>5. n - 1 \in Nat /\ (n - 1) + 1 = n /\ ~(n <= n - 1)
    BY <2>4
  <2>6. n - 1 \notin T
    BY <2>3, <2>5
  <2> QED
    BY <1>5, <2>3, <2>5, <2>6
<1>7. PICK g \in [SUBSET S -> Nat] : UpTo(Cardinality(S), g)
  <2>1. Cardinality(S) \in Nat
    BY <1>1
  <2> HIDE DEF UpTo
  <2> QED
    BY <1>6, <2>1
<1>8. \A s \in SUBSET S : g[s] = Step(g)[s]
  BY <1>7, FS_Subset
<1>9. g = Step(g)
  BY <1>8
<1> QED
  BY <1>9 DEF Sums
=============================================================================
