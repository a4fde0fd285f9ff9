---------------------------- MODULE SumTheorems ----------------------------
(***************************************************************************)
(* Facts about numbers, sums and joined sequences that both the tiles of    *)
(* the host and those of the cluster need: induction as the least           *)
(* counterexample, sums over 0 .. n-1, quotient and remainder, FlattenSeq.  *)
(***************************************************************************)
EXTENDS Matrices, SequencesExt, FiniteSetTheorems, TLAPS

-----------------------------------------------------------------------------
(* Numbers and sums. Induction over the numbers is the least counterexample of
   a set (LeastNat); sums over a range are then taken step by step. *)

(* A non-empty set of numbers has a least one. *)
LEMMA LeastNat ==
  ASSUME NEW T \in SUBSET Nat, T # {}
  PROVE  \E m \in T : \A n \in T : m <= n
<1> DEFINE Below(n) == 0 .. n-1
           U == {Below(n) : n \in T}
<1>1. U \subseteq FiniteSubsetsOf(Nat)
  <2> SUFFICES ASSUME NEW n \in T PROVE Below(n) \in FiniteSubsetsOf(Nat)
    OBVIOUS
  <2>1. n \in Int /\ n - 1 \in Int /\ 0 \in Int
    OBVIOUS
  <2>2. IsFiniteSet(Below(n))
    BY <2>1, FS_Interval
  <2> QED  BY <2>2 DEF FiniteSubsetsOf
<1>2. U # {}
  OBVIOUS
<1>3. IsWellFoundedOn(StrictSubsetOrdering(Nat), FiniteSubsetsOf(Nat))
  BY FS_StrictSubsetOrderingWellFounded
<1> HIDE DEF U
<1>4. PICK u \in U : \A v \in U : ~(<<v, u>> \in StrictSubsetOrdering(Nat))
  BY <1>1, <1>2, <1>3, WFMin
<1>5. PICK m \in T : u = Below(m)
  BY DEF U
<1>6. SUFFICES ASSUME NEW n \in T, ~(m <= n) PROVE FALSE
  OBVIOUS
<1>7. n < m /\ n \in Nat /\ m \in Nat
  BY <1>6
<1>8. Below(n) \subseteq Below(m) /\ n \in Below(m) /\ n \notin Below(n)
  BY <1>7
<1>9. Below(n) \in U
  BY DEF U
<1>10. Below(n) \subseteq Nat /\ Below(m) \subseteq Nat /\ Below(n) # Below(m)
  BY <1>7, <1>8
<1>11. <<Below(n), Below(m)>> \in StrictSubsetOrdering(Nat)
  BY <1>8, <1>10 DEF StrictSubsetOrdering
<1> QED BY <1>4, <1>5, <1>9, <1>11

(* Induction, for a set of numbers in the place of a predicate. *)
LEMMA Induction ==
  ASSUME NEW T \in SUBSET Nat, 0 \in T, \A n \in T : n + 1 \in T
  PROVE  T = Nat
<1> SUFFICES ASSUME Nat \ T # {} PROVE FALSE
  OBVIOUS
<1>1. PICK m \in Nat \ T : \A n \in Nat \ T : m <= n
  BY LeastNat
<1>2. m # 0 /\ m \in Nat
  OBVIOUS
<1>3. m - 1 \in Nat /\ ~(m <= m - 1) /\ m - 1 + 1 = m
  BY <1>2
<1>4. m - 1 \in T
  BY <1>1, <1>3
<1> QED BY <1>1, <1>3, <1>4
-----------------------------------------------------------------------------
Some(s) == CHOOSE x \in s : TRUE

(* The recursive function by which a sum over D is defined. *)
IsIter(g, f, D) ==
  g = [s \in SUBSET D |-> IF s = {} THEN 0 ELSE f[Some(s)] + g[s \ {Some(s)}]]

(* What CHOOSE picks of a set, and what is left is smaller. *)
LEMMA SomeIn == ASSUME NEW s, s # {} PROVE Some(s) \in s
BY DEF Some

LEMMA Smaller ==
  ASSUME NEW s, IsFiniteSet(s), NEW x \in s
  PROVE  /\ IsFiniteSet(s \ {x}) /\ Cardinality(s \ {x}) = Cardinality(s) - 1
         /\ Cardinality(s) \in Nat /\ Cardinality(s \ {x}) \in Nat
BY FS_RemoveElement, FS_CardinalityType

(* Such a function exists, by induction on the size of D. *)
LEMMA IterExists ==
  ASSUME NEW f, NEW D, IsFiniteSet(D)
  PROVE  \E g : IsIter(g, f, D)
<1> DEFINE Small(n) == {s \in SUBSET D : Cardinality(s) <= n}
           Body(g, s) == IF s = {} THEN 0 ELSE f[Some(s)] + g[s \ {Some(s)}]
           T == {n \in Nat : \E g : g = [s \in Small(n) |-> Body(g, s)]}
<1>0. \A s \in SUBSET D : IsFiniteSet(s) /\ Cardinality(s) \in Nat /\ Cardinality(s) <= Cardinality(D)
  BY FS_Subset, FS_CardinalityType
<1>1. 0 \in T
  <2> DEFINE g == [s \in Small(0) |-> 0]
  <2>1. ASSUME NEW s \in Small(0) PROVE s = {}
    <3>1. Cardinality(s) = 0
      BY <1>0
    <3> QED BY <1>0, <3>1, FS_EmptySet
  <2>2. g = [s \in Small(0) |-> Body(g, s)]
    <3> HIDE DEF Small
    <3> QED BY <2>1
  <2> HIDE DEF g
  <2> QED BY <2>2
<1>2. ASSUME NEW n \in T PROVE n + 1 \in T
  <2>1. PICK g : g = [s \in Small(n) |-> Body(g, s)]
    OBVIOUS
  <2> DEFINE h == [s \in Small(n + 1) |-> IF s \in Small(n) THEN g[s] ELSE Body(g, s)]
  <2>2. ASSUME NEW s \in Small(n + 1), s # {}
        PROVE  /\ s \ {Some(s)} \in Small(n) /\ s \ {Some(s)} \in Small(n + 1)
    <3>1. Some(s) \in s /\ IsFiniteSet(s)
      BY <1>0, <2>2, SomeIn
    <3>2. Cardinality(s \ {Some(s)}) = Cardinality(s) - 1 /\ Cardinality(s) \in Nat
      BY <3>1, Smaller
    <3>3. Cardinality(s) <= n + 1 /\ s \ {Some(s)} \in SUBSET D /\ n \in Nat
      OBVIOUS
    <3> QED BY <3>2, <3>3
  <2>3. ASSUME NEW s \in Small(n) PROVE s \in Small(n + 1)
    BY <1>0
  <2>4. ASSUME NEW s \in Small(n + 1) PROVE h[s] = Body(h, s)
    <3>1. CASE s = {}
      <4>0. {} \in SUBSET D
        OBVIOUS
      <4>1. {} \in Small(n)
        <5>1. Cardinality({}) = 0 /\ n \in Nat
          BY FS_EmptySet
        <5> QED BY <5>1
      <4>2. g[s] = 0
        <5> HIDE DEF Small
        <5> QED BY <2>1, <3>1, <4>1
      <4> HIDE DEF Small
      <4> QED BY <4>1, <4>2, <3>1
    <3>2. CASE s # {}
      <4> DEFINE r == s \ {Some(s)}
      <4>1. r \in Small(n) /\ r \in Small(n + 1)
        BY <2>2, <3>2
      <4>2. h[r] = g[r]
        BY <4>1
      <4>3. Body(h, s) = Body(g, s)
        BY <4>2, <3>2
      <4>4. CASE s \in Small(n)
        <5>1. g[s] = Body(g, s)
          <6> HIDE DEF Small
          <6> QED BY <2>1, <4>4
        <5>2. h[s] = g[s]
          BY <4>4
        <5> QED BY <4>3, <5>1, <5>2
      <4>5. CASE s \notin Small(n)
        <5> HIDE DEF Small, Body
        <5> QED BY <4>3, <4>5
      <4> QED BY <4>4, <4>5
    <3> QED BY <3>1, <3>2
  <2>5. h = [s \in Small(n + 1) |-> Body(h, s)]
    <3>1. h = [s \in Small(n + 1) |-> h[s]]
      OBVIOUS
    <3> HIDE DEF h, Small, Body
    <3> QED BY <2>4, <3>1
  <2> HIDE DEF h, Small
  <2>6. n + 1 \in Nat
    OBVIOUS
  <2> QED BY <2>5, <2>6
<1>3. T = Nat
  <2> HIDE DEF Small, Body
  <2>1. T \in SUBSET Nat
    OBVIOUS
  <2> HIDE DEF T
  <2> QED BY <1>1, <1>2, <2>1, Induction
<1>4. Cardinality(D) \in T
  BY <1>3, FS_CardinalityType
<1>5. Small(Cardinality(D)) = SUBSET D
  BY <1>0
<1>6. PICK g : g = [s \in Small(Cardinality(D)) |-> Body(g, s)]
  BY <1>4
<1> QED BY <1>5, <1>6 DEF IsIter

(* What is known of it at one set. *)
LEMMA IterAt ==
  ASSUME NEW f, NEW D, NEW g, IsIter(g, f, D), NEW s \in SUBSET D
  PROVE  g[s] = IF s = {} THEN 0 ELSE f[Some(s)] + g[s \ {Some(s)}]
<1>1. g = [t \in SUBSET D |-> IF t = {} THEN 0 ELSE f[Some(t)] + g[t \ {Some(t)}]]
  BY DEF IsIter
<1> DEFINE Body(t) == IF t = {} THEN 0 ELSE f[Some(t)] + g[t \ {Some(t)}]
<1> HIDE DEF Body
<1>2. g = [t \in SUBSET D |-> Body(t)]
  BY <1>1 DEF Body
<1>3. g[s] = Body(s)
  BY <1>2
<1> QED BY <1>3 DEF Body

(* SumFunctionOnSet is what such a function says of the whole set. *)
LEMMA SumIsIter ==
  ASSUME NEW f, NEW D, IsFiniteSet(D)
  PROVE  \E g : IsIter(g, f, D) /\ SumFunctionOnSet(f, D) = g[D]
<1> DEFINE it == CHOOSE g : IsIter(g, f, D)
<1>1. IsIter(it, f, D)
  BY IterExists
<1>2. SumFunctionOnSet(f, D) = it[D]
  BY DEF SumFunctionOnSet, FoldFunctionOnSet, MapThenFoldSet, IsIter, Some
<1> HIDE DEF it
<1> QED BY <1>1, <1>2

(* Two of them agree where both are defined. *)
LEMMA IterUnique ==
  ASSUME NEW f, NEW D, NEW T, IsFiniteSet(D), T \subseteq D,
         NEW g, NEW h, IsIter(g, f, D), IsIter(h, f, T)
  PROVE  g[T] = h[T]
<1> DEFINE U == {n \in Nat : \A s \in SUBSET T : Cardinality(s) = n => g[s] = h[s]}
<1>0. \A s \in SUBSET T : s \in SUBSET D /\ IsFiniteSet(s) /\ Cardinality(s) \in Nat
  BY FS_Subset, FS_CardinalityType
<1>1. 0 \in U
  <2> SUFFICES ASSUME NEW s \in SUBSET T, Cardinality(s) = 0 PROVE g[s] = h[s]
    OBVIOUS
  <2>1. s = {} /\ s \in SUBSET D
    BY <1>0, FS_EmptySet
  <2> QED BY <2>1, IterAt
<1>2. ASSUME NEW n \in U PROVE n + 1 \in U
  <2> SUFFICES ASSUME NEW s \in SUBSET T, Cardinality(s) = n + 1 PROVE g[s] = h[s]
    OBVIOUS
  <2> DEFINE r == s \ {Some(s)}
  <2>1. s # {} /\ s \in SUBSET D
    <3>1. n + 1 # 0
      OBVIOUS
    <3> QED BY <1>0, <3>1, FS_EmptySet
  <2>2. Some(s) \in s
    BY <2>1, SomeIn
  <2>3. r \in SUBSET T /\ Cardinality(r) = n
    <3>1. Cardinality(r) = Cardinality(s) - 1
      BY <1>0, <2>2, Smaller
    <3> QED BY <3>1
  <2>4. g[r] = h[r]
    BY <2>3
  <2>5. g[s] = f[Some(s)] + g[r] /\ h[s] = f[Some(s)] + h[r]
    BY <2>1, IterAt
  <2> QED BY <2>4, <2>5
<1>3. U = Nat
  <2>1. U \in SUBSET Nat
    OBVIOUS
  <2> HIDE DEF U
  <2> QED BY <1>1, <1>2, <2>1, Induction
<1> QED BY <1>0, <1>3

(* The sum of nothing, and of a set by one of its elements. *)
LEMMA SumOfNone ==
  ASSUME NEW f
  PROVE  SumFunctionOnSet(f, {}) = 0
<1>1. PICK g : IsIter(g, f, {}) /\ SumFunctionOnSet(f, {}) = g[{}]
  BY FS_EmptySet, SumIsIter
<1>2. {} \in SUBSET {}
  OBVIOUS
<1> QED BY <1>1, <1>2, IterAt

LEMMA SumFromSome ==
  ASSUME NEW f, NEW D, IsFiniteSet(D), D # {}
  PROVE  SumFunctionOnSet(f, D) = f[Some(D)] + SumFunctionOnSet(f, D \ {Some(D)})
<1> DEFINE T == D \ {Some(D)}
<1>1. PICK g : IsIter(g, f, D) /\ SumFunctionOnSet(f, D) = g[D]
  BY SumIsIter
<1>2. IsFiniteSet(T) /\ T \subseteq D
  BY SomeIn, Smaller
<1> HIDE DEF T
<1>3. PICK h : IsIter(h, f, T) /\ SumFunctionOnSet(f, T) = h[T]
  BY <1>2, SumIsIter
<1>4. g[T] = h[T]
  BY <1>1, <1>2, <1>3, IterUnique
<1>5. g[D] = f[Some(D)] + g[T]
  BY <1>1, IterAt DEF T
<1> QED BY <1>1, <1>3, <1>4, <1>5 DEF T

(* A sum of integers is an integer. *)
LEMMA SumType ==
  ASSUME NEW f, NEW D, IsFiniteSet(D), \A x \in D : f[x] \in Int
  PROVE  SumFunctionOnSet(f, D) \in Int
<1> DEFINE U == {n \in Nat : \A s \in SUBSET D : Cardinality(s) = n => SumFunctionOnSet(f, s) \in Int}
<1>0. \A s \in SUBSET D : IsFiniteSet(s) /\ Cardinality(s) \in Nat
  BY FS_Subset, FS_CardinalityType
<1>1. 0 \in U
  <2> SUFFICES ASSUME NEW s \in SUBSET D, Cardinality(s) = 0 PROVE SumFunctionOnSet(f, s) \in Int
    OBVIOUS
  <2>1. s = {}
    BY <1>0, FS_EmptySet
  <2> QED BY <2>1, SumOfNone
<1>2. ASSUME NEW n \in U PROVE n + 1 \in U
  <2> SUFFICES ASSUME NEW s \in SUBSET D, Cardinality(s) = n + 1 PROVE SumFunctionOnSet(f, s) \in Int
    OBVIOUS
  <2> DEFINE r == s \ {Some(s)}
  <2>1. s # {}
    <3>1. n + 1 # 0
      OBVIOUS
    <3> QED BY <1>0, <3>1, FS_EmptySet
  <2>2. Some(s) \in s
    BY <2>1, SomeIn
  <2>3. r \in SUBSET D /\ Cardinality(r) = n
    <3>1. Cardinality(r) = Cardinality(s) - 1
      BY <1>0, <2>2, Smaller
    <3> QED BY <3>1
  <2>4. SumFunctionOnSet(f, r) \in Int /\ f[Some(s)] \in Int
    BY <2>2, <2>3
  <2>5. SumFunctionOnSet(f, s) = f[Some(s)] + SumFunctionOnSet(f, r)
    BY <1>0, <2>1, SumFromSome
  <2> QED BY <2>4, <2>5
<1>3. U = Nat
  <2>1. U \in SUBSET Nat
    OBVIOUS
  <2> HIDE DEF U
  <2> QED BY <1>1, <1>2, <2>1, Induction
<1> QED BY <1>0, <1>3

(* The order does not matter. *)
LEMMA SumAdd ==
  ASSUME NEW f, NEW D, IsFiniteSet(D), NEW x, x \notin D, f[x] \in Int,
         \A y \in D : f[y] \in Int
  PROVE  SumFunctionOnSet(f, D \cup {x}) = SumFunctionOnSet(f, D) + f[x]
<1> DEFINE A == D \cup {x}
           Sum(s) == SumFunctionOnSet(f, s)
           U == {n \in Nat : \A s \in SUBSET A, y \in A :
                   Cardinality(s) = n /\ y \notin s => Sum(s \cup {y}) = Sum(s) + f[y]}
<1>0. /\ IsFiniteSet(A)
      /\ \A y \in A : f[y] \in Int
      /\ \A s \in SUBSET A : /\ IsFiniteSet(s) /\ Cardinality(s) \in Nat
                            /\ Sum(s) \in Int
  <2>1. IsFiniteSet(A)
    BY FS_AddElement
  <2>2. \A y \in A : f[y] \in Int
    OBVIOUS
  <2>3. ASSUME NEW s \in SUBSET A PROVE IsFiniteSet(s) /\ Cardinality(s) \in Nat
    BY <2>1, FS_Subset, FS_CardinalityType
  <2>4. ASSUME NEW s \in SUBSET A PROVE Sum(s) \in Int
    BY <2>2, <2>3, SumType
  <2> QED BY <2>1, <2>2, <2>3, <2>4
<1> HIDE DEF Sum
<1>1. 0 \in U
  <2> SUFFICES ASSUME NEW s \in SUBSET A, NEW y \in A, Cardinality(s) = 0
               PROVE  Sum(s \cup {y}) = Sum(s) + f[y]
    OBVIOUS
  <2>1. s = {}
    BY <1>0, FS_EmptySet
  <2>2. IsFiniteSet({y}) /\ {y} # {} /\ Some({y}) = y /\ {y} \ {y} = {}
    BY FS_Singleton DEF Some
  <2>3. Sum({y}) = f[y] + Sum({})
    BY <2>2, SumFromSome DEF Sum
  <2>4. Sum({}) = 0 /\ s \cup {y} = {y} /\ f[y] \in Int
    BY <2>1, <1>0, SumOfNone DEF Sum
  <2> QED BY <2>1, <2>3, <2>4
<1>2. ASSUME NEW n \in U PROVE n + 1 \in U
  <2> SUFFICES ASSUME NEW s \in SUBSET A, NEW y \in A, Cardinality(s) = n + 1, y \notin s
               PROVE  Sum(s \cup {y}) = Sum(s) + f[y]
    OBVIOUS
  <2> DEFINE t == s \cup {y}
             c == Some(t)
  <2>1. IsFiniteSet(t) /\ t # {} /\ t \in SUBSET A
    BY <1>0
  <2>2. c \in t
    BY <2>1, SomeIn
  <2>3. Sum(t) = f[c] + Sum(t \ {c})
    BY <2>1, SumFromSome DEF Sum
  <2> HIDE DEF c
  <2>4. CASE c = y
    <3>1. t \ {c} = s
      BY <2>4
    <3>2. Sum(s) \in Int /\ f[y] \in Int
      BY <1>0
    <3>3. Sum(t) = f[y] + Sum(s)
      BY <2>3, <2>4, <3>1
    <3> QED BY <3>2, <3>3
  <2>5. CASE c # y
    <3> DEFINE r == s \ {c}
    <3>1. c \in s
      BY <2>2, <2>5
    <3>2. r \in SUBSET A /\ Cardinality(r) = n /\ y \notin r /\ c \notin r /\ c \in A
      <4>1. Cardinality(r) = Cardinality(s) - 1
        BY <1>0, <3>1, Smaller
      <4>2. Cardinality(r) = n
        BY <4>1
      <4> QED BY <4>2, <3>1
    <3>3. t \ {c} = r \cup {y} /\ s = r \cup {c}
      BY <2>5, <3>1
    <3>4. Sum(r \cup {y}) = Sum(r) + f[y] /\ Sum(r \cup {c}) = Sum(r) + f[c]
      BY <3>2
    <3>5. Sum(r) \in Int /\ f[y] \in Int /\ f[c] \in Int
      BY <1>0, <3>2
    <3>6. Sum(t) = f[c] + (Sum(r) + f[y]) /\ Sum(s) = Sum(r) + f[c]
      BY <2>3, <3>3, <3>4
    <3>7. f[c] + (Sum(r) + f[y]) = (Sum(r) + f[c]) + f[y]
      <4> HIDE DEF r
      <4> QED BY <3>5
    <3> QED BY <3>6, <3>7
  <2> QED BY <2>4, <2>5
<1>3. U = Nat
  <2>1. U \in SUBSET Nat
    OBVIOUS
  <2> HIDE DEF U
  <2> QED BY <1>1, <1>2, <2>1, Induction
<1>4. \A s \in SUBSET A, y \in A : y \notin s => Sum(s \cup {y}) = Sum(s) + f[y]
  BY <1>0, <1>3
<1> QED BY <1>4 DEF Sum
-----------------------------------------------------------------------------
(* Sums over 0 .. n-1. *)

(* The sum of the terms 0 .. n-1. *)
Sigma(f, n) == SumFunctionOnSet(f, Upto(n))
IntsTo(f, n) == \A x \in Upto(n) : f[x] \in Int

(* One more term. *)
LEMMA UptoNext ==
  ASSUME NEW n \in Nat
  PROVE  /\ Upto(0) = {} /\ Upto(n + 1) = Upto(n) \cup {n} /\ n \notin Upto(n)
         /\ IsFiniteSet(Upto(n))
<1>1. IsFiniteSet(Upto(n))
  <2>1. 0 \in Int /\ n - 1 \in Int
    OBVIOUS
  <2> QED BY <2>1, FS_Interval DEF Upto
<1> QED BY <1>1 DEF Upto

LEMMA SigmaNext ==
  ASSUME NEW f, NEW n \in Nat, IntsTo(f, n + 1)
  PROVE  /\ Sigma(f, 0) = 0
         /\ Sigma(f, n + 1) = Sigma(f, n) + f[n]
         /\ Sigma(f, n) \in Int /\ f[n] \in Int
<1>1. n \in Upto(n + 1) /\ Upto(n) \subseteq Upto(n + 1)
  BY DEF Upto
<1>2. f[n] \in Int /\ \A x \in Upto(n) : f[x] \in Int
  BY <1>1 DEF IntsTo
<1> QED BY <1>2, UptoNext, SumAdd, SumOfNone, SumType DEF Sigma

LEMMA SigmaType ==
  ASSUME NEW f, NEW n \in Nat, IntsTo(f, n)
  PROVE  Sigma(f, n) \in Int
BY UptoNext, SumType DEF Sigma, IntsTo

LEMMA SigmaNone == ASSUME NEW f PROVE Sigma(f, 0) = 0
BY UptoNext, SumOfNone DEF Sigma

(* Terms that agree. *)
LEMMA SigmaSame ==
  ASSUME NEW f, NEW g, NEW n \in Nat, IntsTo(f, n), \A x \in Upto(n) : g[x] = f[x]
  PROVE  Sigma(f, n) = Sigma(g, n)
<1> DEFINE U == {m \in Nat : m <= n => Sigma(f, m) = Sigma(g, m)}
<1>1. 0 \in U
  BY SigmaNone
<1>2. ASSUME NEW m \in U PROVE m + 1 \in U
  <2> SUFFICES ASSUME m + 1 <= n PROVE Sigma(f, m + 1) = Sigma(g, m + 1)
    OBVIOUS
  <2>1. m \in Nat /\ m <= n /\ m \in Upto(n) /\ Upto(m + 1) \subseteq Upto(n)
    BY DEF Upto
  <2>2. IntsTo(f, m + 1) /\ IntsTo(g, m + 1) /\ f[m] = g[m]
    BY <2>1 DEF IntsTo
  <2>3. Sigma(f, m) = Sigma(g, m)
    BY <2>1
  <2> QED BY <2>1, <2>2, <2>3, SigmaNext
<1>3. U = Nat
  <2>1. U \in SUBSET Nat
    OBVIOUS
  <2> HIDE DEF U
  <2> QED BY <1>1, <1>2, <2>1, Induction
<1> QED BY <1>3

(* The sum of a function on 0 .. n-1. *)
LEMMA SumOnUpto ==
  ASSUME NEW f, NEW n \in Nat, DOMAIN f = Upto(n)
  PROVE  SumFunction(f) = Sigma(f, n)
BY DEF SumFunction, Sigma

(* A sum in two parts, *)
LEMMA SigmaPlus ==
  ASSUME NEW f, NEW a \in Nat, NEW b \in Nat, IntsTo(f, a + b)
  PROVE  Sigma(f, a + b) = Sigma(f, a) + Sigma([y \in Upto(b) |-> f[a + y]], b)
<1> DEFINE g == [y \in Upto(b) |-> f[a + y]]
           U == {m \in Nat : m <= b => Sigma(f, a + m) = Sigma(f, a) + Sigma(g, m)}
<1>0. IntsTo(f, a) /\ Sigma(f, a) \in Int /\ IntsTo(g, b)
  <2>1. IntsTo(f, a) /\ IntsTo(g, b)
    BY DEF IntsTo, Upto
  <2> QED BY <2>1, SigmaType
<1>1. 0 \in U
  BY <1>0, SigmaNone
<1>2. ASSUME NEW m \in U PROVE m + 1 \in U
  <2> SUFFICES ASSUME m + 1 <= b PROVE Sigma(f, a + (m + 1)) = Sigma(f, a) + Sigma(g, m + 1)
    OBVIOUS
  <2>1. m \in Nat /\ m <= b /\ m \in Upto(b) /\ a + m \in Nat /\ a + (m + 1) = (a + m) + 1
    BY DEF Upto
  <2>2. IntsTo(f, (a + m) + 1) /\ IntsTo(g, m + 1) /\ f[a + m] = g[m]
    BY <2>1, <1>0 DEF IntsTo, Upto
  <2> HIDE DEF g
  <2>3. Sigma(f, a + m) = Sigma(f, a) + Sigma(g, m)
    BY <2>1
  <2>4. Sigma(f, (a + m) + 1) = Sigma(f, a + m) + f[a + m] /\ f[a + m] \in Int
    BY <2>1, <2>2, SigmaNext
  <2>5. Sigma(g, m + 1) = Sigma(g, m) + g[m] /\ Sigma(g, m) \in Int
    BY <2>1, <2>2, SigmaNext
  <2> QED BY <1>0, <2>1, <2>2, <2>3, <2>4, <2>5
<1>3. U = Nat
  <2>1. U \in SUBSET Nat
    OBVIOUS
  <2> HIDE DEF U
  <2> QED BY <1>1, <1>2, <2>1, Induction
<1> QED BY <1>3

(* and in n parts of m terms. *)
LEMMA SigmaParts ==
  ASSUME NEW f, NEW n \in Nat, NEW m \in Nat, IntsTo(f, n * m)
  PROVE  Sigma(f, n * m) = Sigma([x \in Upto(n) |-> Sigma([y \in Upto(m) |-> f[x * m + y]], m)], n)
<1> DEFINE part(x) == [y \in Upto(m) |-> f[x * m + y]]
           g == [x \in Upto(n) |-> Sigma(part(x), m)]
           U == {k \in Nat : k <= n => Sigma(f, k * m) = Sigma(g, k)}
<1>0. ASSUME NEW x \in Upto(n)
      PROVE  /\ x \in Nat /\ x * m \in Nat /\ (x + 1) * m \in Nat /\ (x + 1) * m = x * m + m
             /\ IntsTo(f, x * m + m) /\ IntsTo(part(x), m)
             /\ g[x] = Sigma(part(x), m) /\ g[x] \in Int
  <2>1. x \in Nat /\ x + 1 <= n
    BY DEF Upto
  <2>2. (x + 1) * m <= n * m /\ (x + 1) * m = x * m + m /\ x * m \in Nat /\ (x + 1) * m \in Nat /\ n * m \in Nat
    BY <2>1, SMT
  <2>3. IntsTo(f, x * m + m)
    BY <2>2 DEF IntsTo, Upto
  <2>4. IntsTo(part(x), m)
    <3> SUFFICES ASSUME NEW y \in Upto(m) PROVE part(x)[y] \in Int
      BY DEF IntsTo
    <3>1. x * m + y \in Upto(x * m + m)
      BY <2>2 DEF Upto
    <3> QED BY <2>3, <3>1 DEF IntsTo
  <2> QED BY <2>1, <2>2, <2>3, <2>4, SigmaType
<1> HIDE DEF g
<1>1. 0 \in U
  <2>1. 0 * m = 0
    OBVIOUS
  <2> QED BY <2>1, SigmaNone
<1>2. ASSUME NEW k \in U PROVE k + 1 \in U
  <2> SUFFICES ASSUME k + 1 <= n PROVE Sigma(f, (k + 1) * m) = Sigma(g, k + 1)
    OBVIOUS
  <2>1. k \in Nat /\ k <= n /\ k \in Upto(n) /\ Upto(k + 1) \subseteq Upto(n)
    BY DEF Upto
  <2>2. Sigma(f, k * m + m) = Sigma(f, k * m) + Sigma(part(k), m)
    BY <1>0, <2>1, SigmaPlus
  <2>3. IntsTo(g, k + 1)
    BY <1>0, <2>1 DEF IntsTo
  <2>4. Sigma(g, k + 1) = Sigma(g, k) + g[k]
    BY <2>1, <2>3, SigmaNext
  <2>5. Sigma(f, k * m) = Sigma(g, k)
    BY <2>1
  <2>6. (k + 1) * m = k * m + m /\ g[k] = Sigma(part(k), m)
    BY <1>0, <2>1
  <2> QED BY <2>2, <2>4, <2>5, <2>6
<1>3. U = Nat
  <2>1. U \in SUBSET Nat
    OBVIOUS
  <2> HIDE DEF U
  <2> QED BY <1>1, <1>2, <2>1, Induction
<1> QED BY <1>3 DEF g

(* Terms that are zero. *)
LEMMA SigmaZeros ==
  ASSUME NEW f, NEW n \in Nat, NEW m \in Nat, n <= m, IntsTo(f, n),
         \A x \in n .. m - 1 : f[x] = 0
  PROVE  Sigma(f, m) = Sigma(f, n)
<1> DEFINE U == {k \in Nat : n + k <= m => Sigma(f, n + k) = Sigma(f, n)}
<1>0. IntsTo(f, m)
  BY DEF IntsTo, Upto
<1>1. 0 \in U
  OBVIOUS
<1>2. ASSUME NEW k \in U PROVE k + 1 \in U
  <2> SUFFICES ASSUME n + (k + 1) <= m PROVE Sigma(f, n + (k + 1)) = Sigma(f, n)
    OBVIOUS
  <2>1. n + k \in Nat /\ n + (k + 1) = (n + k) + 1 /\ n + k <= m /\ n + k \in n .. m - 1
    OBVIOUS
  <2>2. IntsTo(f, (n + k) + 1) /\ f[n + k] = 0
    BY <1>0, <2>1 DEF IntsTo, Upto
  <2>3. Sigma(f, n + k) = Sigma(f, n)
    BY <2>1
  <2> QED BY <2>1, <2>2, <2>3, SigmaNext
<1>3. U = Nat
  <2>1. U \in SUBSET Nat
    OBVIOUS
  <2> HIDE DEF U
  <2> QED BY <1>1, <1>2, <2>1, Induction
<1> DEFINE k == m - n
<1>4. k \in Nat /\ n + k = m
  OBVIOUS
<1>5. k \in U
  <2> HIDE DEF U
  <2> QED BY <1>3, <1>4
<1>6. n + k <= m => Sigma(f, n + k) = Sigma(f, n)
  <2> HIDE DEF k
  <2> QED BY <1>5
<1> HIDE DEF k
<1> QED BY <1>4, <1>6

(* Terms that are bounded. *)
LEMMA SigmaBound ==
  ASSUME NEW f, NEW n \in Nat, NEW c \in Nat, \A x \in Upto(n) : f[x] \in -c .. c
  PROVE  Sigma(f, n) \in -(n * c) .. n * c
<1> DEFINE U == {k \in Nat : k <= n => Sigma(f, k) \in -(k * c) .. k * c}
<1>0. IntsTo(f, n)
  BY DEF IntsTo
<1>1. 0 \in U
  BY SigmaNone
<1>2. ASSUME NEW k \in U PROVE k + 1 \in U
  <2> SUFFICES ASSUME k + 1 <= n PROVE Sigma(f, k + 1) \in -((k + 1) * c) .. (k + 1) * c
    OBVIOUS
  <2>1. k \in Nat /\ k <= n /\ k \in Upto(n) /\ Upto(k + 1) \subseteq Upto(n)
    BY DEF Upto
  <2>2. IntsTo(f, k + 1)
    BY <1>0, <2>1 DEF IntsTo
  <2>3. Sigma(f, k + 1) = Sigma(f, k) + f[k] /\ f[k] \in -c .. c /\ Sigma(f, k) \in -(k * c) .. k * c
    BY <2>1, <2>2, SigmaNext
  <2>4. (k + 1) * c = k * c + c /\ k * c \in Nat
    BY <2>1, SMT
  <2> QED BY <2>3, <2>4
<1>3. U = Nat
  <2>1. U \in SUBSET Nat
    OBVIOUS
  <2> HIDE DEF U
  <2> QED BY <1>1, <1>2, <2>1, Induction
<1> QED BY <1>3

(* A sum over a run of numbers that begins elsewhere. *)
LEMMA SumOfRun ==
  ASSUME NEW f, NEW a \in Int, NEW n \in Nat, \A x \in a .. a + n - 1 : f[x] \in Int
  PROVE  SumFunctionOnSet(f, a .. a + n - 1) = Sigma([x \in Upto(n) |-> f[a + x]], n)
<1> DEFINE g == [x \in Upto(n) |-> f[a + x]]
           run(k) == a .. a + k - 1
           U == {k \in Nat : k <= n => SumFunctionOnSet(f, run(k)) = Sigma(g, k)}
<1>0. IntsTo(g, n)
  BY DEF IntsTo, Upto
<1>1. 0 \in U
  <2>1. run(0) = {}
    OBVIOUS
  <2> QED BY <2>1, SigmaNone, SumOfNone
<1>2. ASSUME NEW k \in U PROVE k + 1 \in U
  <2> SUFFICES ASSUME k + 1 <= n PROVE SumFunctionOnSet(f, run(k + 1)) = Sigma(g, k + 1)
    OBVIOUS
  <2>1. k \in Nat /\ k <= n /\ k \in Upto(n) /\ Upto(k + 1) \subseteq Upto(n)
    BY DEF Upto
  <2>2. IntsTo(g, k + 1) /\ g[k] = f[a + k]
    BY <1>0, <2>1 DEF IntsTo
  <2>3. run(k + 1) = run(k) \cup {a + k} /\ a + k \notin run(k) /\ a + k \in run(n) /\ run(k) \subseteq run(n)
    BY <2>1
  <2>4. IsFiniteSet(run(k))
    <3>1. a + k - 1 \in Int
      BY <2>1
    <3> QED BY <3>1, FS_Interval
  <2>5. f[a + k] \in Int /\ \A x \in run(k) : f[x] \in Int
    BY <2>3
  <2>6. SumFunctionOnSet(f, run(k + 1)) = SumFunctionOnSet(f, run(k)) + f[a + k]
    <3> HIDE DEF run
    <3> QED BY <2>3, <2>4, <2>5, SumAdd
  <2>7. SumFunctionOnSet(f, run(k)) = Sigma(g, k)
    BY <2>1
  <2> HIDE DEF g
  <2> QED BY <2>1, <2>2, <2>6, <2>7, SigmaNext
<1>3. U = Nat
  <2>1. U \in SUBSET Nat
    OBVIOUS
  <2> HIDE DEF U
  <2> QED BY <1>1, <1>2, <2>1, Induction
<1> QED BY <1>3

-----------------------------------------------------------------------------
(* Products, quotients and remainders. *)

(* Facts of arithmetic the solver does not find in a larger step. *)
LEMMA MulNat == \A x, y \in Nat : x * y \in Nat /\ x * y = y * x
BY SMT

LEMMA MulInt == \A x, y \in Int : x * y \in Int /\ x * y = y * x
BY SMT

LEMMA DivMod ==
  \A x \in Int, P \in Nat \ {0} :
    /\ x \div P \in Int /\ x % P \in Upto(P) /\ x = (x \div P) * P + (x % P)
BY SMT DEF Upto

LEMMA Apart == \A x, y \in Int, P \in Nat \ {0} : x < y => x * P + P <= y * P
<1> SUFFICES ASSUME NEW x \in Int, NEW y \in Int, NEW P \in Nat \ {0}, x < y
             PROVE  x * P + P <= y * P
  OBVIOUS
<1>1. PICK d \in Nat : y = x + 1 + d
  <2>1. y - x - 1 \in Nat /\ y = x + 1 + (y - x - 1)
    OBVIOUS
  <2> QED BY <2>1
<1>2. y * P = x * P + P + d * P /\ d * P \in Nat /\ x * P \in Int
  BY <1>1, SMT
<1> QED BY <1>2

(* Quotient and remainder are the only ones. *)
LEMMA DivModIs ==
  ASSUME NEW q \in Int, NEW P \in Nat \ {0}, NEW r \in Upto(P)
  PROVE  (q * P + r) \div P = q /\ (q * P + r) % P = r
<1> DEFINE x == q * P + r
<1>1. x \in Int /\ r \in Int /\ q * P \in Int /\ 0 <= r /\ r < P /\ P \in Int
  BY MulInt DEF Upto
<1> DEFINE d == x \div P
           m == x % P
<1>2. d \in Int /\ m \in Upto(P) /\ x = d * P + m /\ d * P \in Int
  <2> HIDE DEF x
  <2> QED BY <1>1, DivMod, MulInt
<1> HIDE DEF d, m
<1>3. 0 <= m /\ m < P /\ m \in Int
  BY <1>2 DEF Upto
<1>4. ~(q < d)
  <2> SUFFICES ASSUME q < d PROVE FALSE
    OBVIOUS
  <2>1. q * P + P <= d * P
    BY <1>2, Apart
  <2> QED BY <1>1, <1>2, <1>3, <2>1
<1>5. ~(d < q)
  <2> SUFFICES ASSUME d < q PROVE FALSE
    OBVIOUS
  <2>1. d * P + P <= q * P
    BY <1>2, Apart
  <2> QED BY <1>1, <1>2, <1>3, <2>1
<1>6. d = q
  BY <1>2, <1>4, <1>5
<1>7. m = r
  BY <1>1, <1>2, <1>3, <1>6
<1> QED BY <1>6, <1>7 DEF d, m

(* A number with a digit in front of it. *)
LEMMA BelowProduct ==
  ASSUME NEW P \in Nat \ {0}, NEW Q \in Nat \ {0}, NEW d \in Upto(Q), NEW s \in Upto(P)
  PROVE  s + d * P \in Upto(P * Q)
<1>1. d \in Int /\ Q \in Int /\ d < Q /\ d \in Nat /\ s \in Nat /\ s < P
  BY DEF Upto
<1>2. d * P + P <= Q * P
  BY <1>1, Apart
<1>3. d * P \in Nat /\ Q * P \in Nat /\ P * Q = Q * P
  BY <1>1, MulNat
<1> QED BY <1>1, <1>2, <1>3 DEF Upto

-----------------------------------------------------------------------------
(* Sequences one after the other. *)

(* The recursive function by which FlattenSeq is defined. *)
IsFlat(g, seqs, m) == g = [i \in 1 .. m |-> IF i = 1 THEN seqs[i] ELSE g[i - 1] \o seqs[i]]

LEMMA FlatExists ==
  ASSUME NEW seqs, NEW n \in Nat
  PROVE  \E g : IsFlat(g, seqs, n)
<1> DEFINE T == {m \in Nat : \E g : IsFlat(g, seqs, m)}
<1>1. 0 \in T
  <2> DEFINE g == [i \in 1 .. 0 |-> 0]
  <2>1. g = [i \in 1 .. 0 |-> IF i = 1 THEN seqs[i] ELSE g[i - 1] \o seqs[i]]
    OBVIOUS
  <2> HIDE DEF g
  <2> QED BY <2>1 DEF IsFlat
<1>2. ASSUME NEW m \in T PROVE m + 1 \in T
  <2>1. PICK g : IsFlat(g, seqs, m)
    OBVIOUS
  <2> DEFINE h == [i \in 1 .. m + 1 |-> IF i <= m THEN g[i]
                                        ELSE IF i = 1 THEN seqs[i] ELSE g[m] \o seqs[i]]
  <2>2. ASSUME NEW i \in 1 .. m + 1 PROVE h[i] = IF i = 1 THEN seqs[i] ELSE h[i - 1] \o seqs[i]
    <3>1. CASE i <= m
      <4>1. i \in 1 .. m /\ h[i] = g[i]
        BY <3>1
      <4>2. g[i] = IF i = 1 THEN seqs[i] ELSE g[i - 1] \o seqs[i]
        BY <2>1, <4>1 DEF IsFlat
      <4>3. i # 1 => i - 1 \in 1 .. m + 1 /\ h[i - 1] = g[i - 1]
        BY <4>1
      <4> HIDE DEF h
      <4> QED BY <4>1, <4>2, <4>3
    <3>2. CASE ~(i <= m)
      <4>1. i = m + 1 /\ m \in Nat
        BY <3>2
      <4>2. i # 1 => m \in 1 .. m + 1 /\ h[m] = g[m] /\ i - 1 = m
        BY <4>1
      <4>3. h[i] = IF i = 1 THEN seqs[i] ELSE g[m] \o seqs[i]
        BY <3>2
      <4> HIDE DEF h
      <4> QED BY <4>2, <4>3
    <3> QED BY <3>1, <3>2
  <2>3. h = [i \in 1 .. m + 1 |-> IF i = 1 THEN seqs[i] ELSE h[i - 1] \o seqs[i]]
    <3>1. h = [i \in 1 .. m + 1 |-> h[i]]
      OBVIOUS
    <3> HIDE DEF h
    <3> QED BY <2>2, <3>1
  <2> HIDE DEF h
  <2>4. IsFlat(h, seqs, m + 1)
    BY <2>3 DEF IsFlat
  <2>5. m + 1 \in Nat
    OBVIOUS
  <2> QED BY <2>4, <2>5
<1>3. T = Nat
  <2>1. T \in SUBSET Nat
    OBVIOUS
  <2> HIDE DEF T
  <2> QED BY <1>1, <1>2, <2>1, Induction
<1> QED BY <1>3

(* Two sequences joined. *)
LEMMA Concat ==
  ASSUME NEW V, NEW s, NEW t, s \in Seq(V), t \in Seq(V)
  PROVE  /\ s \o t \in Seq(V) /\ Len(s \o t) = Len(s) + Len(t)
         /\ \A i \in 1 .. Len(s) : (s \o t)[i] = s[i]
         /\ \A i \in 1 .. Len(t) : (s \o t)[Len(s) + i] = t[i]
         /\ Len(s) \in Nat /\ Len(t) \in Nat
OBVIOUS
=============================================================================
