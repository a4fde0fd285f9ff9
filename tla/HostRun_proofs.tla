--------------------------- MODULE HostRun_proofs ---------------------------
(***************************************************************************)
(* For every tile shape, buffer and job: the DMA stays inside the buffer    *)
(* and its results stay out of the streams they are computed from, the      *)
(* grid is fed the stream of the tile in hand and nothing else, and a cell  *)
(* that comes to its end has the product of its factors.                    *)
(*                                                                         *)
(* The first half is about HostTiles: the parts of a word, sequences of one *)
(* length, then a stream, what the grid makes of it, and the tiles of a     *)
(* product, up to TilesRebuildProduct.  The second half is about HostRun:   *)
(* the words of the buffer, what each step does to them, the inductive      *)
(* invariant IInv, and what follows from it.                                *)
(***************************************************************************)
EXTENDS HostRun, SumTheorems

-----------------------------------------------------------------------------
(* Powers of two. *)

IsPow(g, m) == g = [n \in 0 .. m |-> IF n = 0 THEN 1 ELSE 2 * g[n - 1]]

(* pow2 is a recursive function: that there is one is shown of its parts 0 .. m, *)
(* which agree with each other.                                                  *)
LEMMA PowUnique ==
  ASSUME NEW m \in Nat, NEW l \in Nat, NEW g, NEW h, IsPow(g, m), IsPow(h, l), m <= l
  PROVE  \A n \in 0 .. m : g[n] = h[n]
<1> DEFINE U == {n \in Nat : n <= m => g[n] = h[n]}
<1>1. 0 \in U
  BY DEF IsPow
<1>2. ASSUME NEW n \in U PROVE n + 1 \in U
  <2> SUFFICES ASSUME n + 1 <= m PROVE g[n + 1] = h[n + 1]
    OBVIOUS
  <2>1. n \in Nat /\ n <= m /\ n + 1 \in 0 .. m /\ n + 1 \in 0 .. l /\ n + 1 # 0 /\ n + 1 - 1 = n
    OBVIOUS
  <2>2. g[n + 1] = 2 * g[n] /\ h[n + 1] = 2 * h[n]
    BY <2>1 DEF IsPow
  <2> QED BY <2>1, <2>2
<1>3. U = Nat
  <2>1. U \in SUBSET Nat
    OBVIOUS
  <2> HIDE DEF U
  <2> QED BY <1>1, <1>2, <2>1, Induction
<1> QED BY <1>3

LEMMA PowExists == \E f : f = [n \in Nat |-> IF n = 0 THEN 1 ELSE 2 * f[n - 1]]
<1> DEFINE T == {m \in Nat : \E g : IsPow(g, m)}
<1>1. 0 \in T
  <2> DEFINE g == [n \in 0 .. 0 |-> 1]
  <2>1. g = [n \in 0 .. 0 |-> IF n = 0 THEN 1 ELSE 2 * g[n - 1]]
    OBVIOUS
  <2> HIDE DEF g
  <2> QED BY <2>1 DEF IsPow
<1>2. ASSUME NEW m \in T PROVE m + 1 \in T
  <2>1. PICK g : IsPow(g, m)
    OBVIOUS
  <2> DEFINE h == [n \in 0 .. m + 1 |-> IF n <= m THEN g[n] ELSE 2 * g[m]]
  <2>2. ASSUME NEW n \in 0 .. m + 1 PROVE h[n] = IF n = 0 THEN 1 ELSE 2 * h[n - 1]
    <3>1. CASE n = 0
      BY <2>1, <3>1 DEF IsPow
    <3>2. CASE n # 0
      <4>1. n - 1 \in 0 .. m + 1 /\ n - 1 <= m /\ n - 1 \in 0 .. m
        BY <3>2
      <4>2. h[n - 1] = g[n - 1]
        BY <4>1
      <4>3. CASE n <= m
        <5>1. n \in 0 .. m
          BY <4>3
        <5>2. g[n] = 2 * g[n - 1]
          BY <2>1, <3>2, <5>1 DEF IsPow
        <5> QED BY <3>2, <4>2, <4>3, <5>2
      <4>4. CASE ~(n <= m)
        <5>1. n = m + 1 /\ n - 1 = m
          BY <4>4
        <5> QED BY <3>2, <4>2, <4>4, <5>1
      <4> QED BY <4>3, <4>4
    <3> QED BY <3>1, <3>2
  <2>3. h = [n \in 0 .. m + 1 |-> IF n = 0 THEN 1 ELSE 2 * h[n - 1]]
    <3>1. h = [n \in 0 .. m + 1 |-> h[n]]
      OBVIOUS
    <3> HIDE DEF h
    <3> QED BY <2>2, <3>1
  <2> HIDE DEF h
  <2> QED BY <2>3 DEF IsPow
<1>3. T = Nat
  <2>1. T \in SUBSET Nat
    OBVIOUS
  <2> HIDE DEF T
  <2> QED BY <1>1, <1>2, <2>1, Induction
<1> DEFINE upTo(m) == CHOOSE g : IsPow(g, m)
           f == [n \in Nat |-> upTo(n)[n]]
<1>4. ASSUME NEW m \in Nat PROVE IsPow(upTo(m), m)
  BY <1>3
<1> HIDE DEF upTo
<1>5. ASSUME NEW n \in Nat PROVE f[n] = IF n = 0 THEN 1 ELSE 2 * f[n - 1]
  <2>1. upTo(n)[n] = IF n = 0 THEN 1 ELSE 2 * upTo(n)[n - 1]
    BY <1>4 DEF IsPow
  <2>2. CASE n = 0
    BY <2>1, <2>2
  <2>3. CASE n # 0
    <3>1. n - 1 \in Nat /\ n - 1 <= n /\ n - 1 \in 0 .. n - 1
      BY <2>3
    <3>2. upTo(n - 1)[n - 1] = upTo(n)[n - 1]
      BY <1>4, <3>1, PowUnique
    <3>3. f[n - 1] = upTo(n - 1)[n - 1]
      BY <3>1
    <3> QED BY <2>1, <2>3, <3>2, <3>3
  <2> QED BY <2>2, <2>3
<1>6. f = [n \in Nat |-> IF n = 0 THEN 1 ELSE 2 * f[n - 1]]
  <2>1. f = [n \in Nat |-> f[n]]
    OBVIOUS
  <2> HIDE DEF f
  <2> QED BY <1>5, <2>1
<1> HIDE DEF f
<1> QED BY <1>6

(* What pow2 is. *)
LEMMA Pow ==
  /\ pow2[0] = 1
  /\ \A n \in Nat : pow2[n + 1] = 2 * pow2[n] /\ pow2[n] \in Nat \ {0}
<1>1. pow2 = [n \in Nat |-> IF n = 0 THEN 1 ELSE 2 * pow2[n - 1]]
  BY PowExists DEF pow2
<1> DEFINE U == {n \in Nat : pow2[n] \in Nat \ {0}}
<1>2. pow2[0] = 1
  BY <1>1
<1>3. ASSUME NEW n \in Nat PROVE pow2[n + 1] = 2 * pow2[n]
  <2>1. n + 1 \in Nat /\ n + 1 # 0 /\ n + 1 - 1 = n
    OBVIOUS
  <2> QED BY <1>1, <2>1
<1>4. 0 \in U
  BY <1>2
<1>5. ASSUME NEW n \in U PROVE n + 1 \in U
  BY <1>3
<1>6. U = Nat
  <2>1. U \in SUBSET Nat
    OBVIOUS
  <2> HIDE DEF U
  <2> QED BY <1>4, <1>5, <2>1, Induction
<1> QED BY <1>2, <1>3, <1>6

LEMMA PowAdd == \A a, b \in Nat : pow2[a + b] = pow2[a] * pow2[b]
<1> SUFFICES ASSUME NEW a \in Nat PROVE \A b \in Nat : pow2[a + b] = pow2[a] * pow2[b]
  OBVIOUS
<1> DEFINE U == {b \in Nat : pow2[a + b] = pow2[a] * pow2[b]}
<1>1. 0 \in U
  BY Pow
<1>2. ASSUME NEW b \in U PROVE b + 1 \in U
  <2>1. pow2[a + (b + 1)] = 2 * pow2[a + b] /\ pow2[b + 1] = 2 * pow2[b]
    <3>1. a + b \in Nat /\ a + (b + 1) = (a + b) + 1
      OBVIOUS
    <3> QED BY <3>1, Pow
  <2>2. pow2[a] \in Nat /\ pow2[b] \in Nat /\ pow2[a + b] = pow2[a] * pow2[b]
    BY Pow
  <2>3. \A x, y, z, u, w \in Nat : x = y * z /\ u = 2 * x /\ w = 2 * z => u = y * w
    BY SMT
  <2>4. 2 * pow2[a + b] \in Nat /\ 2 * pow2[b] \in Nat /\ pow2[a + b] \in Nat
    BY Pow
  <2> QED BY <2>1, <2>2, <2>3, <2>4
<1>3. U = Nat
  <2>1. U \in SUBSET Nat
    OBVIOUS
  <2> HIDE DEF U
  <2> QED BY <1>1, <1>2, <2>1, Induction
<1> QED BY <1>3

-----------------------------------------------------------------------------
(* The parts of a word come back as they went in. *)

(* Digits of n parts, each below 2 to the w. *)
Shifted(parts, n, w) == [i \in Upto(n) |-> parts[i] * pow2[w * i]]

LEMMA ShiftedType ==
  ASSUME NEW n \in Nat, NEW w \in Nat, NEW parts \in [Upto(n) -> Upto(pow2[w])]
  PROVE  /\ \A i \in Upto(n) : Shifted(parts, n, w)[i] \in Nat
         /\ IntsTo(Shifted(parts, n, w), n)
         /\ \A m \in 0 .. n : IntsTo(Shifted(parts, n, w), m)
<1>1. ASSUME NEW i \in Upto(n) PROVE Shifted(parts, n, w)[i] \in Nat
  <2>1. i \in Nat /\ w * i \in Nat
    BY MulNat DEF Upto
  <2>2. pow2[w * i] \in Nat
    BY <2>1, Pow
  <2>3. parts[i] \in Nat
    <3>1. parts[i] \in Upto(pow2[w])
      OBVIOUS
    <3> QED BY <3>1, Pow DEF Upto
  <2> QED BY <2>2, <2>3, MulNat DEF Shifted
<1>2. \A m \in 0 .. n : Upto(m) \subseteq Upto(n)
  BY DEF Upto
<1>3. n \in 0 .. n
  OBVIOUS
<1> QED BY <1>1, <1>2, <1>3 DEF IntsTo

(* The next digit begins where the last one ends. *)
LEMMA PowNext ==
  ASSUME NEW w \in Nat, NEW i \in Nat
  PROVE  pow2[w * (i + 1)] = pow2[w * i] * pow2[w] /\ w * i \in Nat /\ pow2[w * i] \in Nat \ {0}
         /\ pow2[w * (i + 1)] \in Nat \ {0} /\ pow2[w] \in Nat \ {0}
<1>1. w * i \in Nat /\ w * (i + 1) = w * i + w /\ w * (i + 1) \in Nat
  BY SMT
<1>2. pow2[w * i + w] = pow2[w * i] * pow2[w]
  BY <1>1, PowAdd
<1> QED BY <1>1, <1>2, Pow

(* n digits stay below 2 to the n * w. *)
LEMMA JoinedBound ==
  ASSUME NEW n \in Nat, NEW w \in Nat, NEW parts \in [Upto(n) -> Upto(pow2[w])]
  PROVE  \A m \in 0 .. n : Sigma(Shifted(parts, n, w), m) \in Upto(pow2[w * m])
<1> DEFINE f == Shifted(parts, n, w)
           U == {m \in Nat : m <= n => Sigma(f, m) \in Upto(pow2[w * m])}
<1>1. 0 \in U
  <2>1. w * 0 = 0
    OBVIOUS
  <2>2. pow2[w * 0] = 1 /\ 0 \in Upto(1)
    BY <2>1, Pow DEF Upto
  <2>3. Sigma(f, 0) \in Upto(pow2[w * 0])
    BY <2>2, SigmaNone
  <2> QED BY <2>3
<1>2. ASSUME NEW m \in U PROVE m + 1 \in U
  <2> SUFFICES ASSUME m + 1 <= n PROVE Sigma(f, m + 1) \in Upto(pow2[w * (m + 1)])
    OBVIOUS
  <2>1. m \in Nat /\ m <= n /\ m \in Upto(n) /\ m + 1 \in 0 .. n
    BY DEF Upto
  <2>2. Sigma(f, m + 1) = Sigma(f, m) + f[m]
    BY <2>1, ShiftedType, SigmaNext
  <2>3. f[m] = parts[m] * pow2[w * m]
    BY <2>1 DEF Shifted
  <2>4. parts[m] \in Upto(pow2[w])
    BY <2>1
  <2>5. pow2[w * m] \in Nat \ {0} /\ pow2[w] \in Nat \ {0}
    BY <2>1, PowNext
  <2>6. pow2[w * (m + 1)] = pow2[w * m] * pow2[w] /\ pow2[w * m] \in Nat \ {0} /\ pow2[w] \in Nat \ {0}
    BY <2>1, PowNext
  <2>7. Sigma(f, m) \in Upto(pow2[w * m])
    BY <2>1
  <2> QED BY <2>2, <2>3, <2>4, <2>5, <2>6, <2>7, BelowProduct
<1>3. U = Nat
  <2>1. U \in SUBSET Nat
    OBVIOUS
  <2> HIDE DEF U
  <2> QED BY <1>1, <1>2, <2>1, Induction
<1> QED BY <1>3

(* What is above the i-th digit is a multiple. *)
LEMMA JoinedAbove ==
  ASSUME NEW n \in Nat, NEW w \in Nat, NEW parts \in [Upto(n) -> Upto(pow2[w])], NEW i \in Upto(n)
  PROVE  \E h \in Nat : Sigma(Shifted(parts, n, w), n) =
           Sigma(Shifted(parts, n, w), i) + (h * pow2[w] + parts[i]) * pow2[w * i]
<1> DEFINE f == Shifted(parts, n, w)
           Up(m) == \E h \in Nat : Sigma(f, m) = Sigma(f, i) + (h * pow2[w] + parts[i]) * pow2[w * i]
           U == {m \in Nat : i + 1 + m <= n => Up(i + 1 + m)}
<1>0. /\ i \in Nat /\ i + 1 \in 0 .. n /\ parts[i] \in Nat /\ pow2[w] \in Nat /\ pow2[w * i] \in Nat
      /\ Sigma(f, i) \in Int /\ Sigma(f, i + 1) = Sigma(f, i) + f[i] /\ f[i] = parts[i] * pow2[w * i]
  <2>1. i \in Nat /\ i + 1 \in 0 .. n
    BY DEF Upto
  <2>2. pow2[w] \in Nat /\ pow2[w * i] \in Nat
    BY <2>1, PowNext
  <2>3. parts[i] \in Nat
    <3>1. parts[i] \in Upto(pow2[w])
      OBVIOUS
    <3> QED BY <2>2, <3>1 DEF Upto
  <2>4. Sigma(f, i) \in Int /\ Sigma(f, i + 1) = Sigma(f, i) + f[i]
    BY <2>1, ShiftedType, SigmaNext
  <2> QED BY <2>1, <2>2, <2>3, <2>4 DEF Shifted
<1>1. 0 \in U
  <2>1. Sigma(f, i + 1) = Sigma(f, i) + (0 * pow2[w] + parts[i]) * pow2[w * i]
    <3>1. 0 * pow2[w] + parts[i] = parts[i]
      BY <1>0
    <3> QED BY <1>0, <3>1
  <2>2. Up(i + 1) /\ i + 1 + 0 = i + 1
    BY <1>0, <2>1
  <2> HIDE DEF Up
  <2> QED BY <2>2
<1>2. ASSUME NEW k \in U PROVE k + 1 \in U
  <2> DEFINE m == i + 1 + k
  <2> SUFFICES ASSUME m + 1 <= n PROVE Up(m + 1)
    <3>1. i + 1 + (k + 1) = m + 1
      BY <1>0
    <3> HIDE DEF Up
    <3> QED BY <3>1
  <2>1. m \in Nat /\ m <= n /\ m \in Upto(n) /\ m + 1 \in 0 .. n /\ k \in Nat
    BY <1>0 DEF Upto
  <2>2. PICK h \in Nat : Sigma(f, m) = Sigma(f, i) + (h * pow2[w] + parts[i]) * pow2[w * i]
    <3>1. Up(m)
      <4> HIDE DEF Up
      <4> QED BY <2>1
    <3> QED BY <3>1
  <2>3. Sigma(f, m + 1) = Sigma(f, m) + f[m] /\ f[m] = parts[m] * pow2[w * m]
    BY <2>1, ShiftedType, SigmaNext DEF Shifted
  <2>4. parts[m] \in Nat
    <3>1. parts[m] \in Upto(pow2[w])
      BY <2>1
    <3> QED BY <1>0, <3>1 DEF Upto
  <2>5. w * k \in Nat /\ pow2[w * k] \in Nat /\ pow2[w * m] = pow2[w * k] * pow2[w] * pow2[w * i]
    <3>1. w * k \in Nat /\ w * i \in Nat /\ w * m = (w * k + w) + w * i /\ w * k + w \in Nat
      BY <1>0, <2>1, SMT
    <3>2. pow2[(w * k + w) + w * i] = pow2[w * k + w] * pow2[w * i]
      BY <3>1, PowAdd
    <3>3. pow2[w * k + w] = pow2[w * k] * pow2[w]
      BY <3>1, PowAdd
    <3> HIDE DEF m
    <3> QED BY <3>1, <3>2, <3>3, Pow
  <2> DEFINE g == h + parts[m] * pow2[w * k]
  <2>6. g \in Nat
    BY <2>4, <2>5, MulNat
  <2>7. \A s \in Int, x, y, d, e, P, Q \in Nat :
          s + (x * Q + y) * P + d * (e * Q * P) = s + ((x + d * e) * Q + y) * P
    BY SMT
  <2>8. Sigma(f, m + 1) = Sigma(f, i) + (g * pow2[w] + parts[i]) * pow2[w * i]
    <3> HIDE DEF f, m
    <3>1. Sigma(f, m + 1) = Sigma(f, i) + (h * pow2[w] + parts[i]) * pow2[w * i] + parts[m] * (pow2[w * k] * pow2[w] * pow2[w * i])
      BY <2>2, <2>3, <2>5
    <3> QED BY <1>0, <2>4, <2>5, <2>7, <3>1
  <2> HIDE DEF f, g, m
  <2> QED BY <2>6, <2>8
<1>3. U = Nat
  <2>1. U \in SUBSET Nat
    OBVIOUS
  <2> HIDE DEF U
  <2> QED BY <1>1, <1>2, <2>1, Induction
<1> DEFINE r == n - (i + 1)
<1>4. r \in Nat /\ i + 1 + r = n
  BY <1>0
<1>5. r \in U
  <2> HIDE DEF U, r
  <2> QED BY <1>3, <1>4
<1>6. Up(i + 1 + r)
  <2> HIDE DEF Up, r
  <2> QED BY <1>4, <1>5
<1>7. Up(n)
  <2> HIDE DEF Up, r
  <2> QED BY <1>4, <1>6
<1> QED BY <1>7

(* The n-th part of a word is the part put there. *)
LEMMA BitsOfJoined ==
  ASSUME NEW n \in Nat, NEW w \in Nat, NEW parts \in [Upto(n) -> Upto(pow2[w])], NEW i \in Upto(n)
  PROVE  Bits(Joined(parts, w), w * i, w) = parts[i]
<1> DEFINE f == Shifted(parts, n, w)
<1>1. Joined(parts, w) = Sigma(f, n)
  <2>1. DOMAIN parts = Upto(n) /\ DOMAIN f = Upto(n)
    BY DEF Shifted
  <2>2. Joined(parts, w) = SumFunction(f)
    BY <2>1 DEF Joined, Shifted
  <2> QED BY <2>1, <2>2, SumOnUpto
<1>2. PICK h \in Nat : Sigma(f, n) = Sigma(f, i) + (h * pow2[w] + parts[i]) * pow2[w * i]
  BY JoinedAbove
<1>3. i \in Nat /\ i \in 0 .. n
  BY DEF Upto
<1>4. Sigma(f, i) \in Upto(pow2[w * i]) /\ pow2[w * i] \in Nat \ {0} /\ pow2[w] \in Nat \ {0}
  BY <1>3, JoinedBound, PowNext
<1>5. parts[i] \in Upto(pow2[w])
  OBVIOUS
<1> DEFINE q == h * pow2[w] + parts[i]
<1>6. q \in Int /\ parts[i] \in Int /\ h \in Int
  BY <1>4, <1>5, MulNat DEF Upto
<1>7. Sigma(f, n) = q * pow2[w * i] + Sigma(f, i)
  <2>1. Sigma(f, i) \in Int /\ q * pow2[w * i] \in Int
    BY <1>4, <1>6, MulInt DEF Upto
  <2> HIDE DEF f
  <2> QED BY <1>2, <2>1
<1>8. (q * pow2[w * i] + Sigma(f, i)) \div pow2[w * i] = q
  <2> HIDE DEF q, f
  <2> QED BY <1>4, <1>6, DivModIs
<1>9. q % pow2[w] = parts[i]
  BY <1>4, <1>5, <1>6, DivModIs
<1> HIDE DEF q, f
<1> QED BY <1>1, <1>7, <1>8, <1>9 DEF Bits

(* A value and its two's complement. *)
LEMMA SignedOf ==
  ASSUME NEW w \in Nat \ {0}, NEW v \in Int, - pow2[w - 1] <= v, v < pow2[w - 1]
  PROVE  Signed(v % pow2[w], w) = v /\ v % pow2[w] \in Upto(pow2[w])
<1>1. w - 1 \in Nat /\ (w - 1) + 1 = w
  OBVIOUS
<1>2. pow2[w] = 2 * pow2[w - 1] /\ pow2[w - 1] \in Nat \ {0} /\ pow2[w] \in Nat \ {0}
  BY <1>1, Pow
<1>3. CASE v >= 0
  <2>1. v \in Upto(pow2[w]) /\ v = 0 * pow2[w] + v
    BY <1>2, <1>3 DEF Upto
  <2>2. v % pow2[w] = v
    <3>1. (0 * pow2[w] + v) % pow2[w] = v
      <4>1. 0 \in Int
        OBVIOUS
      <4> QED BY <1>2, <2>1, <4>1, DivModIs
    <3> QED BY <2>1, <3>1
  <2> QED BY <1>2, <1>3, <2>1, <2>2 DEF Signed
<1>4. CASE v < 0
  <2> DEFINE r == v + pow2[w]
  <2>1. r \in Upto(pow2[w]) /\ (-1) * pow2[w] + r = v /\ r >= pow2[w - 1]
    BY <1>2, <1>4 DEF Upto
  <2>2. v % pow2[w] = r
    <3>1. ((-1) * pow2[w] + r) % pow2[w] = r
      <4> HIDE DEF r
      <4>1. -1 \in Int
        OBVIOUS
      <4> QED BY <1>2, <2>1, <4>1, DivModIs
    <3> HIDE DEF r
    <3> QED BY <2>1, <3>1
  <2> QED BY <1>2, <2>1, <2>2 DEF Signed
<1> QED BY <1>3, <1>4

-----------------------------------------------------------------------------
(* Sequences of one length after each other. *)
Blocks(seqs, n, V, L) ==
  /\ Len(seqs) = n
  /\ \A i \in 1 .. n : seqs[i] \in Seq(V) /\ Len(seqs[i]) = L

FlatOf(s, seqs, n, V, L) ==
  /\ s \in Seq(V) /\ Len(s) = n * L
  /\ \A i \in 1 .. n, p \in 1 .. L :
       (i - 1) * L + p \in 1 .. n * L /\ s[(i - 1) * L + p] = seqs[i][p]

(* The p-th element of the i-th sequence. *)
LEMMA Within ==
  ASSUME NEW n \in Nat, NEW L \in Nat, NEW i \in 1 .. n, NEW p \in 1 .. L
  PROVE  (i - 1) * L + p \in 1 .. n * L /\ (i - 1) * L + L <= n * L /\ (i - 1) * L \in Nat
<1>1. i - 1 \in Int /\ n \in Int /\ i - 1 < n /\ L \in Nat \ {0} /\ i - 1 \in Nat
  OBVIOUS
<1>2. (i - 1) * L + L <= n * L
  BY <1>1, Apart
<1>3. (i - 1) * L \in Nat /\ n * L \in Nat
  BY <1>1, MulNat
<1> QED BY <1>1, <1>2, <1>3

(* FlattenSeq puts it at (i - 1) * L + p. *)
LEMMA Flattened ==
  ASSUME NEW V, NEW L \in Nat, NEW n \in Nat \ {0}, NEW seqs, Blocks(seqs, n, V, L)
  PROVE  FlatOf(FlattenSeq(seqs), seqs, n, V, L)
<1> DEFINE g == CHOOSE g : IsFlat(g, seqs, n)
<1>1. IsFlat(g, seqs, n)
  BY FlatExists
<1>2. FlattenSeq(seqs) = g[n]
  <2>1. Len(seqs) = n /\ n # 0
    BY DEF Blocks
  <2> QED BY <2>1 DEF FlattenSeq, IsFlat
<1> HIDE DEF g
<1> DEFINE U == {m \in Nat : m + 1 <= n => FlatOf(g[m + 1], seqs, m + 1, V, L)}
<1>3. 0 \in U
  <2>1. g[1] = seqs[1] /\ 1 \in 1 .. n
    BY <1>1 DEF IsFlat
  <2>2. seqs[1] \in Seq(V) /\ Len(seqs[1]) = L
    BY <2>1 DEF Blocks
  <2>3. 1 * L = L /\ (1 - 1) * L = 0 /\ 1 .. 1 = {1}
    OBVIOUS
  <2>4. FlatOf(g[1], seqs, 1, V, L)
    BY <2>1, <2>2, <2>3 DEF FlatOf
  <2> QED BY <2>4
<1>4. ASSUME NEW m \in U PROVE m + 1 \in U
  <2> DEFINE k == m + 1
  <2> SUFFICES ASSUME k + 1 <= n PROVE FlatOf(g[k + 1], seqs, k + 1, V, L)
    OBVIOUS
  <2>1. k \in Nat /\ k <= n /\ k + 1 \in 1 .. n /\ k * L \in Nat /\ (k + 1) * L = k * L + L
    BY SMT
  <2>2. g[k + 1] = g[k] \o seqs[k + 1]
    <3> HIDE DEF k
    <3>1. g = [i \in 1 .. n |-> IF i = 1 THEN seqs[i] ELSE g[i - 1] \o seqs[i]]
      BY <1>1 DEF IsFlat
    <3> DEFINE Body(i) == IF i = 1 THEN seqs[i] ELSE g[i - 1] \o seqs[i]
    <3> HIDE DEF Body
    <3>2. g = [i \in 1 .. n |-> Body(i)]
      BY <3>1 DEF Body
    <3>3. g[k + 1] = Body(k + 1)
      BY <2>1, <3>2
    <3>4. k + 1 # 1 /\ (k + 1) - 1 = k
      <4>1. k >= 1
        BY DEF k
      <4> QED BY <2>1, <4>1
    <3> QED BY <3>3, <3>4, Zenon DEF Body
  <2>3. FlatOf(g[k], seqs, k, V, L)
    <3>1. m + 1 <= n /\ m \in Nat
      BY <2>1
    <3> QED BY <3>1
  <2>4. seqs[k + 1] \in Seq(V) /\ Len(seqs[k + 1]) = L
    <3> HIDE DEF k
    <3> QED BY <2>1 DEF Blocks
  <2> HIDE DEF k
  <2>5. g[k] \in Seq(V) /\ Len(g[k]) = k * L
    BY <2>3 DEF FlatOf
  <2>6. /\ g[k + 1] \in Seq(V) /\ Len(g[k + 1]) = (k + 1) * L
        /\ \A x \in 1 .. k * L : g[k + 1][x] = g[k][x]
        /\ \A x \in 1 .. L : g[k + 1][k * L + x] = seqs[k + 1][x]
    <3> DEFINE s == g[k]
               t == seqs[k + 1]
    <3>1. s \in Seq(V) /\ t \in Seq(V) /\ Len(s) = k * L /\ Len(t) = L /\ g[k + 1] = s \o t
      BY <2>2, <2>4, <2>5
    <3> HIDE DEF s, t
    <3>2. /\ s \o t \in Seq(V) /\ Len(s \o t) = Len(s) + Len(t)
          /\ \A i \in 1 .. Len(s) : (s \o t)[i] = s[i]
          /\ \A i \in 1 .. Len(t) : (s \o t)[Len(s) + i] = t[i]
      <4> HIDE <3>1
      <4>1. s \in Seq(V) /\ t \in Seq(V)
        BY <3>1
      <4> QED BY <4>1, Concat
    <3> QED BY <2>1, <3>1, <3>2 DEF s, t
  <2>7. ASSUME NEW i \in 1 .. k + 1, NEW p \in 1 .. L
        PROVE  (i - 1) * L + p \in 1 .. (k + 1) * L /\ g[k + 1][(i - 1) * L + p] = seqs[i][p]
    <3>1. (i - 1) * L + p \in 1 .. (k + 1) * L
      <4>1. k + 1 \in Nat
        BY <2>1
      <4> QED BY <4>1, Within
    <3>2. CASE i = k + 1
      <4>1. i - 1 = k
        BY <2>1, <3>2
      <4> QED BY <2>6, <3>1, <3>2, <4>1
    <3>3. CASE i # k + 1
      <4>1. i \in 1 .. k
        BY <2>1, <3>3
      <4>2. (i - 1) * L + p \in 1 .. k * L /\ g[k][(i - 1) * L + p] = seqs[i][p]
        BY <2>3, <4>1 DEF FlatOf
      <4> QED BY <2>6, <3>1, <4>2
    <3> QED BY <3>2, <3>3
  <2> QED BY <2>6, <2>7 DEF FlatOf
<1>5. U = Nat
  <2>1. U \in SUBSET Nat
    OBVIOUS
  <2> HIDE DEF U
  <2> QED BY <1>3, <1>4, <2>1, Induction
<1>6. FlatOf(g[n], seqs, n, V, L)
  <2> DEFINE m == n - 1
  <2>1. m \in Nat /\ m + 1 = n
    OBVIOUS
  <2>2. m \in U
    <3> HIDE DEF U, m
    <3> QED BY <1>5, <2>1
  <2>3. FlatOf(g[m + 1], seqs, m + 1, V, L)
    <3> HIDE DEF m
    <3> QED BY <2>1, <2>2
  <2> HIDE DEF m
  <2> QED BY <2>1, <2>3
<1> QED BY <1>2, <1>6

-----------------------------------------------------------------------------
(* The sizes of a tile, and a frame of beats. *)

(* None of the sizes is zero. *)
LEMMA TileSizes ==
  /\ PE \in Nat \ {0} /\ R \in Nat \ {0} /\ S \in Nat \ {0} /\ K \in Nat \ {0} /\ OPW \in Nat \ {0}
  /\ AMAX \in Nat /\ TM = N /\ TP = NC /\ TK = K /\ N \in Nat \ {0} /\ NC \in Nat \ {0}
  /\ ACCW \in Nat \ {0} /\ ACCW - 1 \in Nat /\ OPW - 1 \in Nat
<1>1. /\ PE \in Nat \ {0} /\ R \in Nat \ {0} /\ S \in Nat \ {0} /\ K \in Nat \ {0} /\ OPW \in Nat \ {0}
      /\ AMAX \in Nat
  BY SMT, TileAssumption
<1>2. \A x, y \in Nat \ {0} : x * y \in Nat \ {0}
  BY SMT
<1> QED BY <1>1, <1>2 DEF TM, TP, TK, N, NC, ACCW

(* APB accumulators to a beat and CBEAT beats to a block. *)
LEMMA BeatSizes ==
  /\ APB \in Nat \ {0} /\ CBEAT \in Nat \ {0} /\ CBEAT * APB = PE * PE /\ PE * PE \in Nat \ {0}
<1>1. PICK h \in Nat \ {0} : PE = 2 * h
  <2>1. PE = (PE \div 2) * 2 + (PE % 2) /\ PE \div 2 \in Int
    BY TileSizes, DivMod
  <2>2. PE % 2 = 0
    BY TileAssumption
  <2>3. PE \div 2 \in Nat \ {0} /\ PE = 2 * (PE \div 2)
    BY <2>1, <2>2, TileSizes
  <2> QED BY <2>3
<1>2. APB = h
  <2>1. W = h * ACCW + 0
    <3>1. \A x, y \in Nat : (2 * x) * y = x * (2 * y) + 0
      BY SMT
    <3> QED BY <1>1, <3>1, TileSizes DEF W, ACCW
  <2>2. h \in Int /\ 0 \in Upto(ACCW)
    BY TileSizes DEF Upto
  <2>3. (h * ACCW + 0) \div ACCW = h
    BY <2>2, TileSizes, DivModIs
  <2> QED BY <2>1, <2>3 DEF APB
<1>3. PE * PE = (4 * h) * h + 0
  BY <1>1, SMT
<1>4. 4 * h \in Nat \ {0} /\ 0 \in Upto(h) /\ 4 * h \in Int
  BY DEF Upto
<1>5. ((4 * h) * h + 0) \div h = 4 * h
  <2> DEFINE q == 4 * h
  <2> HIDE DEF q
  <2>1. q \in Int /\ 0 \in Upto(h)
    BY <1>4 DEF q
  <2>2. (q * h + 0) \div h = q
    BY <2>1, DivModIs
  <2> QED BY <2>2 DEF q
<1>6. CBEAT = 4 * h
  BY <1>2, <1>3, <1>5 DEF CBEAT
<1>7. PE * PE \in Nat \ {0}
  <2>1. \A x \in Nat \ {0} : x * x \in Nat \ {0}
    BY SMT
  <2> QED BY <2>1, TileSizes
<1> QED BY <1>2, <1>3, <1>4, <1>6, <1>7

(* A number in rows of PE. *)
LEMMA RowCol ==
  ASSUME NEW P \in Nat \ {0}, NEW n \in Nat, NEW i \in Upto(n * P)
  PROVE  i \div P \in Upto(n) /\ i % P \in Upto(P) /\ i = (i \div P) * P + (i % P) /\ i \in Nat
<1>1. i \in Int /\ n * P \in Nat /\ i < n * P /\ 0 <= i
  BY MulNat DEF Upto
<1>2. i \div P \in Int /\ i % P \in Upto(P) /\ i = (i \div P) * P + (i % P)
  BY <1>1, DivMod
<1> DEFINE d == i \div P
           m == i % P
<1> HIDE DEF d, m
<1>3. d \in Int /\ m \in Int /\ 0 <= m /\ m < P /\ i = d * P + m /\ d * P \in Int
  BY <1>2, MulInt DEF d, m, Upto
<1>4. d < n
  <2> SUFFICES ASSUME ~(d < n) PROVE FALSE
    OBVIOUS
  <2>1. CASE d = n
    BY <1>1, <1>3, <2>1
  <2>2. CASE n < d
    <3>1. n * P + P <= d * P
      BY <1>3, <2>2, Apart
    <3> QED BY <1>1, <1>3, <3>1
  <2> QED BY <1>3, <2>1, <2>2
<1>5. d >= 0
  <2> SUFFICES ASSUME d < 0 PROVE FALSE
    BY <1>3
  <2>0. 0 \in Int /\ d < 0 /\ d \in Int
    BY <1>3
  <2>1. d * P + P <= 0 * P
    BY <2>0, Apart
  <2> QED BY <1>1, <1>3, <2>1
<1>6. d \in Upto(n)
  BY <1>3, <1>4, <1>5 DEF Upto
<1> QED BY <1>1, <1>2, <1>6 DEF d

LEMMA ColRow ==
  ASSUME NEW P \in Nat \ {0}, NEW n \in Nat, NEW d \in Upto(n), NEW m \in Upto(P)
  PROVE  d * P + m \in Upto(n * P) /\ (d * P + m) \div P = d /\ (d * P + m) % P = m
<1>1. d \in Int /\ d < n /\ d \in Nat /\ n \in Int /\ m \in Nat /\ m < P
  BY DEF Upto
<1>2. d * P + P <= n * P /\ d * P \in Nat /\ n * P \in Nat
  BY <1>1, Apart, MulNat
<1> QED BY <1>1, <1>2, DivModIs DEF Upto
-----------------------------------------------------------------------------
(* What a tile holds, and what travels. *)
Value == -AMAX .. AMAX
Header == [type : {"A_FRAME", "B_FRAME", "C_DATA"}, dst : Nat \X Nat, len : Nat]
Beat == [w : Nat] \cup Header

(* Every operand of a beat comes out of it again, sign included. *)
LEMMA PackIs ==
  ASSUME NEW vals \in [Upto(PE) -> Value]
  PROVE  /\ pack(vals) \in Beat
         /\ \A i \in Upto(PE) : Signed(Bits(pack(vals).w, OPW * i, OPW), OPW) = vals[i]
<1> DEFINE parts == [n \in DOMAIN vals |-> vals[n] % pow2[OPW]]
<1>1. ASSUME NEW i \in Upto(PE)
      PROVE  Signed(parts[i], OPW) = vals[i] /\ parts[i] \in Upto(pow2[OPW])
  <2>1. vals[i] \in Value /\ parts[i] = vals[i] % pow2[OPW]
    OBVIOUS
  <2>2. AMAX < pow2[OPW - 1] /\ pow2[OPW - 1] \in Nat
    BY OverflowAssumption, TileSizes, Pow
  <2>3. vals[i] \in Int /\ - pow2[OPW - 1] <= vals[i] /\ vals[i] < pow2[OPW - 1]
    BY <2>1, <2>2, TileSizes DEF Value
  <2> QED BY <2>1, <2>3, TileSizes, SignedOf
<1>2. parts \in [Upto(PE) -> Upto(pow2[OPW])]
  BY <1>1
<1>3. pack(vals) = [w |-> Joined(parts, OPW)]
  BY DEF pack
<1> HIDE DEF parts
<1>4. Joined(parts, OPW) \in Nat
  <2>1. Joined(parts, OPW) = SumFunction(Shifted(parts, PE, OPW)) /\ DOMAIN Shifted(parts, PE, OPW) = Upto(PE)
    <3>1. DOMAIN parts = Upto(PE)
      BY <1>2
    <3> QED BY <3>1 DEF Joined, Shifted
  <2>2. Joined(parts, OPW) = Sigma(Shifted(parts, PE, OPW), PE)
    BY <2>1, TileSizes, SumOnUpto
  <2>3. PE \in 0 .. PE /\ OPW * PE \in Nat /\ PE \in Nat /\ OPW \in Nat
    BY TileSizes, MulNat
  <2>4. Sigma(Shifted(parts, PE, OPW), PE) \in Upto(pow2[OPW * PE])
    BY <1>2, <2>3, JoinedBound
  <2>5. pow2[OPW * PE] \in Nat
    BY <2>3, Pow
  <2> QED BY <2>2, <2>4, <2>5 DEF Upto
<1>5. \A i \in Upto(PE) : Bits(Joined(parts, OPW), OPW * i, OPW) = parts[i]
  BY <1>2, TileSizes, BitsOfJoined
<1> QED BY <1>1, <1>3, <1>4, <1>5 DEF Beat

(* The values of a frame, and the beats they make. *)
Vals == [Upto(K) -> [Upto(PE) -> Value]]

LEMMA FrameIs ==
  ASSUME NEW header \in Header, NEW vals \in Vals
  PROVE  /\ Frame(header, vals) \in Seq(Beat) /\ Len(Frame(header, vals)) = 1 + K
         /\ \A k \in Upto(K) : k + 2 \in 1 .. 1 + K /\ Frame(header, vals)[k + 2] = pack(vals[k])
<1> DEFINE t == [k \in 1 .. K |-> pack(vals[k - 1])]
           s == <<header>>
<1>1. K \in Nat
  BY TileSizes
<1>2. ASSUME NEW k \in 1 .. K PROVE pack(vals[k - 1]) \in Beat
  <2>1. k - 1 \in Upto(K)
    BY <1>1 DEF Upto
  <2>2. vals[k - 1] \in [Upto(PE) -> Value]
    BY <2>1 DEF Vals
  <2> QED BY <2>2, PackIs
<1>3. t \in Seq(Beat) /\ Len(t) = K
  BY <1>1, <1>2
<1>4. s \in Seq(Beat) /\ Len(s) = 1
  BY DEF Beat
<1>5. Frame(header, vals) = s \o t
  BY DEF Frame
<1>6. ASSUME NEW k \in Upto(K)
      PROVE k + 2 \in 1 .. 1 + K /\ k + 1 \in 1 .. Len(t) /\ t[k + 1] = pack(vals[k]) /\ 1 + (k + 1) = k + 2
  <2>1. k \in Nat /\ k + 1 \in 1 .. K /\ (k + 1) - 1 = k /\ k + 2 \in 1 .. 1 + K
    BY <1>1 DEF Upto
  <2>2. t[k + 1] = pack(vals[(k + 1) - 1])
    BY <2>1
  <2> HIDE DEF t
  <2> QED BY <1>3, <2>1, <2>2
<1> HIDE DEF s, t
<1>7. /\ s \o t \in Seq(Beat) /\ Len(s \o t) = Len(s) + Len(t)
      /\ \A i \in 1 .. Len(t) : (s \o t)[Len(s) + i] = t[i]
  <2>1. s \in Seq(Beat) /\ t \in Seq(Beat)
    BY <1>3, <1>4
  <2> QED BY <2>1, Concat
<1>8. ASSUME NEW k \in Upto(K) PROVE (s \o t)[k + 2] = pack(vals[k])
  <2>1. (s \o t)[Len(s) + (k + 1)] = t[k + 1]
    BY <1>6, <1>7
  <2> QED BY <1>4, <1>6, <2>1
<1> QED BY <1>3, <1>4, <1>5, <1>6, <1>7, <1>8

-----------------------------------------------------------------------------
(* The stream of a tile. *)

(* The two factors of a tile product, and the values of their frames. *)
FactorA == [Upto(N) \X Upto(K) -> Value]
FactorB == [Upto(K) \X Upto(NC) -> Value]

bVals(B, col) == [k \in Upto(K) |-> [j \in Upto(PE) |-> B[k, col * PE + j]]]
aVals(A, row) == [k \in Upto(K) |-> [i \in Upto(PE) |-> A[row * PE + i, k]]]

LEMMA bFrameIs ==
  ASSUME NEW B \in FactorB, NEW col \in Upto(S)
  PROVE  /\ bFrame(B, col) \in Seq(Beat) /\ Len(bFrame(B, col)) = 1 + K
         /\ \A k \in Upto(K) : k + 2 \in 1 .. 1 + K /\ bFrame(B, col)[k + 2] = pack(bVals(B, col)[k])
         /\ bVals(B, col) \in Vals
<1> DEFINE h == hdr("B_FRAME", 0, col, K)
<1>1. h \in Header
  <2>1. col \in Nat /\ K \in Nat
    BY TileSizes DEF Upto
  <2> QED BY <2>1 DEF hdr, Header
<1>2. bVals(B, col) \in Vals
  <2>1. ASSUME NEW k \in Upto(K), NEW j \in Upto(PE) PROVE B[k, col * PE + j] \in Value
    <3>1. col * PE + j \in Upto(S * PE)
      BY ColRow, TileSizes
    <3> QED BY <3>1 DEF FactorB, NC
  <2> QED BY <2>1 DEF bVals, Vals
<1>3. bFrame(B, col) = Frame(h, bVals(B, col))
  BY DEF bFrame, bVals
<1> HIDE DEF h
<1> QED BY <1>1, <1>2, <1>3, FrameIs

LEMMA aFrameIs ==
  ASSUME NEW A \in FactorA, NEW row \in Upto(R)
  PROVE  /\ aFrame(A, row) \in Seq(Beat) /\ Len(aFrame(A, row)) = 1 + K
         /\ \A k \in Upto(K) : k + 2 \in 1 .. 1 + K /\ aFrame(A, row)[k + 2] = pack(aVals(A, row)[k])
         /\ aVals(A, row) \in Vals
<1> DEFINE h == hdr("A_FRAME", row, 0, K)
<1>1. h \in Header
  <2>1. row \in Nat /\ K \in Nat
    BY TileSizes DEF Upto
  <2> QED BY <2>1 DEF hdr, Header
<1>2. aVals(A, row) \in Vals
  <2>1. ASSUME NEW k \in Upto(K), NEW i \in Upto(PE) PROVE A[row * PE + i, k] \in Value
    <3>1. row * PE + i \in Upto(R * PE)
      BY ColRow, TileSizes
    <3> QED BY <3>1 DEF FactorA, N
  <2> QED BY <2>1 DEF aVals, Vals
<1>3. aFrame(A, row) = Frame(h, aVals(A, row))
  BY DEF aFrame, aVals
<1> HIDE DEF h
<1> QED BY <1>1, <1>2, <1>3, FrameIs


(* The beats of a stream are those of both transfers. *)
LEMMA Counts ==
  /\ B_BEATS \in Nat /\ A_BEATS \in Nat /\ in_beats \in Nat /\ 1 + K \in Nat
  /\ B_BEATS = S * (1 + K) /\ A_BEATS = R * (1 + K) /\ in_beats = (S + R) * (1 + K)
  /\ S + R \in Nat \ {0}
<1>1. \A x, y, z \in Nat : x * z \in Nat /\ (x + y) * z = x * z + y * z
  BY SMT
<1> QED BY <1>1, TileSizes DEF B_BEATS, A_BEATS, in_beats

(* The frames one after another: where the beats of each are. *)
LEMMA StreamIs ==
  ASSUME NEW A \in FactorA, NEW B \in FactorB
  PROVE  /\ build_stream(A, B) \in Seq(Beat) /\ Len(build_stream(A, B)) = in_beats
         /\ \A f \in Upto(S), k \in Upto(K) :
              /\ f * (1 + K) + k + 2 \in 1 .. B_BEATS
              /\ build_stream(A, B)[f * (1 + K) + k + 2] = pack(bVals(B, f)[k])
         /\ \A f \in Upto(R), k \in Upto(K) :
              /\ f * (1 + K) + k + 2 \in 1 .. A_BEATS
              /\ build_stream(A, B)[B_BEATS + (f * (1 + K) + k + 2)] = pack(aVals(A, f)[k])
<1> DEFINE s == [f \in 1 .. S |-> bFrame(B, f - 1)]
           t == [f \in 1 .. R |-> aFrame(A, f - 1)]
           F == Seq(Beat)
           L == 1 + K
           st == build_stream(A, B)
<1>0. S \in Nat /\ R \in Nat /\ K \in Nat /\ L \in Nat
  BY TileSizes
<1>1. ASSUME NEW f \in 1 .. S PROVE f - 1 \in Upto(S) /\ bFrame(B, f - 1) \in F /\ Len(bFrame(B, f - 1)) = L
  <2>1. f - 1 \in Upto(S)
    BY <1>0 DEF Upto
  <2> QED BY <2>1, bFrameIs
<1>2. ASSUME NEW f \in 1 .. R PROVE f - 1 \in Upto(R) /\ aFrame(A, f - 1) \in F /\ Len(aFrame(A, f - 1)) = L
  <2>1. f - 1 \in Upto(R)
    BY <1>0 DEF Upto
  <2> QED BY <2>1, aFrameIs
<1>3. s \in Seq(F) /\ Len(s) = S /\ t \in Seq(F) /\ Len(t) = R
  <2> HIDE DEF F, L
  <2> QED BY <1>0, <1>1, <1>2
<1>3a. (\A f \in 1 .. S : s[f] = bFrame(B, f - 1)) /\ (\A f \in 1 .. R : t[f] = aFrame(A, f - 1))
  OBVIOUS
<1>4. st = FlattenSeq(s \o t)
  BY DEF build_stream
<1> HIDE DEF s, t
<1>5. /\ s \o t \in Seq(F) /\ Len(s \o t) = Len(s) + Len(t)
      /\ \A i \in 1 .. Len(s) : (s \o t)[i] = s[i]
      /\ \A i \in 1 .. Len(t) : (s \o t)[Len(s) + i] = t[i]
  <2>1. s \in Seq(F) /\ t \in Seq(F)
    BY <1>3
  <2> HIDE DEF F
  <2> QED BY <2>1, Concat
<1>6. /\ \A f \in 1 .. S : (s \o t)[f] = bFrame(B, f - 1)
      /\ \A f \in 1 .. R : (s \o t)[S + f] = aFrame(A, f - 1)
  BY <1>3, <1>3a, <1>5
<1>7. Blocks(s \o t, S + R, Beat, L)
  <2>1. ASSUME NEW i \in 1 .. S + R PROVE (s \o t)[i] \in Seq(Beat) /\ Len((s \o t)[i]) = L
    <3>1. CASE i <= S
      <4>1. i \in 1 .. S
        BY <1>0, <3>1
      <4> QED BY <4>1, <1>1, <1>6
    <3>2. CASE ~(i <= S)
      <4>1. i - S \in 1 .. R /\ S + (i - S) = i
        BY <1>0, <3>2
      <4>2. (s \o t)[S + (i - S)] = aFrame(A, (i - S) - 1)
        BY <4>1, <1>6
      <4> QED BY <4>1, <4>2, <1>2
    <3> QED BY <3>1, <3>2
  <2>2. Len(s \o t) = S + R
    BY <1>3, <1>5
  <2> QED BY <2>1, <2>2 DEF Blocks
<1>8. FlatOf(st, s \o t, S + R, Beat, L)
  <2> HIDE DEF st, L
  <2> QED BY <1>0, <1>4, <1>7, Counts, Flattened
<1>9. st \in Seq(Beat) /\ Len(st) = in_beats
  BY <1>8, Counts DEF FlatOf
<1>10. ASSUME NEW f \in Upto(S), NEW k \in Upto(K)
       PROVE  f * L + k + 2 \in 1 .. B_BEATS /\ st[f * L + k + 2] = pack(bVals(B, f)[k])
  <2>1. f + 1 \in 1 .. S /\ f + 1 \in 1 .. S + R /\ (f + 1) - 1 = f /\ k + 2 \in 1 .. L /\ f \in Nat /\ k \in Nat
    BY <1>0 DEF Upto
  <2>2. st[((f + 1) - 1) * L + (k + 2)] = (s \o t)[f + 1][k + 2]
    BY <1>8, <2>1 DEF FlatOf
  <2>3. (s \o t)[f + 1] = bFrame(B, f)
    BY <1>6, <2>1
  <2>4. bFrame(B, f)[k + 2] = pack(bVals(B, f)[k])
    BY bFrameIs
  <2>5. ((f + 1) - 1) * L + (k + 2) \in 1 .. S * L
    BY <1>0, <2>1, Within
  <2>6. f * L \in Nat
    BY <1>0, <2>1, MulNat
  <2>7. f * L + (k + 2) = f * L + k + 2
    <3> HIDE DEF L
    <3> QED BY <2>1, <2>6
  <2> HIDE DEF st, L
  <2>8. B_BEATS = S * L
    BY Counts DEF L
  <2> QED BY <2>1, <2>2, <2>3, <2>4, <2>5, <2>7, <2>8
<1>11. ASSUME NEW f \in Upto(R), NEW k \in Upto(K)
       PROVE  f * L + k + 2 \in 1 .. A_BEATS /\ st[B_BEATS + (f * L + k + 2)] = pack(aVals(A, f)[k])
  <2>1. /\ f + 1 \in 1 .. R /\ S + (f + 1) \in 1 .. S + R /\ (S + (f + 1)) - 1 = S + f
        /\ (f + 1) - 1 = f /\ k + 2 \in 1 .. L /\ f \in Nat /\ k \in Nat
    BY <1>0 DEF Upto
  <2>2. st[((S + (f + 1)) - 1) * L + (k + 2)] = (s \o t)[S + (f + 1)][k + 2]
    BY <1>8, <2>1 DEF FlatOf
  <2>3. (s \o t)[S + (f + 1)] = aFrame(A, (f + 1) - 1)
    BY <1>6, <2>1
  <2>4. aFrame(A, f)[k + 2] = pack(aVals(A, f)[k])
    BY aFrameIs
  <2>5. ((f + 1) - 1) * L + (k + 2) \in 1 .. R * L
    BY <1>0, <2>1, Within
  <2>6. f * L \in Nat /\ S * L \in Nat /\ (S + f) * L = S * L + f * L
    <3>1. \A x, y, z \in Nat : x * z \in Nat /\ (x + y) * z = x * z + y * z
      BY SMT
    <3> QED BY <1>0, <2>1, <3>1
  <2> HIDE DEF st, L
  <2>7. f * L + (k + 2) = f * L + k + 2 /\ (S + f) * L + (k + 2) = S * L + (f * L + k + 2)
    BY <2>1, <2>6
  <2>8. B_BEATS = S * L /\ A_BEATS = R * L
    BY Counts DEF L
  <2> QED BY <2>1, <2>2, <2>3, <2>4, <2>5, <2>7, <2>8
<1> QED BY <1>9, <1>10, <1>11

-----------------------------------------------------------------------------
(* What the grid computes of a stream. *)

(* What run_tiles hands to the grid of one stream, in two transfers. *)
First(stream) == SubSeq(stream, 1, B_BEATS)
Second(stream) == SubSeq(stream, B_BEATS + 1, in_beats)

(* What the transfers hold of the stream. *)
LEMMA Transfers ==
  ASSUME NEW stream, Len(stream) = in_beats
  PROVE  /\ \A x \in 1 .. B_BEATS : First(stream)[x] = stream[x]
         /\ \A x \in 1 .. A_BEATS : Second(stream)[x] = stream[B_BEATS + x]
<1>1. First(stream) = [i \in 1 .. B_BEATS |-> stream[i]]
  <2>1. 1 .. (1 + B_BEATS) - 1 = 1 .. B_BEATS
    BY Counts
  <2> QED BY <2>1, Counts DEF First
<1>2. ASSUME NEW x \in 1 .. A_BEATS PROVE Second(stream)[x] = stream[B_BEATS + x]
  <2> DEFINE b == B_BEATS
             e == in_beats
  <2>1. b \in Nat /\ e \in Nat /\ A_BEATS \in Nat /\ e = b + A_BEATS /\ x \in Nat
    BY Counts DEF in_beats
  <2>2. x \in 1 .. (1 + e) - (b + 1) /\ (x + (b + 1)) - 1 = b + x
    BY <2>1
  <2> HIDE DEF b, e
  <2>3. SubSeq(stream, b + 1, e)[x] = stream[b + x]
    BY <2>1, <2>2
  <2> QED BY <2>3 DEF Second, b, e
<1> QED BY <1>1, <1>2

(* Every operand of the grid is the entry of the factor it should be. *)
LEMMA Operands ==
  ASSUME NEW A \in FactorA, NEW B \in FactorB
  PROVE  /\ \A j \in Upto(NC), k \in Upto(K) : Operand(First(build_stream(A, B)), j, k) = B[k, j]
         /\ \A i \in Upto(N), k \in Upto(K) : Operand(Second(build_stream(A, B)), i, k) = A[i, k]
<1> DEFINE st == build_stream(A, B)
<1>0. Len(st) = in_beats
  BY StreamIs
<1>1. ASSUME NEW j \in Upto(NC), NEW k \in Upto(K)
      PROVE  Operand(First(st), j, k) = B[k, j]
  <2> DEFINE f == j \div PE
             c == j % PE
  <2>1. f \in Upto(S) /\ c \in Upto(PE) /\ j = f * PE + c
    BY RowCol, TileSizes DEF NC
  <2>2. Operand(First(st), j, k) = Signed(Bits(First(st)[f * (1 + K) + k + 2].w, OPW * c, OPW), OPW)
    BY DEF Operand
  <2> HIDE DEF f, c, st
  <2>3. First(st)[f * (1 + K) + k + 2] = pack(bVals(B, f)[k])
    <3>1. f * (1 + K) + k + 2 \in 1 .. B_BEATS /\ st[f * (1 + K) + k + 2] = pack(bVals(B, f)[k])
      BY <2>1, StreamIs DEF st
    <3> QED BY <1>0, <3>1, Transfers
  <2>4. bVals(B, f)[k] \in [Upto(PE) -> Value] /\ bVals(B, f)[k][c] = B[k, f * PE + c]
    <3>1. bVals(B, f) \in Vals
      BY <2>1, bFrameIs
    <3> QED BY <2>1, <3>1 DEF bVals, Vals
  <2>5. Signed(Bits(pack(bVals(B, f)[k]).w, OPW * c, OPW), OPW) = bVals(B, f)[k][c]
    BY <2>1, <2>4, PackIs
  <2> QED BY <2>1, <2>2, <2>3, <2>4, <2>5
<1>2. ASSUME NEW i \in Upto(N), NEW k \in Upto(K)
      PROVE  Operand(Second(st), i, k) = A[i, k]
  <2> DEFINE f == i \div PE
             c == i % PE
  <2>1. f \in Upto(R) /\ c \in Upto(PE) /\ i = f * PE + c
    BY RowCol, TileSizes DEF N
  <2>2. Operand(Second(st), i, k) = Signed(Bits(Second(st)[f * (1 + K) + k + 2].w, OPW * c, OPW), OPW)
    BY DEF Operand
  <2> HIDE DEF f, c, st
  <2>3. Second(st)[f * (1 + K) + k + 2] = pack(aVals(A, f)[k])
    <3>1. f * (1 + K) + k + 2 \in 1 .. A_BEATS /\ st[B_BEATS + (f * (1 + K) + k + 2)] = pack(aVals(A, f)[k])
      BY <2>1, StreamIs DEF st
    <3> QED BY <1>0, <3>1, Transfers
  <2>4. aVals(A, f)[k] \in [Upto(PE) -> Value] /\ aVals(A, f)[k][c] = A[f * PE + c, k]
    <3>1. aVals(A, f) \in Vals
      BY <2>1, aFrameIs
    <3> QED BY <2>1, <3>1 DEF aVals, Vals
  <2>5. Signed(Bits(pack(aVals(A, f)[k]).w, OPW * c, OPW), OPW) = aVals(A, f)[k][c]
    BY <2>1, <2>4, PackIs
  <2> QED BY <2>1, <2>2, <2>3, <2>4, <2>5
<1> QED BY <1>1, <1>2

(* An entry of the product of two tiles, before it leaves the grid. *)
Entry(A, B, i, j) == Sigma([k \in Upto(K) |-> A[i, k] * B[k, j]], K)

(* It fits an accumulator: the host's assertion. *)
LEMMA EntryIs ==
  ASSUME NEW A \in FactorA, NEW B \in FactorB, NEW i \in Upto(N), NEW j \in Upto(NC)
  PROVE  /\ Entry(A, B, i, j) \in Int
         /\ - pow2[ACCW - 1] <= Entry(A, B, i, j) /\ Entry(A, B, i, j) < pow2[ACCW - 1]
<1> DEFINE f == [k \in Upto(K) |-> A[i, k] * B[k, j]]
           c == AMAX * AMAX
<1>1. \A x, y \in Value : x * y \in -c .. c
  <2> SUFFICES ASSUME NEW x \in Value, NEW y \in Value PROVE x * y \in -c .. c
    OBVIOUS
  <2>1. x \in Int /\ y \in Int /\ -AMAX <= x /\ x <= AMAX /\ -AMAX <= y /\ y <= AMAX /\ AMAX \in Nat
    BY TileSizes DEF Value
  <2>2. \A u, v, m \in Int : -m <= u /\ u <= m /\ -m <= v /\ v <= m => -(m * m) <= u * v /\ u * v <= m * m
    BY SMT
  <2>3. x * y \in Int /\ c \in Int
    BY <2>1, MulInt
  <2>4. -(AMAX * AMAX) <= x * y /\ x * y <= AMAX * AMAX
    BY <2>1, <2>2
  <2> QED BY <2>3, <2>4
<1>2. ASSUME NEW k \in Upto(K) PROVE f[k] \in -c .. c
  <2>1. A[i, k] \in Value /\ B[k, j] \in Value
    BY DEF FactorA, FactorB
  <2> HIDE DEF c
  <2> QED BY <1>1, <2>1
<1>3. c \in Nat /\ K \in Nat
  BY TileSizes, MulNat
<1>4. Sigma(f, K) \in -(K * c) .. K * c
  <2> HIDE DEF c, f
  <2> QED BY <1>2, <1>3, SigmaBound
<1>5. K * c \in Nat /\ K * c < pow2[ACCW - 1] /\ pow2[ACCW - 1] \in Nat
  <2>1. \A x, y, z \in Nat : x * (y * z) = x * y * z
    BY SMT
  <2>2. K * c = TK * AMAX * AMAX
    BY <2>1, TileSizes
  <2> QED BY <1>3, <2>2, OverflowAssumption, MulNat, TileSizes, Pow
<1> HIDE DEF c
<1>6. Entry(A, B, i, j) = Sigma(f, K)
  BY DEF Entry
<1> HIDE DEF f
<1> QED BY <1>4, <1>5, <1>6

(* The accumulator holds it in two's complement. *)
LEMMA AccumulatorIs ==
  ASSUME NEW A \in FactorA, NEW B \in FactorB, NEW i \in Upto(N), NEW j \in Upto(NC)
  PROVE  LET st == build_stream(A, B)
         IN  /\ Accumulator(First(st), Second(st), i, j) \in Upto(pow2[ACCW])
             /\ Signed(Accumulator(First(st), Second(st), i, j), ACCW) = Entry(A, B, i, j)
<1> DEFINE st == build_stream(A, B)
           f == [k \in Upto(K) |-> A[i, k] * B[k, j]]
           g == [k \in Upto(K) |-> Operand(Second(st), i, k) * Operand(First(st), j, k)]
<1>1. g = f
  BY Operands
<1>2. Accumulator(First(st), Second(st), i, j) = SumFunction(g) % pow2[ACCW]
  BY DEF Accumulator
<1>3. SumFunction(f) = Sigma(f, K)
  <2>1. DOMAIN f = Upto(K) /\ K \in Nat
    BY TileSizes
  <2> QED BY <2>1, SumOnUpto
<1>4. Entry(A, B, i, j) = Sigma(f, K)
  BY DEF Entry
<1> HIDE DEF f, g, st
<1>5. Accumulator(First(st), Second(st), i, j) = Entry(A, B, i, j) % pow2[ACCW]
  BY <1>1, <1>2, <1>3, <1>4
<1> QED BY <1>5, EntryIs, SignedOf, TileSizes DEF st

-----------------------------------------------------------------------------
(* What the host unpacks of a result. *)

(* The index of an accumulator in its block, and back. *)
LEMMA PlaceIs ==
  ASSUME NEW i \in Upto(N), NEW j \in Upto(NC)
  PROVE  LET p == Place(i, j)
             q == p \div APB
             b == q \div CBEAT
             n == (q % CBEAT) * APB + (p % APB)
         IN  /\ q \in Upto((R * S) * CBEAT) /\ p % APB \in Upto(APB) /\ q % CBEAT \in Upto(CBEAT)
             /\ (b \div S) * PE + n \div PE = i
             /\ (b % S) * PE + (n % PE) = j
<1> DEFINE p == Place(i, j)
           q == p \div APB
           b == q \div CBEAT
           m == q % CBEAT
           x == p % APB
           n == m * APB + x
           br == i \div PE
           bc == j \div PE
           t == (i % PE) * PE + (j % PE)
           blk == br * S + bc
<1>1. /\ br \in Upto(R) /\ i % PE \in Upto(PE) /\ i = br * PE + (i % PE)
      /\ bc \in Upto(S) /\ j % PE \in Upto(PE) /\ j = bc * PE + (j % PE)
  BY RowCol, TileSizes DEF N, NC
<1>2. t \in Upto(PE * PE) /\ t \div PE = i % PE /\ t % PE = j % PE
  BY <1>1, ColRow, TileSizes
<1>3. blk \in Upto(R * S) /\ blk \div S = br /\ blk % S = bc
  BY <1>1, ColRow, TileSizes
<1>4. p = blk * PE * PE + (i % PE) * PE + (j % PE)
  BY DEF Place
<1> HIDE DEF br, bc, p, q, b, m, x, n, t, blk
<1>5. R * S \in Nat /\ PE * PE \in Nat \ {0} /\ PE \in Nat /\ (R * S) * CBEAT \in Nat /\ blk \in Nat
  BY <1>3, MulNat, TileSizes, BeatSizes DEF Upto
<1>6. p = blk * (PE * PE) + t
  <2>1. \A u, v \in Nat : (u * v) * v = u * (v * v)
    BY SMT
  <2>2. (blk * PE) * PE \in Nat /\ (i % PE) * PE \in Nat /\ (j % PE) \in Nat
    BY <1>1, <1>5, MulNat, TileSizes DEF Upto
  <2>3. (blk * PE) * PE = blk * (PE * PE)
    BY <1>5, <2>1
  <2> QED BY <1>4, <2>2, <2>3 DEF t
<1>7. /\ t \div APB \in Upto(CBEAT) /\ t % APB \in Upto(APB) /\ t = (t \div APB) * APB + (t % APB)
  <2>1. t \in Upto(CBEAT * APB)
    BY <1>2, BeatSizes
  <2> QED BY <2>1, BeatSizes, RowCol
<1> DEFINE d == t \div APB
           e == t % APB
<1> HIDE DEF d, e
<1>8. p = (blk * CBEAT + d) * APB + e
  <2>1. \A u, v, w, y, z \in Nat : u * (v * w) + (y * w + z) = (u * v + y) * w + z
    BY SMT
  <2>2. d \in Nat /\ e \in Nat /\ CBEAT \in Nat /\ APB \in Nat
    BY <1>7, BeatSizes DEF d, e, Upto
  <2>3. p = blk * (CBEAT * APB) + (d * APB + e)
    BY <1>6, <1>7, BeatSizes DEF d, e
  <2> QED BY <1>5, <2>1, <2>2, <2>3
<1>9. d \in Upto(CBEAT) /\ e \in Upto(APB)
  BY <1>7 DEF d, e
<1>10. /\ blk * CBEAT + d \in Upto((R * S) * CBEAT) /\ (blk * CBEAT + d) \div CBEAT = blk
       /\ (blk * CBEAT + d) % CBEAT = d
  BY <1>3, <1>5, <1>9, BeatSizes, ColRow
<1>11. q = blk * CBEAT + d /\ x = e
  <2> DEFINE z == blk * CBEAT + d
  <2>1. z \in Int
    BY <1>5, <1>10 DEF Upto
  <2> HIDE DEF z
  <2>2. (z * APB + e) \div APB = z /\ (z * APB + e) % APB = e
    BY <2>1, <1>9, BeatSizes, DivModIs
  <2> QED BY <1>8, <2>2 DEF q, x, z
<1>12. b = blk /\ m = d
  BY <1>10, <1>11 DEF b, m
<1>13. n = t
  BY <1>7, <1>11, <1>12 DEF n, d, e
<1>14. (b \div S) * PE + n \div PE = i /\ (b % S) * PE + (n % PE) = j
  BY <1>1, <1>2, <1>3, <1>12, <1>13
<1> QED BY <1>9, <1>10, <1>11, <1>12, <1>14 DEF p, q, b, m, x, n

(* What leaves the grid is what the host reads: the product of the tiles. *)
LEMMA UnpackIs ==
  ASSUME NEW A \in FactorA, NEW B \in FactorB, NEW i \in Upto(N), NEW j \in Upto(NC)
  PROVE  LET st == build_stream(A, B)
         IN  unpack_C(Accelerator(First(st), Second(st)))[i, j] = Entry(A, B, i, j)
<1> DEFINE st == build_stream(A, B)
           fst == First(st)
           snd == Second(st)
           acc == Accelerator(fst, snd)
           p == Place(i, j)
           q == p \div APB
           b == q \div CBEAT
           m == q % CBEAT
           x == p % APB
<1>1. /\ q \in Upto((R * S) * CBEAT) /\ x \in Upto(APB) /\ m \in Upto(CBEAT)
      /\ (b \div S) * PE + (m * APB + x) \div PE = i
      /\ (b % S) * PE + ((m * APB + x) % PE) = j
  BY PlaceIs
<1>2. unpack_C(acc)[i, j] = UnpackWord(acc[2 + q].w, x)
  <2>1. unpack_C(acc)[i, j] = Unpacked(acc, Place(i, j))
    <3>1. <<i, j>> \in Upto(N) \X Upto(NC) /\ <<i, j>>[1] = i /\ <<i, j>>[2] = j
      OBVIOUS
    <3> HIDE DEF acc
    <3> QED BY <3>1 DEF unpack_C, Matrix
  <2> QED BY <2>1 DEF Unpacked
<1> HIDE DEF p, q, x
<1>3. acc[2 + q] = CBeat(fst, snd, b, m)
  <2> DEFINE h == <<hdr("C_DATA", R - 1, S - 1, 0)>>
             t == [n \in 1 .. R * S * CBEAT |-> CBeat(fst, snd, (n - 1) \div CBEAT, (n - 1) % CBEAT)]
  <2>1. acc = h \o t
    BY DEF Accelerator
  <2>2. (R * S) * CBEAT \in Nat /\ q \in Nat /\ q + 1 \in 1 .. R * S * CBEAT /\ (q + 1) - 1 = q /\ 2 + q = 1 + (q + 1)
    BY <1>1, MulNat, TileSizes, BeatSizes DEF Upto
  <2>3. t[q + 1] = CBeat(fst, snd, b, m)
    <3> HIDE DEF fst, snd, m
    <3>1. t[q + 1] = CBeat(fst, snd, ((q + 1) - 1) \div CBEAT, ((q + 1) - 1) % CBEAT)
      BY <2>2
    <3> QED BY <2>2, <3>1 DEF m
  <2>4. t \in Seq({t[n] : n \in 1 .. R * S * CBEAT}) /\ Len(t) = R * S * CBEAT /\ h \in Seq({h[1]}) /\ Len(h) = 1
    <3> HIDE DEF fst, snd
    <3> QED BY <2>2
  <2> DEFINE V == {t[n] : n \in 1 .. R * S * CBEAT} \cup {h[1]}
  <2>5. t \in Seq(V) /\ h \in Seq(V)
    <3> HIDE DEF h
    <3>1. \A n \in 1 .. R * S * CBEAT : t[n] \in V
      <4> HIDE DEF t
      <4> QED OBVIOUS
    <3>2. h[1] \in V /\ h = <<h[1]>>
      BY DEF h
    <3>3. <<h[1]>> \in Seq(V)
      <4> HIDE DEF V
      <4> QED BY <3>2
    <3> HIDE DEF V, fst, snd
    <3>4. t \in Seq(V)
      BY <2>2, <3>1
    <3> QED BY <3>2, <3>3, <3>4
  <2> HIDE DEF h, t, V
  <2>6. \A n \in 1 .. Len(t) : (h \o t)[Len(h) + n] = t[n]
    BY <2>5, Concat
  <2>7. (h \o t)[1 + (q + 1)] = t[q + 1]
    BY <2>2, <2>4, <2>6
  <2> HIDE DEF acc
  <2> QED BY <2>1, <2>2, <2>3, <2>7
<1> DEFINE parts == [y \in Upto(APB) |-> OfBlock(fst, snd, b, m * APB + y)]
<1>4. CBeat(fst, snd, b, m).w = Joined(parts, ACCW)
  BY DEF CBeat
<1> HIDE DEF acc, m
<1>5. parts[x] = Accumulator(fst, snd, i, j)
  <2> HIDE DEF fst, snd, b
  <2>1. parts[x] = OfBlock(fst, snd, b, m * APB + x)
    BY <1>1
  <2> QED BY <1>1, <2>1 DEF OfBlock
<1>6. ASSUME NEW y \in Upto(APB) PROVE parts[y] \in Upto(pow2[ACCW])
  <2> HIDE DEF fst, snd, b
  <2>1. parts[y] = OfBlock(fst, snd, b, m * APB + y)
    OBVIOUS
  <2> DEFINE n == m * APB + y
  <2>2. n \in Upto(PE * PE)
    BY <1>1, ColRow, BeatSizes
  <2>3. n \div PE \in Upto(PE) /\ n % PE \in Upto(PE)
    <3> HIDE DEF n
    <3> QED BY <2>2, RowCol, TileSizes
  <2>4. b \in Upto(R * S)
    <3>1. R * S \in Nat
      BY MulNat, TileSizes
    <3> QED BY <1>1, <3>1, RowCol, BeatSizes DEF b
  <2>5. b \div S \in Upto(R) /\ b % S \in Upto(S)
    BY <2>4, RowCol, TileSizes
  <2>6. (b \div S) * PE + n \div PE \in Upto(N) /\ (b % S) * PE + (n % PE) \in Upto(NC)
    <3> HIDE DEF n
    <3> QED BY <2>3, <2>5, ColRow, TileSizes DEF N, NC
  <2>7. Accumulator(fst, snd, (b \div S) * PE + n \div PE, (b % S) * PE + (n % PE)) \in Upto(pow2[ACCW])
    <3> HIDE DEF n
    <3> QED BY <2>6, AccumulatorIs DEF fst, snd
  <2> QED BY <2>1, <2>7 DEF OfBlock
<1>7. parts \in [Upto(APB) -> Upto(pow2[ACCW])]
  <2>1. parts = [y \in Upto(APB) |-> parts[y]]
    OBVIOUS
  <2> HIDE DEF parts
  <2> QED BY <1>6, <2>1
<1>8. Bits(Joined(parts, ACCW), ACCW * x, ACCW) = parts[x]
  <2> HIDE DEF parts
  <2> QED BY <1>1, <1>7, BeatSizes, TileSizes, BitsOfJoined
<1>9. UnpackWord(acc[2 + q].w, x) = Signed(parts[x], ACCW)
  <2> HIDE DEF parts
  <2> QED BY <1>3, <1>4, <1>8 DEF UnpackWord
<1>10. Signed(Accumulator(fst, snd, i, j), ACCW) = Entry(A, B, i, j)
  BY AccumulatorIs
<1> QED BY <1>2, <1>5, <1>9, <1>10 DEF acc, x, q, p

-----------------------------------------------------------------------------
(* The tiles of a product, and the padding. *)

(* Enough tiles for every row, and none of the size of a tile too many. *)
LEMMA CeilIs ==
  ASSUME NEW x \in Nat \ {0}, NEW P \in Nat \ {0}
  PROVE  CeilDiv(x, P) \in Nat \ {0} /\ x <= CeilDiv(x, P) * P /\ CeilDiv(x, P) * P \in Nat
<1> DEFINE d == (-x) \div P
           r == (-x) % P
<1>1. d \in Int /\ r \in Upto(P) /\ -x = d * P + r
  <2>1. -x \in Int
    OBVIOUS
  <2> QED BY <2>1, DivMod
<1>2. CeilDiv(x, P) = -d
  BY DEF CeilDiv
<1> HIDE DEF d, r
<1>3. r \in Int /\ 0 <= r /\ r < P /\ d * P \in Int /\ (-d) * P = -(d * P) /\ P \in Int
  <2>1. \A u, v \in Int : u * v \in Int /\ (-u) * v = -(u * v)
    BY SMT
  <2> QED BY <1>1, <2>1 DEF Upto
<1>4. d < 0
  <2> SUFFICES ASSUME ~(d < 0) PROVE FALSE
    OBVIOUS
  <2>1. d \in Nat
    BY <1>1
  <2>2. d * P \in Nat
    BY <2>1, MulNat
  <2> QED BY <1>1, <1>3, <2>2
<1>5. x <= -(d * P)
  BY <1>1, <1>3
<1>6. -d \in Nat \ {0} /\ (-d) * P \in Nat /\ x <= (-d) * P
  BY <1>1, <1>3, <1>4, <1>5
<1> QED BY <1>2, <1>6

(* The factors of a product, and its tiles. *)
Factors(A, B) == IsFactor(A) /\ IsFactor(B) /\ A.cols = B.rows

(* The numbers of tiles in each direction. *)
LEMMA TileCounts ==
  ASSUME NEW A, NEW B, Factors(A, B)
  PROVE  /\ mt(A) \in Nat \ {0} /\ pt(B) \in Nat \ {0} /\ kt(A) \in Nat \ {0}
         /\ A.rows \in Nat \ {0} /\ A.cols \in Nat \ {0} /\ B.cols \in Nat \ {0}
         /\ A.rows <= mt(A) * TM /\ B.cols <= pt(B) * TP /\ A.cols <= kt(A) * TK
         /\ mt(A) * TM \in Nat /\ pt(B) * TP \in Nat /\ kt(A) * TK \in Nat
         /\ TM \in Nat \ {0} /\ TP \in Nat \ {0} /\ TK \in Nat \ {0}
<1>1. A.rows \in Nat \ {0} /\ A.cols \in Nat \ {0} /\ B.cols \in Nat \ {0}
  BY DEF Factors, IsFactor
<1>2. TM \in Nat \ {0} /\ TP \in Nat \ {0} /\ TK \in Nat \ {0}
  BY TileSizes
<1> QED BY <1>1, <1>2, CeilIs DEF mt, pt, kt

(* One entry, as an operator of its own. *)
Ent(M, i, j) == M[i, j]

(* The padded factors, and the tiles cut out of them. *)
PadA(A) == Padded(A, mt(A) * TM, kt(A) * TK)
PadB(A, B) == Padded(B, kt(A) * TK, pt(B) * TP)
TileA(A, i, k) == Cut(PadA(A), i * TM, k * TK, TM, TK)
TileB(A, B, k, j) == Cut(PadB(A, B), k * TK, j * TP, TK, TP)

(* A padded entry is the factor's or zero. *)
LEMMA PaddedAt ==
  ASSUME NEW M, IsFactor(M), NEW rows \in Nat, NEW cols \in Nat, NEW i \in Upto(rows), NEW j \in Upto(cols)
  PROVE  /\ Padded(M, rows, cols)[i, j] = (IF i < M.rows /\ j < M.cols THEN M.cell[i, j] ELSE 0)
         /\ Padded(M, rows, cols)[i, j] \in Value
<1>1. Padded(M, rows, cols)[i, j] = IF i < M.rows /\ j < M.cols THEN M.cell[i, j] ELSE 0
  <2>1. <<i, j>> \in Upto(rows) \X Upto(cols) /\ <<i, j>>[1] = i /\ <<i, j>>[2] = j
    OBVIOUS
  <2> QED BY <2>1 DEF Padded, Matrix
<1>2. i < M.rows /\ j < M.cols => M.cell[i, j] \in Value
  <2> SUFFICES ASSUME i < M.rows, j < M.cols PROVE M.cell[i, j] \in Value
    OBVIOUS
  <2>1. i \in Upto(M.rows) /\ j \in Upto(M.cols)
    BY DEF Upto, IsFactor
  <2> QED BY <2>1 DEF IsFactor, Value
<1>3. 0 \in Value
  BY TileSizes DEF Value
<1> QED BY <1>1, <1>2, <1>3

(* A tile is a factor of its own, and its entries are those of the padded factor. *)
LEMMA TileAIs ==
  ASSUME NEW A, IsFactor(A), NEW i \in Upto(mt(A)), NEW k \in Upto(kt(A)),
         mt(A) \in Nat, kt(A) \in Nat
  PROVE  /\ TileA(A, i, k) \in FactorA
         /\ \A u \in Upto(TM), v \in Upto(TK) :
              Ent(TileA(A, i, k), u, v) = Ent(PadA(A), i * TM + u, k * TK + v)
<1>1. ASSUME NEW u \in Upto(TM), NEW v \in Upto(TK)
      PROVE  /\ TileA(A, i, k)[u, v] = PadA(A)[i * TM + u, k * TK + v]
             /\ TileA(A, i, k)[u, v] \in Value
  <2>1. TileA(A, i, k)[u, v] = PadA(A)[i * TM + u, k * TK + v]
    <3> DEFINE M == PadA(A)
    <3>1. \A row, col : Cut(M, row, col, TM, TK)[u, v] = M[row + u, col + v]
      <4>1. <<u, v>> \in Upto(TM) \X Upto(TK) /\ <<u, v>>[1] = u /\ <<u, v>>[2] = v
        OBVIOUS
      <4> HIDE DEF M
      <4> QED BY <4>1 DEF Cut, Matrix
    <3> HIDE DEF M
    <3> QED BY <3>1 DEF TileA, M
  <2>2. i * TM + u \in Upto(mt(A) * TM) /\ k * TK + v \in Upto(kt(A) * TK)
    BY ColRow, TileSizes
  <2>3. mt(A) * TM \in Nat /\ kt(A) * TK \in Nat
    BY MulNat, TileSizes
  <2>4. PadA(A)[i * TM + u, k * TK + v] \in Value
    BY <2>2, <2>3, PaddedAt DEF PadA
  <2> QED BY <2>1, <2>4
<1>2. TileA(A, i, k) = [rc \in Upto(TM) \X Upto(TK) |-> TileA(A, i, k)[rc]]
  BY DEF TileA, Cut, Matrix
<1>3. ASSUME NEW rc \in Upto(TM) \X Upto(TK) PROVE TileA(A, i, k)[rc] \in Value
  <2>1. rc = <<rc[1], rc[2]>> /\ rc[1] \in Upto(TM) /\ rc[2] \in Upto(TK)
    OBVIOUS
  <2>2. TileA(A, i, k)[rc[1], rc[2]] \in Value
    BY <1>1, <2>1
  <2> QED BY <2>1, <2>2
<1>4. TileA(A, i, k) \in [Upto(TM) \X Upto(TK) -> Value]
  BY <1>2, <1>3
<1> QED BY <1>1, <1>4, TileSizes DEF FactorA, Ent

LEMMA TileBIs ==
  ASSUME NEW A, NEW B, IsFactor(B), NEW k \in Upto(kt(A)), NEW j \in Upto(pt(B)),
         kt(A) \in Nat, pt(B) \in Nat
  PROVE  /\ TileB(A, B, k, j) \in FactorB
         /\ \A u \in Upto(TK), v \in Upto(TP) :
              Ent(TileB(A, B, k, j), u, v) = Ent(PadB(A, B), k * TK + u, j * TP + v)
<1>1. ASSUME NEW u \in Upto(TK), NEW v \in Upto(TP)
      PROVE  /\ TileB(A, B, k, j)[u, v] = PadB(A, B)[k * TK + u, j * TP + v]
             /\ TileB(A, B, k, j)[u, v] \in Value
  <2>1. TileB(A, B, k, j)[u, v] = PadB(A, B)[k * TK + u, j * TP + v]
    <3> DEFINE M == PadB(A, B)
    <3>1. \A row, col : Cut(M, row, col, TK, TP)[u, v] = M[row + u, col + v]
      <4>1. <<u, v>> \in Upto(TK) \X Upto(TP) /\ <<u, v>>[1] = u /\ <<u, v>>[2] = v
        OBVIOUS
      <4> HIDE DEF M
      <4> QED BY <4>1 DEF Cut, Matrix
    <3> HIDE DEF M
    <3> QED BY <3>1 DEF TileB, M
  <2>2. k * TK + u \in Upto(kt(A) * TK) /\ j * TP + v \in Upto(pt(B) * TP)
    BY ColRow, TileSizes
  <2>3. kt(A) * TK \in Nat /\ pt(B) * TP \in Nat
    BY MulNat, TileSizes
  <2>4. PadB(A, B)[k * TK + u, j * TP + v] \in Value
    BY <2>2, <2>3, PaddedAt DEF PadB
  <2> QED BY <2>1, <2>4
<1>2. TileB(A, B, k, j) = [rc \in Upto(TK) \X Upto(TP) |-> TileB(A, B, k, j)[rc]]
  BY DEF TileB, Cut, Matrix
<1>3. ASSUME NEW rc \in Upto(TK) \X Upto(TP) PROVE TileB(A, B, k, j)[rc] \in Value
  <2>1. rc = <<rc[1], rc[2]>> /\ rc[1] \in Upto(TK) /\ rc[2] \in Upto(TP)
    OBVIOUS
  <2>2. TileB(A, B, k, j)[rc[1], rc[2]] \in Value
    BY <1>1, <2>1
  <2> QED BY <2>1, <2>2
<1>4. TileB(A, B, k, j) \in [Upto(TK) \X Upto(TP) -> Value]
  BY <1>2, <1>3
<1> QED BY <1>1, <1>4, TileSizes DEF FactorB, Ent

(* The number of tile products, and which one the n-th is. *)
TileCount(A, B) == mt(A) * pt(B) * kt(A)
TileRow(A, B, n) == (n - 1) \div (pt(B) * kt(A))
TileCol(A, B, n) == ((n - 1) \div kt(A)) % pt(B)
TileDepth(A, n) == (n - 1) % kt(A)

(* What tile_streams returns. *)
LEMMA TileStreams ==
  ASSUME NEW A, NEW B, Factors(A, B)
  PROVE  /\ TileCount(A, B) \in Nat \ {0} /\ Len(tile_streams(A, B)) = TileCount(A, B)
         /\ \A n \in 1 .. TileCount(A, B) :
              /\ tile_streams(A, B)[n].index = <<TileRow(A, B, n), TileCol(A, B, n)>>
              /\ tile_streams(A, B)[n].stream =
                   build_stream(TileA(A, TileRow(A, B, n), TileDepth(A, n)),
                                TileB(A, B, TileDepth(A, n), TileCol(A, B, n)))
<1>1. TileCount(A, B) \in Nat \ {0}
  <2>1. \A x, y \in Nat \ {0} : x * y \in Nat \ {0}
    BY SMT
  <2> QED BY <2>1, TileCounts DEF TileCount
<1> DEFINE Tile(n) == [stream |-> TileStream(A, B, TileRow(A, B, n), TileCol(A, B, n), TileDepth(A, n)),
                       index |-> <<TileRow(A, B, n), TileCol(A, B, n)>>]
<1>2. tile_streams(A, B) = [n \in 1 .. TileCount(A, B) |-> Tile(n)]
  BY DEF tile_streams, TileCount, TileRow, TileCol, TileDepth
<1>3. Len(tile_streams(A, B)) = TileCount(A, B)
  <2> HIDE DEF Tile
  <2> QED BY <1>1, <1>2
<1>4. \A i, j, k : TileStream(A, B, i, j, k) = build_stream(TileA(A, i, k), TileB(A, B, k, j))
  BY DEF TileStream, TileA, TileB, PadA, PadB
<1> QED BY <1>1, <1>2, <1>3, <1>4

(* The n-th tile product lies inside the padded product. *)
LEMMA TilePlace ==
  ASSUME NEW A, NEW B, Factors(A, B), NEW n \in 1 .. TileCount(A, B)
  PROVE  /\ TileRow(A, B, n) \in Upto(mt(A)) /\ TileCol(A, B, n) \in Upto(pt(B)) /\ TileDepth(A, n) \in Upto(kt(A))
         /\ n - 1 = (TileRow(A, B, n) * pt(B) + TileCol(A, B, n)) * kt(A) + TileDepth(A, n)
<1> DEFINE r == mt(A)
           p == pt(B)
           k == kt(A)
           x == n - 1
<1>1. r \in Nat \ {0} /\ p \in Nat \ {0} /\ k \in Nat \ {0} /\ TileCount(A, B) \in Nat
  BY TileCounts, TileStreams
<1>2. x \in Upto((r * p) * k)
  BY <1>1 DEF Upto, TileCount
<1> HIDE DEF r, p, k, x
<1>3. r * p \in Nat /\ p * k \in Nat /\ p * k \in Nat \ {0} /\ (r * p) * k = r * (p * k)
  BY <1>1, SMT
<1>4. x \div k \in Upto(r * p) /\ x % k \in Upto(k) /\ x = (x \div k) * k + (x % k)
  BY <1>1, <1>2, <1>3, RowCol
<1> DEFINE q == x \div k
           e == x % k
<1> HIDE DEF q, e
<1>5. q \div p \in Upto(r) /\ q % p \in Upto(p) /\ q = (q \div p) * p + (q % p)
  BY <1>1, <1>4, RowCol DEF q
<1> DEFINE a == q \div p
           b == q % p
<1> HIDE DEF a, b
<1>6. b * k + e \in Upto(p * k)
  BY <1>1, <1>4, <1>5, ColRow DEF e, b
<1>7. x = a * (p * k) + (b * k + e)
  <2>1. \A s, t, u, v, w \in Nat : (s * t + u) * v + w = s * (t * v) + (u * v + w)
    BY SMT
  <2>2. a \in Nat /\ b \in Nat /\ e \in Nat /\ p \in Nat /\ k \in Nat
    BY <1>1, <1>4, <1>5 DEF a, b, e, Upto
  <2>3. x = (a * p + b) * k + e
    BY <1>4, <1>5 DEF a, b, q, e
  <2> QED BY <2>1, <2>2, <2>3
<1>8. x \div (p * k) = a
  <2>1. a \in Int
    BY <1>5 DEF a, Upto
  <2> QED BY <1>3, <1>6, <1>7, <2>1, DivModIs
<1>9. TileRow(A, B, n) = a /\ TileCol(A, B, n) = b /\ TileDepth(A, n) = e
  BY <1>8 DEF TileRow, TileCol, TileDepth, x, p, k, b, e, q
<1> QED BY <1>4, <1>5, <1>9 DEF a, b, q, e, x, r, p, k

-----------------------------------------------------------------------------
(* The share of one tile in one cell. *)

(* The beats the grid makes of the n-th stream. *)
ResultOf(stream) == Accelerator(First(stream), Second(stream))

(* A cell's tile products are kt neighbours. *)
LEMMA Mine ==
  ASSUME NEW A, NEW B, Factors(A, B), NEW a \in Upto(mt(A)), NEW b \in Upto(pt(B))
  PROVE  LET first == (a * pt(B) + b) * kt(A) + 1
         IN  /\ first \in Nat /\ first .. first + kt(A) - 1 \subseteq 1 .. TileCount(A, B)
             /\ {n \in 1 .. TileCount(A, B) : <<TileRow(A, B, n), TileCol(A, B, n)>> = <<a, b>>}
                  = first .. first + kt(A) - 1
             /\ \A y \in Upto(kt(A)) : TileDepth(A, first + y) = y
<1> DEFINE r == mt(A)
           p == pt(B)
           k == kt(A)
           c == a * p + b
           first == c * k + 1
<1>1. r \in Nat \ {0} /\ p \in Nat \ {0} /\ k \in Nat \ {0} /\ TileCount(A, B) \in Nat
  BY TileCounts, TileStreams
<1>2. r * p \in Nat /\ TileCount(A, B) = (r * p) * k
  BY <1>1, MulNat DEF TileCount
<1>3. c \in Upto(r * p)
  BY <1>1, ColRow
<1> HIDE DEF r, p, k, c
<1>4. c \in Nat /\ c * k \in Nat /\ c * k + k <= (r * p) * k
  <2>1. c \in Nat /\ c \in Int /\ r * p \in Int /\ c < r * p
    BY <1>2, <1>3 DEF Upto
  <2> QED BY <1>1, <2>1, Apart, MulNat
<1>5. first \in Nat /\ first .. first + k - 1 \subseteq 1 .. TileCount(A, B)
  BY <1>1, <1>2, <1>4
<1>6. ASSUME NEW n \in 1 .. TileCount(A, B), TileRow(A, B, n) = a, TileCol(A, B, n) = b
      PROVE  n \in first .. first + k - 1
  <2>1. n - 1 = c * k + TileDepth(A, n) /\ TileDepth(A, n) \in Upto(k)
    BY <1>6, TilePlace DEF c, p, k
  <2> QED BY <1>1, <1>4, <2>1 DEF Upto
<1>7. ASSUME NEW y \in Upto(k)
      PROVE  /\ first + y \in 1 .. TileCount(A, B)
             /\ TileRow(A, B, first + y) = a /\ TileCol(A, B, first + y) = b /\ TileDepth(A, first + y) = y
  <2> DEFINE n == first + y
             e == TileDepth(A, n)
             q == TileRow(A, B, n) * p + TileCol(A, B, n)
  <2>1. n \in 1 .. TileCount(A, B) /\ n - 1 = c * k + y
    BY <1>1, <1>2, <1>4 DEF Upto
  <2>2. /\ TileRow(A, B, n) \in Upto(r) /\ TileCol(A, B, n) \in Upto(p) /\ e \in Upto(k)
        /\ n - 1 = q * k + e
    <3> HIDE DEF n, first
    <3> QED BY <2>1, TilePlace DEF r, p, k
  <2> HIDE DEF n, first
  <2>3. q \in Upto(r * p) /\ q \div p = TileRow(A, B, n) /\ q % p = TileCol(A, B, n)
    BY <1>1, <2>2, ColRow
  <2>4. c \div p = a /\ c % p = b
    BY <1>1, ColRow DEF c, p, r
  <2> HIDE DEF q, e
  <2>5. q \in Int /\ c \in Int
    BY <2>3, <1>4 DEF Upto
  <2>6. (q * k + e) \div k = q /\ (q * k + e) % k = e
    BY <1>1, <2>2, <2>5, DivModIs
  <2>7. (c * k + y) \div k = c /\ (c * k + y) % k = y
    BY <1>1, <2>5, DivModIs
  <2>8. q = c /\ e = y
    BY <2>1, <2>2, <2>6, <2>7
  <2>9. TileRow(A, B, n) = a /\ TileCol(A, B, n) = b /\ TileDepth(A, n) = y
    BY <2>3, <2>4, <2>8 DEF e
  <2> QED BY <2>1, <2>9 DEF n
<1>8. ASSUME NEW n \in first .. first + k - 1
      PROVE  n \in 1 .. TileCount(A, B) /\ TileRow(A, B, n) = a /\ TileCol(A, B, n) = b
  <2>1. n - first \in Upto(k) /\ first + (n - first) = n
    BY <1>1, <1>5 DEF Upto
  <2> HIDE DEF first
  <2> QED BY <1>7, <2>1
<1>9. {n \in 1 .. TileCount(A, B) : <<TileRow(A, B, n), TileCol(A, B, n)>> = <<a, b>>}
        = first .. first + k - 1
  <2> HIDE DEF first
  <2>1. \A n : <<TileRow(A, B, n), TileCol(A, B, n)>> = <<a, b>> <=> TileRow(A, B, n) = a /\ TileCol(A, B, n) = b
    OBVIOUS
  <2> QED BY <1>6, <1>8, <2>1
<1> QED BY <1>5, <1>7, <1>9 DEF c, p, k

(* The terms of one entry of the padded product. *)
Term(A, B, i, j) == [x \in Upto(kt(A) * TK) |-> PadA(A)[i, x] * PadB(A, B)[x, j]]

(* Padding adds nothing but zeros to it. *)
LEMMA TermIs ==
  ASSUME NEW A, NEW B, Factors(A, B), NEW i \in Upto(A.rows), NEW j \in Upto(B.cols)
  PROVE  /\ kt(A) * TK \in Nat /\ IntsTo(Term(A, B, i, j), kt(A) * TK)
         /\ Sigma(Term(A, B, i, j), kt(A) * TK) = Product(A, B)[i, j]
<1> DEFINE f == Term(A, B, i, j)
           n == A.cols
           m == kt(A) * TK
           g == [x \in Upto(n) |-> A.cell[i, x] * B.cell[x, j]]
<1>0. n \in Nat /\ m \in Nat /\ n <= m /\ B.rows = n /\ i \in Upto(mt(A) * TM) /\ j \in Upto(pt(B) * TP)
      /\ i < A.rows /\ j < B.cols /\ mt(A) * TM \in Nat /\ pt(B) * TP \in Nat
  <2>1. /\ A.rows \in Nat /\ B.cols \in Nat /\ A.rows <= mt(A) * TM /\ B.cols <= pt(B) * TP
        /\ mt(A) * TM \in Nat /\ pt(B) * TP \in Nat /\ n \in Nat /\ m \in Nat /\ n <= m
    BY TileCounts
  <2>2. B.rows = n
    BY DEF Factors
  <2> HIDE DEF n, m
  <2> QED BY <2>1, <2>2 DEF Upto
<1> HIDE DEF m, n
<1>1. ASSUME NEW x \in Upto(m)
      PROVE  /\ f[x] \in Int
             /\ x < n => f[x] = A.cell[i, x] * B.cell[x, j]
             /\ ~(x < n) => f[x] = 0
  <2>1. f[x] = PadA(A)[i, x] * PadB(A, B)[x, j]
    BY DEF Term, m
  <2>2. /\ PadA(A)[i, x] = (IF i < A.rows /\ x < n THEN A.cell[i, x] ELSE 0)
        /\ PadA(A)[i, x] \in Value
    BY <1>0, PaddedAt DEF PadA, m, n, Factors
  <2>3. /\ PadB(A, B)[x, j] = (IF x < B.rows /\ j < B.cols THEN B.cell[x, j] ELSE 0)
        /\ PadB(A, B)[x, j] \in Value
    BY <1>0, PaddedAt DEF PadB, m, Factors
  <2>4. PadA(A)[i, x] \in Int /\ PadB(A, B)[x, j] \in Int
    <3>1. \A z \in Value : z \in Int
      BY TileSizes DEF Value
    <3> QED BY <2>2, <2>3, <3>1
  <2> DEFINE u == PadA(A)[i, x]
             v == PadB(A, B)[x, j]
  <2>5. u * v \in Int /\ (u = 0 => u * v = 0)
    <3> HIDE DEF u, v
    <3>1. u \in Int /\ v \in Int
      BY <2>4 DEF u, v
    <3> QED BY <3>1, MulInt
  <2>6. x < n => u = A.cell[i, x] /\ v = B.cell[x, j]
    BY <1>0, <2>2, <2>3
  <2>7. ~(x < n) => u = 0
    BY <2>2
  <2> HIDE DEF u, v, f
  <2> QED BY <2>1, <2>5, <2>6, <2>7 DEF u, v
<1> HIDE DEF f
<1>1a. \A x \in Upto(m) : f[x] \in Int /\ (~(x < n) => f[x] = 0)
  BY <1>1
<1>1b. \A x \in Upto(n) : x \in Upto(m) /\ x < n
  BY <1>0 DEF Upto
<1>2. IntsTo(f, m) /\ IntsTo(f, n)
  BY <1>1a, <1>1b DEF IntsTo
<1>3. Sigma(f, m) = Sigma(f, n)
  <2>1. \A x \in n .. m - 1 : f[x] = 0
    BY <1>0, <1>1a DEF Upto
  <2> QED BY <1>0, <1>2, <2>1, SigmaZeros
<1>4. Sigma(f, n) = Sigma(g, n)
  <2>1. \A x \in Upto(n) : g[x] = f[x]
    BY <1>1, <1>1b
  <2> HIDE DEF g
  <2> QED BY <1>0, <1>2, <2>1, SigmaSame
<1>5. Product(A, B)[i, j] = Sigma(g, n)
  <2>1. <<i, j>> \in Upto(A.rows) \X Upto(B.cols) /\ <<i, j>>[1] = i /\ <<i, j>>[2] = j
    OBVIOUS
  <2>2. Product(A, B)[i, j] = SumFunction(g)
    BY <2>1 DEF Product, Matrix, n
  <2>3. DOMAIN g = Upto(n)
    OBVIOUS
  <2> HIDE DEF g
  <2> QED BY <1>0, <2>2, <2>3, SumOnUpto
<1> QED BY <1>0, <1>2, <1>3, <1>4, <1>5 DEF f, m, n

-----------------------------------------------------------------------------
(* The assembled product. *)

(* All results there are, in the order of their tiles. *)
AllResults(A, B, all_beats, index) ==
  /\ Len(all_beats) = TileCount(A, B)
  /\ \A n \in 1 .. TileCount(A, B) :
       /\ all_beats[n] = ResultOf(tile_streams(A, B)[n].stream)
       /\ index[n] = tile_streams(A, B)[n].index

(* The tile products of one cell add up to its entry. *)
LEMMA CellIs ==
  ASSUME NEW A, NEW B, Factors(A, B), NEW all_beats, NEW index, AllResults(A, B, all_beats, index),
         NEW i \in Upto(A.rows), NEW j \in Upto(B.cols)
  PROVE  AssembleCell(all_beats, index, i, j) = Ent(Product(A, B), i, j)
<1> DEFINE a == i \div TM
           b == j \div TP
           u == i % TM
           v == j % TP
           k == kt(A)
           first == (a * pt(B) + b) * k + 1
           mine == {n \in 1 .. Len(all_beats) : index[n] = <<a, b>>}
           f == [n \in mine |-> unpack_C(all_beats[n])[u, v]]
           h == Term(A, B, i, j)
           part(x) == [y \in Upto(TK) |-> h[x * TK + y]]
           g == [x \in Upto(k) |-> f[first + x]]
           gg == [x \in Upto(k) |-> Sigma(part(x), TK)]
<1>1. /\ a \in Upto(mt(A)) /\ u \in Upto(TM) /\ i = a * TM + u
      /\ b \in Upto(pt(B)) /\ v \in Upto(TP) /\ j = b * TP + v
  <2>1. i \in Upto(mt(A) * TM) /\ j \in Upto(pt(B) * TP)
    <3>1. \A x, y, z \in Nat : x <= y /\ z \in Upto(x) => z \in Upto(y)
      BY DEF Upto
    <3>2. i \in Nat /\ j \in Nat
      BY TileCounts DEF Upto
    <3> QED BY <3>1, <3>2, TileCounts
  <2> QED BY <2>1, TileCounts, RowCol
<1>2. mt(A) \in Nat /\ pt(B) \in Nat /\ k \in Nat \ {0} /\ TK \in Nat \ {0} /\ TK = K /\ TM = N /\ TP = NC
  BY TileCounts, TileSizes
<1> HIDE DEF a, b, u, v, k
<1>3. /\ first \in Nat /\ first .. first + k - 1 \subseteq 1 .. TileCount(A, B)
      /\ {n \in 1 .. TileCount(A, B) : <<TileRow(A, B, n), TileCol(A, B, n)>> = <<a, b>>}
           = first .. first + k - 1
      /\ \A y \in Upto(k) : TileDepth(A, first + y) = y
  BY <1>1, Mine DEF k
<1>4. mine = first .. first + k - 1
  <2>1. \A n \in 1 .. TileCount(A, B) : index[n] = <<TileRow(A, B, n), TileCol(A, B, n)>>
    BY TileStreams DEF AllResults
  <2>2. Len(all_beats) = TileCount(A, B)
    BY DEF AllResults
  <2>3. mine = {n \in 1 .. TileCount(A, B) : <<TileRow(A, B, n), TileCol(A, B, n)>> = <<a, b>>}
    BY <2>1, <2>2
  <2> HIDE DEF first, mine
  <2> QED BY <1>3, <2>3
<1>5. AssembleCell(all_beats, index, i, j) = SumFunctionOnSet(f, first .. first + k - 1)
  <2>1. AssembleCell(all_beats, index, i, j) = SumFunction(f)
    BY DEF AssembleCell, a, b, u, v
  <2>2. DOMAIN f = mine
    OBVIOUS
  <2> HIDE DEF f, mine, first
  <2> QED BY <1>4, <2>1, <2>2 DEF SumFunction
<1>6. ASSUME NEW x \in Upto(k) PROVE f[first + x] = Sigma(part(x), TK)
  <2> DEFINE n == first + x
             TA == TileA(A, a, x)
             TB == TileB(A, B, x, b)
  <2>1. n \in first .. first + k - 1
    BY <1>2, <1>3 DEF Upto
  <2>2. n \in 1 .. TileCount(A, B) /\ TileRow(A, B, n) = a /\ TileCol(A, B, n) = b /\ TileDepth(A, n) = x
    <3> HIDE DEF n, first
    <3>1. n \in 1 .. TileCount(A, B) /\ <<TileRow(A, B, n), TileCol(A, B, n)>> = <<a, b>>
      BY <1>3, <2>1
    <3>2. TileDepth(A, n) = x
      BY <1>3 DEF n
    <3> QED BY <3>1, <3>2
  <2>3. f[n] = unpack_C(all_beats[n])[u, v]
    <3> HIDE DEF n, first, mine
    <3> QED BY <1>4, <2>1
  <2> HIDE DEF n, first, mine
  <2>4. all_beats[n] = ResultOf(build_stream(TA, TB))
    <3>1. all_beats[n] = ResultOf(tile_streams(A, B)[n].stream)
      BY <2>2 DEF AllResults
    <3>2. tile_streams(A, B)[n].stream = build_stream(TileA(A, TileRow(A, B, n), TileDepth(A, n)),
                                TileB(A, B, TileDepth(A, n), TileCol(A, B, n)))
      BY <2>2, TileStreams
    <3> QED BY <2>2, <3>1, <3>2
  <2>5. /\ TA \in FactorA /\ TB \in FactorB
        /\ \A y \in Upto(TK) : TA[u, y] = PadA(A)[i, x * TK + y] /\ TB[y, v] = PadB(A, B)[x * TK + y, j]
    <3>1. /\ TA \in FactorA
          /\ \A s \in Upto(TM), y \in Upto(TK) : Ent(TA, s, y) = Ent(PadA(A), a * TM + s, x * TK + y)
      <4>1. IsFactor(A) /\ x \in Upto(kt(A)) /\ a \in Upto(mt(A)) /\ kt(A) \in Nat /\ mt(A) \in Nat
        BY <1>1, <1>2 DEF Factors, k
      <4> QED BY <4>1, TileAIs DEF TA
    <3>2. /\ TB \in FactorB
          /\ \A y \in Upto(TK), s \in Upto(TP) : Ent(TB, y, s) = Ent(PadB(A, B), x * TK + y, b * TP + s)
      <4>1. IsFactor(B) /\ x \in Upto(kt(A)) /\ b \in Upto(pt(B)) /\ kt(A) \in Nat /\ pt(B) \in Nat
        BY <1>1, <1>2 DEF Factors, k
      <4> QED BY <4>1, TileBIs DEF TB
    <3> QED BY <1>1, <3>1, <3>2 DEF Ent
  <2> HIDE DEF TA, TB
  <2>6. unpack_C(all_beats[n])[u, v] = Entry(TA, TB, u, v)
    <3>1. u \in Upto(N) /\ v \in Upto(NC) /\ TA \in FactorA /\ TB \in FactorB
      BY <1>1, <1>2, <2>5
    <3>2. unpack_C(ResultOf(build_stream(TA, TB)))[u, v] = Entry(TA, TB, u, v)
      BY <3>1, UnpackIs, Zenon DEF ResultOf
    <3> QED BY <2>4, <3>2, Zenon
  <2>7. Entry(TA, TB, u, v) = Sigma([y \in Upto(TK) |-> TA[u, y] * TB[y, v]], TK)
    BY <1>2 DEF Entry
  <2>8. [y \in Upto(TK) |-> TA[u, y] * TB[y, v]] = part(x)
    <3>1. ASSUME NEW y \in Upto(TK) PROVE TA[u, y] * TB[y, v] = h[x * TK + y]
      <4>1. x * TK + y \in Upto(k * TK)
        BY <1>2, ColRow
      <4>2. h[x * TK + y] = PadA(A)[i, x * TK + y] * PadB(A, B)[x * TK + y, j]
        BY <4>1 DEF Term, k
      <4> HIDE DEF h
      <4> QED BY <2>5, <4>2
    <3> HIDE DEF h
    <3> QED BY <3>1
  <2> HIDE DEF f
  <2> QED BY <2>3, <2>6, <2>7, <2>8 DEF n
<1> HIDE DEF f, first, h
<1>7. IntsTo(h, k * TK) /\ Sigma(h, k * TK) = Product(A, B)[i, j]
  BY TermIs DEF h, k
<1>8. Sigma(h, k * TK) = Sigma(gg, k)
  <2>1. k \in Nat /\ TK \in Nat /\ IntsTo(h, k * TK)
    BY <1>2, <1>7
  <2> QED BY <2>1, SigmaParts, Zenon
<1>9. ASSUME NEW x \in Upto(k) PROVE Sigma(part(x), TK) \in Int
  <2>1. IntsTo(part(x), TK)
    <3>1. ASSUME NEW y \in Upto(TK) PROVE part(x)[y] \in Int
      <4>1. x * TK + y \in Upto(k * TK)
        BY <1>2, ColRow
      <4> QED BY <1>7, <4>1 DEF IntsTo
    <3> QED BY <3>1 DEF IntsTo
  <2> HIDE DEF part
  <2> QED BY <1>2, <2>1, SigmaType
<1> HIDE DEF part
<1>10. g = gg
  BY <1>6
<1>11. SumFunctionOnSet(f, first .. first + k - 1) = Sigma(g, k)
  <2>1. ASSUME NEW n \in first .. first + k - 1 PROVE f[n] \in Int
    <3>1. n - first \in Upto(k) /\ first + (n - first) = n
      BY <1>2, <1>3 DEF Upto
    <3>2. f[first + (n - first)] \in Int
      BY <1>6, <1>9, <3>1
    <3> QED BY <3>1, <3>2
  <2>2. first \in Int /\ k \in Nat
    BY <1>2, <1>3
  <2> QED BY <2>1, <2>2, SumOfRun
<1> QED BY <1>5, <1>7, <1>8, <1>10, <1>11 DEF Ent

(* For every tile shape and all factors: what assemble_C (nb:194-202) makes of *)
(* the beats the grid returns for the streams of tile_streams (nb:164-191) is  *)
(* the product, entry for entry: no ragged edge, sign, packing or place of a   *)
(* block is lost, and no accumulator overflows.                                *)
THEOREM TilesRebuildProduct ==
  ASSUME NEW A, NEW B, Factors(A, B), NEW all_beats, NEW index, AllResults(A, B, all_beats, index)
  PROVE  assemble_C(all_beats, index, A.rows, B.cols) = Product(A, B)
<1> DEFINE D == Upto(A.rows) \X Upto(B.cols)
           cell(rc) == AssembleCell(all_beats, index, rc[1], rc[2])
           prod == Product(A, B)
<1>1. ASSUME NEW rc \in D PROVE cell(rc) = prod[rc]
  <2> DEFINE r == rc[1]
             c == rc[2]
  <2>1. rc = <<r, c>> /\ r \in Upto(A.rows) /\ c \in Upto(B.cols)
    OBVIOUS
  <2> HIDE DEF r, c
  <2>2. AssembleCell(all_beats, index, r, c) = Ent(Product(A, B), r, c)
    BY <2>1, CellIs
  <2> HIDE DEF prod
  <2> QED BY <2>1, <2>2 DEF r, c, prod, Ent
<1>2. assemble_C(all_beats, index, A.rows, B.cols) = [rc \in D |-> cell(rc)]
  BY DEF assemble_C, Matrix
<1>3. prod = [rc \in D |-> prod[rc]]
  BY DEF Product, Matrix
<1> HIDE DEF cell, prod, D
<1>4. [rc \in D |-> cell(rc)] = [rc \in D |-> prod[rc]]
  BY <1>1
<1> QED BY <1>2, <1>3, <1>4 DEF prod

-----------------------------------------------------------------------------
(* The chunk and the buffer. *)

(* Products of sizes and counts. *)
LEMMA ProductMono == \A x, y, z \in Nat : x <= y => x * z <= y * z
BY SMT

LEMMA OneMore == \A x, y, z \in Nat : x + 1 <= y => x * z + z <= y * z
<1> SUFFICES ASSUME NEW x \in Nat, NEW y \in Nat, NEW z \in Nat, x + 1 <= y
             PROVE  x * z + z <= y * z
  OBVIOUS
<1>1. (x + 1) * z <= y * z
  BY SMT, ProductMono
<1>2. (x + 1) * z = x * z + z
  BY SMT
<1> QED  BY <1>1, <1>2

LEMMA Distribute == \A x, y, z \in Nat : (x + y) * z = x * z + y * z
BY SMT

LEMMA DivMul == \A x \in Nat, y \in Nat \ {0} : x \div y \in Nat /\ (x \div y) * y <= x
BY SMT

(* Sizes of a tile's transfers. *)
LEMMA Sizes ==
  /\ B_BEATS \in Nat \ {0} /\ A_BEATS \in Nat \ {0} /\ RECV_BEATS \in Nat \ {0}
  /\ in_beats \in Nat \ {0} /\ in_beats = B_BEATS + A_BEATS
  /\ wbytes \in Nat \ {0}
  /\ per_tile \in Nat \ {0} /\ per_tile = (in_beats + RECV_BEATS) * wbytes
<1>0. \A x, y \in Nat \ {0} : x * y \in Nat \ {0}
  BY SMT
<1>1. B_BEATS \in Nat \ {0} /\ A_BEATS \in Nat \ {0}
  <2>1. 1 + K \in Nat \ {0}
    BY TileSizes
  <2> QED BY <1>0, <2>1, TileSizes DEF B_BEATS, A_BEATS
<1>2. W \in Nat /\ W \div 8 \in Nat \ {0}
  <2>1. W \in Nat /\ W > 0
    BY <1>0, TileSizes DEF W
  <2>2. W % 8 = 0
    BY TileAssumption DEF W
  <2> QED  BY SMT, <2>1, <2>2
<1>3. RECV_BEATS \in Nat \ {0}
  <2>1. (R * S) * CBEAT \in Nat
    BY <1>0, TileSizes, BeatSizes
  <2> QED  BY SMT, <2>1 DEF RECV_BEATS
<1>4. in_beats + RECV_BEATS \in Nat \ {0} /\ in_beats \in Nat \ {0}
  BY <1>1, <1>3 DEF in_beats
<1>5. (in_beats + RECV_BEATS) * wbytes \in Nat \ {0}
  BY <1>0, <1>2, <1>4 DEF wbytes
<1> QED  BY <1>1, <1>2, <1>3, <1>4, <1>5 DEF in_beats, wbytes, per_tile
-----------------------------------------------------------------------------
(* What is known of a job's arguments. *)
CallIs == \E j \in Jobs : call = Call(j)

(* Its streams are those of its factors, each one transfer pair long. *)
LEMMA CallFacts ==
  ASSUME CallIs
  PROVE  /\ call.size \in Nat /\ call.chunk \in Nat /\ call.runs \in Nat \ {0}
         /\ call.nt \in Nat \ {0} /\ call.size >= per_tile
         /\ Factors(call.A, call.B) /\ call.nt = TileCount(call.A, call.B)
         /\ Len(call.streams) = call.nt
         /\ \A n \in 1 .. call.nt :
              /\ call.streams[n] = tile_streams(call.A, call.B)[n].stream
              /\ call.index[n] = tile_streams(call.A, call.B)[n].index
              /\ call.streams[n] \in Seq(Beat) /\ Len(call.streams[n]) = in_beats
         /\ call.streams \in Seq(Seq(Beat))
<1>1. PICK j \in Jobs : call = Call(j)
  BY DEF CallIs
<1> DEFINE ts == tile_streams(j.A, j.B)
<1>2. /\ call.A = j.A /\ call.B = j.B /\ call.size = j.size /\ call.chunk = j.chunk /\ call.runs = j.runs
      /\ call.nt = Len(ts)
      /\ call.streams = [n \in 1 .. Len(ts) |-> ts[n].stream]
      /\ call.index = [n \in 1 .. Len(ts) |-> ts[n].index]
  <2> HIDE DEF ts
  <2> QED BY <1>1 DEF Call, ts
<1>3. /\ j.size \in Nat /\ j.chunk \in Nat /\ j.runs \in Nat \ {0} /\ j.size >= per_tile
      /\ Factors(j.A, j.B)
  BY JobsAssumption, BufferAssumption DEF Factors
<1>4. /\ TileCount(j.A, j.B) \in Nat \ {0} /\ Len(ts) = TileCount(j.A, j.B)
      /\ \A n \in 1 .. TileCount(j.A, j.B) :
           ts[n].stream = build_stream(TileA(j.A, TileRow(j.A, j.B, n), TileDepth(j.A, n)),
                                       TileB(j.A, j.B, TileDepth(j.A, n), TileCol(j.A, j.B, n)))
  BY <1>3, TileStreams
<1> HIDE DEF ts
<1>5. ASSUME NEW n \in 1 .. call.nt
      PROVE  call.streams[n] = ts[n].stream /\ call.index[n] = ts[n].index
  BY <1>2
<1>6. ASSUME NEW n \in 1 .. call.nt
      PROVE  call.streams[n] \in Seq(Beat) /\ Len(call.streams[n]) = in_beats
  <2> DEFINE TA == TileA(j.A, TileRow(j.A, j.B, n), TileDepth(j.A, n))
             TB == TileB(j.A, j.B, TileDepth(j.A, n), TileCol(j.A, j.B, n))
  <2>1. n \in 1 .. TileCount(j.A, j.B)
    BY <1>2, <1>4
  <2>2. call.streams[n] = build_stream(TA, TB)
    BY <1>4, <1>5, <2>1
  <2>3. /\ TileRow(j.A, j.B, n) \in Upto(mt(j.A)) /\ TileCol(j.A, j.B, n) \in Upto(pt(j.B))
        /\ TileDepth(j.A, n) \in Upto(kt(j.A))
    BY <1>3, <2>1, TilePlace
  <2>4. mt(j.A) \in Nat /\ pt(j.B) \in Nat /\ kt(j.A) \in Nat /\ IsFactor(j.A) /\ IsFactor(j.B)
    BY <1>3, TileCounts DEF Factors
  <2>5. TA \in FactorA /\ TB \in FactorB
    BY <2>3, <2>4, TileAIs, TileBIs
  <2> HIDE DEF TA, TB
  <2> QED BY <2>2, <2>5, StreamIs, Sizes
<1>7. call.streams \in Seq(Seq(Beat)) /\ Len(call.streams) = call.nt
  <2>1. Len(ts) \in Nat
    BY <1>4
  <2>2. call.streams = [n \in 1 .. Len(ts) |-> call.streams[n]]
    BY <1>2
  <2> DEFINE F == Seq(Beat)
  <2>3. \A n \in 1 .. Len(ts) : call.streams[n] \in F
    BY <1>2, <1>6
  <2> HIDE DEF F
  <2>4. call.streams \in Seq(F) /\ Len(call.streams) = Len(ts)
    BY <2>1, <2>2, <2>3
  <2> QED BY <1>2, <2>4 DEF F
<1> QED BY <1>2, <1>3, <1>4, <1>5, <1>6, <1>7 DEF ts
-----------------------------------------------------------------------------
(* A chunk and its results fit into the buffer. *)
cells == call.size \div wbytes

LEMMA ChunkFits ==
  ASSUME CallIs
  PROVE  chunk \in Nat \ {0} /\ chunk * per_tile <= call.size
<1>0. call.size \in Nat /\ call.chunk \in Nat /\ call.nt \in Nat \ {0} /\ call.size >= per_tile
  BY CallFacts
<1>1. fit \in Nat \ {0}
  <2>1. (call.size * 9) \div 10 \in Nat
    BY SMT, <1>0
  <2>2. ((call.size * 9) \div 10) \div per_tile \in Nat
    BY <2>1, Sizes, DivMul
  <2> QED BY <2>2 DEF fit, AtLeastOne
<1>2. chunk \in Nat \ {0} /\ chunk <= fit
  BY SMT, <1>0, <1>1 DEF chunk, Least
<1>3. fit * per_tile <= call.size
  <2> DEFINE usable == (call.size * 9) \div 10
  <2>1. usable \in Nat /\ usable <= call.size
    BY SMT, <1>0
  <2>2. usable \div per_tile \in Nat /\ (usable \div per_tile) * per_tile <= usable
    BY <2>1, Sizes, DivMul
  <2>3. CASE usable \div per_tile < 1
    BY SMT, <1>0, <2>3, Sizes DEF fit, AtLeastOne
  <2>4. CASE ~(usable \div per_tile < 1)
    <3>1. fit = usable \div per_tile
      BY <2>4 DEF fit, AtLeastOne
    <3>2. fit * per_tile <= usable
      BY <3>1, <2>2
    <3>3. fit * per_tile \in Nat
      BY <1>1, Sizes, MulNat
    <3> QED  BY SMT, <3>2, <3>3, <2>1, <1>0
  <2> QED  BY <2>3, <2>4
<1>4. chunk * per_tile <= fit * per_tile
  BY <1>1, <1>2, Sizes, ProductMono
<1>5. chunk * per_tile \in Nat /\ fit * per_tile \in Nat
  BY <1>1, <1>2, Sizes, MulNat
<1> QED  BY SMT, <1>0, <1>2, <1>3, <1>4, <1>5

(* The chunk the cell works on begins inside the streams. *)
Place0 == host.c0 \in Nat /\ host.c0 < call.nt

(* The chunk in hand: the last may be shorter. *)
LEMMA ChunkFacts ==
  ASSUME CallIs, Place0
  PROVE  /\ chunk \in Nat \ {0} /\ nc \in Nat \ {0} /\ nc <= chunk /\ host.c0 + nc <= call.nt
         /\ host.c0 + chunk >= call.nt => host.c0 + nc = call.nt
         /\ host.c0 + chunk < call.nt => nc = chunk
BY SMT, ChunkFits, CallFacts DEF nc, Least, Place0

(* In beats: the streams of a chunk, and its results after them. *)
LEMMA Beats ==
  ASSUME CallIs, Place0
  PROVE  /\ cells \in Nat /\ chunk * in_beats \in Nat /\ chunk * RECV_BEATS \in Nat
         /\ nc * in_beats \in Nat /\ nc * in_beats <= chunk * in_beats
         /\ nc * RECV_BEATS \in Nat /\ nc * RECV_BEATS <= chunk * RECV_BEATS
         /\ chunk * in_beats + chunk * RECV_BEATS <= cells
         /\ cells * wbytes <= call.size
<1>1. /\ chunk \in Nat /\ nc \in Nat /\ nc <= chunk /\ in_beats \in Nat /\ RECV_BEATS \in Nat
      /\ wbytes \in Nat \ {0} /\ call.size \in Nat /\ chunk * per_tile <= call.size
      /\ per_tile = (in_beats + RECV_BEATS) * wbytes
  BY ChunkFacts, ChunkFits, Sizes, CallFacts
<1>2. /\ chunk * in_beats \in Nat /\ chunk * RECV_BEATS \in Nat /\ nc * in_beats \in Nat
      /\ nc * RECV_BEATS \in Nat /\ nc * in_beats <= chunk * in_beats
      /\ nc * RECV_BEATS <= chunk * RECV_BEATS
  BY <1>1, MulNat, ProductMono
<1> DEFINE z == chunk * in_beats + chunk * RECV_BEATS
<1>3. z * wbytes <= call.size /\ z \in Nat
  <2>1. \A c, i, r, w \in Nat : c * ((i + r) * w) = (c * i + c * r) * w
    BY SMT
  <2>2. chunk * per_tile = z * wbytes
    BY <1>1, <2>1
  <2> QED BY <1>1, <1>2, <2>2
<1>4. \A c, s \in Nat, w \in Nat \ {0} : c * w <= s => c <= s \div w
  <2> SUFFICES ASSUME NEW c \in Nat, NEW s \in Nat, NEW w \in Nat \ {0}, c * w <= s, ~(c <= s \div w)
               PROVE  FALSE
    OBVIOUS
  <2> DEFINE d == s \div w
             e == s % w
  <2>1. d \in Int /\ e \in Upto(w) /\ s = d * w + e
    <3>1. s \in Int
      OBVIOUS
    <3> QED BY <3>1, DivMod
  <2>2. d < c /\ c \in Int
    BY <2>1
  <2> HIDE DEF d, e
  <2>3. d * w + w <= c * w
    BY <2>1, <2>2, Apart
  <2>4. d * w \in Int /\ c * w \in Int
    BY <2>1, MulInt
  <2> QED BY <2>1, <2>3, <2>4 DEF Upto
<1>5. z <= cells
  <2> HIDE DEF z
  <2> QED BY <1>1, <1>3, <1>4 DEF cells
<1>6. cells \in Nat /\ cells * wbytes <= call.size
  BY <1>1, DivMul DEF cells
<1> QED BY <1>2, <1>5, <1>6

(* Where tile n of the chunk and its result lie. *)
LEMMA Offsets ==
  ASSUME CallIs, Place0, NEW n \in Nat, n < nc
  PROVE  /\ n * in_beats \in Nat /\ n * in_beats + in_beats <= nc * in_beats
         /\ n * RECV_BEATS \in Nat /\ n * RECV_BEATS + RECV_BEATS <= nc * RECV_BEATS
<1>1. nc \in Nat /\ n + 1 <= nc /\ in_beats \in Nat /\ RECV_BEATS \in Nat
  BY ChunkFacts, Sizes
<1> QED BY <1>1, MulNat, OneMore

(* The byte offsets of the code, in words. *)
LEMMA Addresses ==
  ASSUME CallIs, Place0, host.n \in Nat
  PROVE  /\ p_in = (host.n * in_beats) * wbytes
         /\ p_in + B_BEATS * wbytes = (host.n * in_beats + B_BEATS) * wbytes
         /\ OFF_IN = 0 * wbytes
         /\ OFF_C = (chunk * in_beats) * wbytes
         /\ p_out = (chunk * in_beats + host.n * RECV_BEATS) * wbytes
<1>1. host.n * in_beats \in Nat /\ host.n * RECV_BEATS \in Nat /\ chunk * in_beats \in Nat
      /\ (host.n * in_beats) * wbytes \in Nat /\ wbytes \in Nat /\ B_BEATS \in Nat
  BY Sizes, ChunkFits, MulNat
<1>2. p_in = (host.n * in_beats) * wbytes /\ OFF_IN = 0 * wbytes
  BY <1>1 DEF p_in, OFF_IN
<1>3. p_in + B_BEATS * wbytes = (host.n * in_beats + B_BEATS) * wbytes
  BY <1>1, <1>2, Distribute
<1>4. OFF_C = (chunk * in_beats) * wbytes
  BY DEF OFF_C
<1>5. p_out = (chunk * in_beats + host.n * RECV_BEATS) * wbytes
  <2> DEFINE x == chunk * in_beats
             y == host.n * RECV_BEATS
  <2>1. x \in Nat /\ y \in Nat
    BY <1>1
  <2>2. p_out = x * wbytes + y * wbytes
    BY <1>4 DEF p_out
  <2> HIDE DEF x, y
  <2>3. (x + y) * wbytes = x * wbytes + y * wbytes
    BY <1>1, <2>1, Distribute
  <2> QED BY <2>2, <2>3 DEF x, y
<1> QED BY <1>2, <1>3, <1>4, <1>5

-----------------------------------------------------------------------------
(* Words of the buffer. *)

(* The z-th word of a buffer. *)
Word(mem, z) == mem[z * wbytes]

(* Words and bytes. *)
LEMMA Cancel == \A x, y \in Nat, w \in Nat \ {0} : x * w = y * w => x = y
<1> SUFFICES ASSUME NEW x \in Nat, NEW y \in Nat, NEW w \in Nat \ {0}, x * w = y * w, x # y
             PROVE  FALSE
  OBVIOUS
<1>1. x * w \in Nat /\ y * w \in Nat
  BY MulNat
<1>2. x < y \/ y < x
  OBVIOUS
<1>3. x * w + w <= y * w \/ y * w + w <= x * w
  BY <1>2, Apart
<1> QED BY <1>1, <1>3

LEMMA InRegion ==
  ASSUME NEW o \in Nat, NEW n \in Nat, NEW z \in Nat
  PROVE  z * wbytes \in Region(o * wbytes, n) <=> z \in o .. (o + n) - 1
<1> DEFINE w == wbytes
<1>0. w \in Nat \ {0}
  BY Sizes
<1> HIDE DEF w
<1>1. \A i \in Nat : (o + i) * w = o * w + i * w
  BY <1>0, Distribute
<1>2. ASSUME NEW i \in Upto(n), z * w = o * w + i * w
      PROVE  z \in o .. (o + n) - 1
  <2>1. i \in Nat /\ i < n
    BY DEF Upto
  <2>2. o + i \in Nat /\ z * w = (o + i) * w
    BY <1>1, <1>2, <2>1
  <2>3. z = o + i
    BY <1>0, <2>2, Cancel
  <2> QED BY <2>1, <2>3
<1>3. ASSUME z \in o .. (o + n) - 1
      PROVE  \E i \in Upto(n) : z * w = o * w + i * w
  <2>1. z - o \in Upto(n) /\ z - o \in Nat /\ o + (z - o) = z
    BY <1>3 DEF Upto
  <2>2. z * w = o * w + (z - o) * w
    BY <1>1, <2>1
  <2> QED BY <2>1, <2>2
<1>4. z * wbytes \in Region(o * wbytes, n) <=> \E i \in Upto(n) : z * w = o * w + i * w
  BY DEF Region, w
<1> QED BY <1>2, <1>3, <1>4

(* A word below the size is in the buffer. *)
LEMMA InBuffer ==
  ASSUME NEW mem, NEW size \in Nat, DOMAIN mem = Region(0, size), NEW z \in Nat, z < size
  PROVE  z * wbytes \in DOMAIN mem
<1>1. 0 * wbytes = 0 /\ z \in 0 .. (0 + size) - 1
  BY Sizes
<1> QED BY <1>1, InRegion

(* What a write, a sync and a read do to the words. *)
LEMMA Written ==
  ASSUME NEW mem, NEW o \in Nat, NEW words, Len(words) \in Nat,
         NEW z \in Nat, z * wbytes \in DOMAIN mem
  PROVE  Word(WriteAt(mem, o * wbytes, words), z)
           = IF z \in o .. (o + Len(words)) - 1 THEN words[(z - o) + 1] ELSE Word(mem, z)
<1> DEFINE n == Len(words)
           a == z * wbytes
           b == o * wbytes
<1>1. a \in Region(b, n) <=> z \in o .. (o + n) - 1
  BY InRegion
<1>2. ASSUME z \in o .. (o + n) - 1 PROVE (a - b) \div wbytes = z - o
  <2> DEFINE w == wbytes
  <2>1. z - o \in Nat /\ z = (z - o) + o /\ w \in Nat \ {0} /\ 0 \in Upto(w)
    BY <1>2, Sizes DEF Upto
  <2> HIDE DEF w
  <2>2. z * w = (z - o) * w + o * w
    BY <2>1, Distribute
  <2>3. (z - o) * w \in Nat /\ o * w \in Nat
    BY <2>1, MulNat
  <2>4. z * w - o * w = (z - o) * w + 0
    BY <2>2, <2>3
  <2>5. ((z - o) * w + 0) \div w = z - o
    BY <2>1, DivModIs
  <2> QED BY <2>4, <2>5 DEF w
<1>3. Word(WriteAt(mem, b, words), z)
        = IF a \in Region(b, n) THEN words[(a - b) \div wbytes + 1] ELSE mem[a]
  BY DEF Word, WriteAt
<1> QED BY <1>1, <1>2, <1>3 DEF Word

LEMMA Synced ==
  ASSUME NEW to, NEW from, NEW o \in Nat, NEW n \in Nat, NEW z \in Nat, z * wbytes \in DOMAIN to
  PROVE  Word(Sync(to, from, o * wbytes, n), z)
           = IF z \in o .. (o + n) - 1 THEN Word(from, z) ELSE Word(to, z)
BY InRegion DEF Word, Sync

LEMMA Domains ==
  /\ \A mem, off, words : DOMAIN WriteAt(mem, off, words) = DOMAIN mem
  /\ \A to, from, off, n : DOMAIN Sync(to, from, off, n) = DOMAIN to
BY DEF WriteAt, Sync

LEMMA ReadIs ==
  ASSUME NEW mem, NEW o \in Nat, NEW n \in Nat, NEW i \in 1 .. n
  PROVE  ReadAt(mem, o * wbytes, n)[i] = Word(mem, o + (i - 1))
<1> DEFINE w == wbytes
<1>1. w \in Nat /\ i - 1 \in Nat
  BY Sizes
<1> HIDE DEF w
<1>2. (o + (i - 1)) * w = o * w + (i - 1) * w
  BY <1>1, Distribute
<1>3. ReadAt(mem, o * w, n)[i] = mem[o * w + (i - 1) * w]
  BY DEF ReadAt, w
<1> QED BY <1>2, <1>3 DEF w, Word

(* A read that agrees with a sequence is that sequence. *)
LEMMA ReadSame ==
  ASSUME NEW mem, NEW o \in Nat, NEW n \in Nat, NEW seq, seq = [i \in 1 .. n |-> seq[i]],
         \A i \in 1 .. n : seq[i] = Word(mem, o + (i - 1))
  PROVE  ReadAt(mem, o * wbytes, n) = seq
<1> DEFINE r == ReadAt(mem, o * wbytes, n)
<1>1. r = [i \in 1 .. n |-> r[i]]
  BY DEF ReadAt
<1>2. \A i \in 1 .. n : r[i] = seq[i]
  BY ReadIs
<1> HIDE DEF r
<1>3. r = seq
  BY <1>1, <1>2
<1> QED BY <1>3 DEF r

-----------------------------------------------------------------------------
(* The streams and the results of a chunk in the buffer. *)

(* The two transfers of a stream, as the DMA reads them. *)
LEMMA TransfersAre ==
  ASSUME NEW stream, Len(stream) = in_beats
  PROVE  /\ First(stream) = [i \in 1 .. B_BEATS |-> First(stream)[i]]
         /\ Second(stream) = [i \in 1 .. A_BEATS |-> Second(stream)[i]]
         /\ \A i \in 1 .. B_BEATS : First(stream)[i] = stream[i]
         /\ \A i \in 1 .. A_BEATS : Second(stream)[i] = stream[B_BEATS + i]
         /\ Second(stream) = SubSeq(stream, B_BEATS + 1, in_beats)
<1>1. First(stream) = [i \in 1 .. B_BEATS |-> First(stream)[i]]
  <2>1. 1 .. (1 + B_BEATS) - 1 = 1 .. B_BEATS
    BY Counts
  <2> QED BY <2>1, Counts DEF First
<1>2. Second(stream) = [i \in 1 .. A_BEATS |-> Second(stream)[i]]
  <2> DEFINE b == B_BEATS
             e == in_beats
  <2>1. b \in Nat /\ e \in Nat /\ A_BEATS \in Nat /\ e = b + A_BEATS
    BY Counts DEF in_beats
  <2>2. 1 .. (1 + e) - (b + 1) = 1 .. A_BEATS
    BY <2>1
  <2> HIDE DEF b, e
  <2>3. DOMAIN SubSeq(stream, b + 1, e) = 1 .. A_BEATS
    BY <2>1, <2>2
  <2>4. SubSeq(stream, b + 1, e) = [i \in 1 .. A_BEATS |-> SubSeq(stream, b + 1, e)[i]]
    BY <2>1, <2>2, <2>3
  <2> QED BY <2>4 DEF Second, b, e
<1>3. Len(stream) = in_beats
  BY Sizes
<1> QED BY <1>1, <1>2, <1>3, Transfers DEF Second

(* A result is RECV_BEATS long, whatever it is made of. *)
LEMMA ResultIs ==
  ASSUME NEW stream
  PROVE  /\ ResultOf(stream) = [p \in 1 .. RECV_BEATS |-> ResultOf(stream)[p]]
         /\ Len(ResultOf(stream)) = RECV_BEATS
<1> DEFINE b == First(stream)
           a == Second(stream)
           n == R * S * CBEAT
           beat(m) == CBeat(b, a, (m - 1) \div CBEAT, (m - 1) % CBEAT)
           body == [m \in 1 .. n |-> beat(m)]
           head == hdr("C_DATA", R - 1, S - 1, 0)
           V == {head} \cup {beat(m) : m \in 1 .. n}
           r == <<head>> \o body
<1>1. n \in Nat /\ RECV_BEATS = 1 + n
  BY TileSizes, BeatSizes, MulNat DEF RECV_BEATS
<1>2. ResultOf(stream) = r
  BY DEF ResultOf, Accelerator
<1> HIDE DEF n, beat, head
<1>3. body \in Seq(V) /\ Len(body) = n /\ <<head>> \in Seq(V) /\ Len(<<head>>) = 1
  <2>1. \A m \in 1 .. n : beat(m) \in V
    OBVIOUS
  <2>2. head \in V
    OBVIOUS
  <2> HIDE DEF V
  <2> QED BY <1>1, <2>1, <2>2
<1> HIDE DEF V, body
<1>4. r \in Seq(V) /\ Len(r) = 1 + n
  BY <1>1, <1>3
<1> HIDE DEF r
<1>5. r = [p \in 1 .. 1 + n |-> r[p]]
  BY <1>1, <1>4
<1> QED BY <1>1, <1>2, <1>4, <1>5
-----------------------------------------------------------------------------
(* The streams of a chunk in a buffer, and the first n results.             *)
InputIn(mem) == \A m \in 1 .. nc, p \in 1 .. in_beats :
  Word(mem, (m - 1) * in_beats + (p - 1)) = call.streams[host.c0 + m][p]
ResultsIn(mem, n) == \A m \in 1 .. n, p \in 1 .. RECV_BEATS :
  Word(mem, chunk * in_beats + ((m - 1) * RECV_BEATS + (p - 1))) = ResultOf(call.streams[host.c0 + m])[p]

(* The stream of the tile in hand. *)
Current == call.streams[host.c0 + host.n + 1]

(* A buffer of the job's size. *)
Buffer(mem) == DOMAIN mem = Region(0, cells)

(* A tile's words lie in the chunk's. *)
LEMMA InChunk ==
  ASSUME NEW L \in Nat, NEW n \in Nat, NEW m \in 1 .. n, NEW p \in 1 .. L
  PROVE  /\ (m - 1) * L \in Nat /\ (m - 1) * L + (p - 1) \in Nat
         /\ (m - 1) * L + (p - 1) < n * L /\ n * L \in Nat
         /\ ((m - 1) * L + (p - 1)) + 1 = (m - 1) * L + p
<1>1. (m - 1) * L + p \in 1 .. n * L /\ (m - 1) * L \in Nat
  BY Within
<1>2. n * L \in Nat
  BY MulNat
<1> DEFINE x == (m - 1) * L
           y == n * L
<1>3. x \in Nat /\ y \in Nat /\ x + p \in 1 .. y
  BY <1>1, <1>2
<1> HIDE DEF x, y
<1>4. x + (p - 1) \in Nat /\ x + (p - 1) < y /\ (x + (p - 1)) + 1 = x + p
  BY <1>3
<1> QED BY <1>3, <1>4 DEF x, y

(* Every tile of the chunk has its stream. *)
LEMMA CurrentIs ==
  ASSUME CallIs, Place0, NEW m \in 1 .. nc
  PROVE  /\ host.c0 + m \in 1 .. call.nt
         /\ Len(call.streams[host.c0 + m]) = in_beats
         /\ call.streams[host.c0 + m] \in Seq(Beat)
<1>1. host.c0 \in Nat /\ nc \in Nat /\ host.c0 + nc <= call.nt /\ call.nt \in Nat
  BY ChunkFacts, CallFacts DEF Place0
<1>2. host.c0 + m \in 1 .. call.nt
  BY <1>1
<1> QED BY <1>2, CallFacts

(* np.concatenate of the chunk's streams. *)
chunkStreams == FlattenSeq(SubSeq(call.streams, host.c0 + 1, host.c0 + nc))

(* Word by word, they are the streams. *)
LEMMA StreamsJoined ==
  ASSUME CallIs, Place0
  PROVE  /\ Len(chunkStreams) = nc * in_beats
         /\ \A m \in 1 .. nc, p \in 1 .. in_beats :
              chunkStreams[(m - 1) * in_beats + p] = call.streams[host.c0 + m][p]
<1> DEFINE seqs == SubSeq(call.streams, host.c0 + 1, host.c0 + nc)
           c == host.c0
           n == nc
<1>1. c \in Nat /\ n \in Nat \ {0} /\ in_beats \in Nat /\ call.nt \in Nat /\ c + n <= call.nt
  BY ChunkFacts, CallFacts, Sizes DEF Place0
<1> HIDE DEF c, n
<1>2. Len(seqs) = n /\ \A i \in 1 .. n : seqs[i] = call.streams[c + i]
  <2> DEFINE F == Seq(Beat)
  <2>1. call.streams \in Seq(F) /\ Len(call.streams) = call.nt
    BY CallFacts
  <2> HIDE DEF F
  <2>2. /\ Len(SubSeq(call.streams, c + 1, c + n)) = n
        /\ \A i \in 1 .. n : SubSeq(call.streams, c + 1, c + n)[i] = call.streams[c + i]
    <3>1. (1 + (c + n)) - (c + 1) = n /\ \A i \in 1 .. n : (i + (c + 1)) - 1 = c + i
      BY <1>1
    <3>2. SubSeq(call.streams, c + 1, c + n)
            = [i \in 1 .. (1 + (c + n)) - (c + 1) |-> call.streams[(i + (c + 1)) - 1]]
      BY <1>1
    <3>3. SubSeq(call.streams, c + 1, c + n) = [i \in 1 .. n |-> call.streams[(i + (c + 1)) - 1]]
      BY <3>1, <3>2
    <3>4. DOMAIN SubSeq(call.streams, c + 1, c + n) = 1 .. n
      BY <3>3
    <3>5. SubSeq(call.streams, c + 1, c + n) \in Seq(F)
      BY <1>1, <2>1
    <3> QED BY <1>1, <3>1, <3>3, <3>4, <3>5
  <2> QED BY <2>2 DEF c, n
<1>3. Blocks(seqs, n, Beat, in_beats)
  <2>1. \A i \in 1 .. n : call.streams[c + i] \in Seq(Beat) /\ Len(call.streams[c + i]) = in_beats
    BY CurrentIs DEF c, n
  <2> HIDE DEF seqs
  <2> QED BY <1>2, <2>1 DEF Blocks
<1> HIDE DEF seqs
<1>4. FlatOf(FlattenSeq(seqs), seqs, n, Beat, in_beats)
  <2>1. PICK s, m : s = seqs /\ m = n
    OBVIOUS
  <2>2. m \in Nat \ {0} /\ in_beats \in Nat /\ Blocks(s, m, Beat, in_beats)
    BY <1>1, <1>3, <2>1
  <2>3. FlatOf(FlattenSeq(s), s, m, Beat, in_beats)
    BY <2>2, Flattened
  <2> QED BY <2>1, <2>3
<1>5. chunkStreams = FlattenSeq(seqs)
  BY DEF chunkStreams, seqs, c, n
<1> DEFINE fs == FlattenSeq(seqs)
<1> HIDE DEF fs
<1>6. Len(fs) = n * in_beats /\ \A m \in 1 .. n, p \in 1 .. in_beats : fs[(m - 1) * in_beats + p] = seqs[m][p]
  BY <1>4, Zenon DEF FlatOf, fs
<1>7. \A m \in 1 .. n, p \in 1 .. in_beats : seqs[m][p] = call.streams[c + m][p]
  BY <1>2, Zenon
<1>8. \A m \in 1 .. n, p \in 1 .. in_beats : fs[(m - 1) * in_beats + p] = call.streams[c + m][p]
  BY <1>6, <1>7, Zenon
<1> QED BY <1>5, <1>6, <1>8, Zenon DEF fs, c, n

-----------------------------------------------------------------------------
(* What the steps of a chunk do to the buffer. *)

(* WriteChunk: the streams are in the processor's buffer. *)
LEMMA InputWritten ==
  ASSUME CallIs, Place0, Buffer(cpu)
  PROVE  InputIn(WriteAt(cpu, OFF_IN, chunkStreams))
<1> DEFINE mem == WriteAt(cpu, OFF_IN, chunkStreams)
           cs == chunkStreams
<1>0. /\ nc \in Nat /\ in_beats \in Nat /\ cells \in Nat /\ nc * in_beats \in Nat /\ nc * in_beats <= cells
      /\ chunk * in_beats \in Nat /\ chunk * RECV_BEATS \in Nat
  <2>1. /\ cells \in Nat /\ nc * in_beats \in Nat /\ nc * in_beats <= chunk * in_beats
        /\ chunk * in_beats \in Nat /\ chunk * RECV_BEATS \in Nat
        /\ chunk * in_beats + chunk * RECV_BEATS <= cells
    BY Beats
  <2> QED BY <2>1, ChunkFacts, Sizes
<1>1. Len(cs) = nc * in_beats
      /\ \A m \in 1 .. nc, p \in 1 .. in_beats : cs[(m - 1) * in_beats + p] = call.streams[host.c0 + m][p]
  BY StreamsJoined
<1> SUFFICES ASSUME NEW m \in 1 .. nc, NEW p \in 1 .. in_beats
             PROVE  Word(mem, (m - 1) * in_beats + (p - 1)) = call.streams[host.c0 + m][p]
  BY DEF InputIn
<1> DEFINE z == (m - 1) * in_beats + (p - 1)
<1>2. z \in Nat /\ z < nc * in_beats /\ z + 1 = (m - 1) * in_beats + p
  BY <1>0, InChunk
<1> HIDE DEF z, cs
<1>3. z * wbytes \in DOMAIN cpu
  <2>1. z < cells
    BY <1>0, <1>2
  <2> QED BY <1>0, <1>2, <2>1, InBuffer DEF Buffer
<1>4. OFF_IN = 0 * wbytes
  BY Sizes DEF OFF_IN
<1>5. Word(WriteAt(cpu, 0 * wbytes, cs), z) = IF z \in 0 .. (0 + Len(cs)) - 1 THEN cs[(z - 0) + 1] ELSE Word(cpu, z)
  <2>1. Len(cs) \in Nat /\ 0 \in Nat
    BY <1>0, <1>1
  <2> QED BY <1>2, <1>3, <2>1, Written
<1>6. Word(mem, z) = cs[z + 1]
  <2>1. z \in 0 .. (0 + Len(cs)) - 1 /\ (z - 0) + 1 = z + 1
    BY <1>0, <1>1, <1>2
  <2> QED BY <1>4, <1>5, <2>1 DEF cs
<1> HIDE DEF mem
<1>7. cs[z + 1] = call.streams[host.c0 + m][p]
  BY <1>1, <1>2
<1> QED BY <1>6, <1>7 DEF z

(* SyncForDevice: what the processor has, the DMA has. *)
LEMMA InputSynced ==
  ASSUME CallIs, Place0, Buffer(dev), InputIn(cpu)
  PROVE  InputIn(SyncInput)
<1>0. /\ nc \in Nat /\ in_beats \in Nat /\ cells \in Nat /\ nc * in_beats \in Nat /\ nc * in_beats <= cells
  <2>1. /\ cells \in Nat /\ nc * in_beats \in Nat /\ nc * in_beats <= chunk * in_beats
        /\ chunk * in_beats \in Nat /\ chunk * RECV_BEATS \in Nat
        /\ chunk * in_beats + chunk * RECV_BEATS <= cells
    BY Beats
  <2> QED BY <2>1, ChunkFacts, Sizes
<1> SUFFICES ASSUME NEW m \in 1 .. nc, NEW p \in 1 .. in_beats
             PROVE  Word(SyncInput, (m - 1) * in_beats + (p - 1)) = call.streams[host.c0 + m][p]
  BY DEF InputIn
<1> DEFINE z == (m - 1) * in_beats + (p - 1)
           x == nc * in_beats
<1>2. z \in Nat /\ z < x
  BY <1>0, InChunk
<1>3. Word(cpu, z) = call.streams[host.c0 + m][p]
  BY DEF InputIn
<1>3a. x \in Nat /\ x <= cells
  BY <1>0
<1>3b. SyncInput = Sync(dev, cpu, OFF_IN, x)
  BY DEF SyncInput
<1> HIDE DEF z, x
<1>4. z * wbytes \in DOMAIN dev
  <2>1. z < cells
    BY <1>0, <1>2, <1>3a
  <2> QED BY <1>0, <1>2, <2>1, InBuffer DEF Buffer
<1>5. OFF_IN = 0 * wbytes
  BY Sizes DEF OFF_IN
<1>6. Word(Sync(dev, cpu, 0 * wbytes, x), z) = IF z \in 0 .. (0 + x) - 1 THEN Word(cpu, z) ELSE Word(dev, z)
  BY <1>2, <1>3a, <1>4, Synced
<1>7. z \in 0 .. (0 + x) - 1
  BY <1>2, <1>3a
<1>8. Word(SyncInput, z) = Word(cpu, z)
  BY <1>3b, <1>5, <1>6, <1>7
<1> QED BY <1>3, <1>8 DEF z

(* Both transfers of tile n are its stream. *)
LEMMA Fed ==
  ASSUME CallIs, Place0, host.n \in Nat, host.n < nc, InputIn(dev)
  PROVE  /\ ReadAt(dev, p_in, B_BEATS) = First(Current)
         /\ ReadAt(dev, p_in + B_BEATS * wbytes, A_BEATS) = Second(Current)
<1> DEFINE n == host.n
           m == host.n + 1
           o == host.n * in_beats
           st == Current
<1>1. m \in 1 .. nc /\ m - 1 = n
  BY ChunkFacts
<1>2. Len(st) = in_beats /\ st = call.streams[host.c0 + m]
  <2>1. host.c0 + host.n + 1 = host.c0 + m
    BY DEF Place0
  <2>2. st = call.streams[host.c0 + m]
    BY <2>1 DEF Current
  <2> HIDE DEF st, m
  <2> QED BY <1>1, <2>2, CurrentIs
<1>3. \A p \in 1 .. in_beats : Word(dev, o + (p - 1)) = st[p]
  <2>1. \A p \in 1 .. in_beats : Word(dev, (m - 1) * in_beats + (p - 1)) = call.streams[host.c0 + m][p]
    BY <1>1 DEF InputIn
  <2> QED BY <1>1, <1>2, <2>1
<1>4. /\ o \in Nat /\ B_BEATS \in Nat /\ A_BEATS \in Nat /\ in_beats = B_BEATS + A_BEATS
      /\ p_in = o * wbytes /\ p_in + B_BEATS * wbytes = (o + B_BEATS) * wbytes
  <2>1. o \in Nat
    BY Sizes, MulNat
  <2> QED BY <2>1, Sizes, Addresses
<1> HIDE DEF n, m, o, st
<1>5. ReadAt(dev, o * wbytes, B_BEATS) = First(st)
  <2> DEFINE f == First(st)
  <2>1. f = [i \in 1 .. B_BEATS |-> f[i]] /\ \A i \in 1 .. B_BEATS : f[i] = st[i]
    BY <1>2, TransfersAre
  <2> HIDE DEF f
  <2>2. \A i \in 1 .. B_BEATS : i \in 1 .. in_beats
    BY <1>4
  <2>3. \A i \in 1 .. B_BEATS : f[i] = Word(dev, o + (i - 1))
    BY <1>3, <2>1, <2>2
  <2> QED BY <1>4, <2>1, <2>3, ReadSame DEF f
<1>6. ReadAt(dev, (o + B_BEATS) * wbytes, A_BEATS) = Second(st)
  <2> DEFINE f == Second(st)
  <2>1. f = [i \in 1 .. A_BEATS |-> f[i]] /\ \A i \in 1 .. A_BEATS : f[i] = st[B_BEATS + i]
    BY <1>2, TransfersAre
  <2> HIDE DEF f
  <2>2. \A i \in 1 .. A_BEATS : B_BEATS + i \in 1 .. in_beats /\ o + ((B_BEATS + i) - 1) = (o + B_BEATS) + (i - 1)
    BY <1>4
  <2>3. \A i \in 1 .. A_BEATS : f[i] = Word(dev, (o + B_BEATS) + (i - 1))
    BY <1>3, <2>1, <2>2
  <2>4. o + B_BEATS \in Nat
    BY <1>4
  <2> QED BY <1>4, <2>1, <2>3, <2>4, ReadSame DEF f
<1> QED BY <1>4, <1>5, <1>6 DEF st

(* The result of tile n joins those before it, beyond the streams. *)
LEMMA ResultKept ==
  ASSUME CallIs, Place0, host.n \in Nat, host.n < nc, Buffer(dev), InputIn(dev), ResultsIn(dev, host.n),
         NEW mem, mem = WriteAt(dev, p_out, ResultOf(Current))
  PROVE  InputIn(mem) /\ ResultsIn(mem, host.n + 1)
<1> DEFINE n == host.n
           words == ResultOf(Current)
           c == chunk * in_beats
           o == c + n * RECV_BEATS
           rb == RECV_BEATS
<1>0. /\ n \in Nat /\ nc \in Nat /\ n < nc /\ in_beats \in Nat /\ rb \in Nat /\ c \in Nat
      /\ n * rb \in Nat /\ n * rb + rb <= chunk * rb /\ c + chunk * rb <= cells /\ cells \in Nat
      /\ nc * in_beats \in Nat /\ nc * in_beats <= c /\ chunk * rb \in Nat
  <2>1. /\ nc * RECV_BEATS <= chunk * RECV_BEATS /\ nc * RECV_BEATS \in Nat /\ chunk * RECV_BEATS \in Nat
        /\ n * RECV_BEATS \in Nat /\ n * RECV_BEATS + RECV_BEATS <= nc * RECV_BEATS /\ RECV_BEATS \in Nat
    BY Beats, Offsets, Sizes
  <2>2. n * rb + rb <= chunk * rb
    BY <2>1
  <2> QED BY <2>1, <2>2, Beats, ChunkFacts, Sizes
<1>1. mem = WriteAt(dev, o * wbytes, words) /\ o \in Nat /\ Len(words) = rb
  <2>1. p_out = o * wbytes
    BY Addresses
  <2>2. o \in Nat
    BY <1>0
  <2> QED BY <2>1, <2>2, ResultIs
<1>2. Current = call.streams[host.c0 + (n + 1)]
  <2>1. host.c0 + host.n + 1 = host.c0 + (n + 1)
    BY DEF Place0
  <2> QED BY <2>1 DEF Current
<1>3. o = c + n * rb
  OBVIOUS
<1> HIDE DEF n, words, c, o, rb
<1>4. ASSUME NEW z \in Nat, z < cells
      PROVE  Word(mem, z) = IF z \in o .. (o + rb) - 1 THEN words[(z - o) + 1] ELSE Word(dev, z)
  <2>1. z * wbytes \in DOMAIN dev
    BY <1>0, <1>4, InBuffer DEF Buffer
  <2>2. Len(words) \in Nat
    BY <1>0, <1>1
  <2> QED BY <1>1, <2>1, <2>2, Written
<1>5. InputIn(mem)
  <2> SUFFICES ASSUME NEW m \in 1 .. nc, NEW p \in 1 .. in_beats
               PROVE  Word(mem, (m - 1) * in_beats + (p - 1)) = call.streams[host.c0 + m][p]
    BY DEF InputIn
  <2> DEFINE z == (m - 1) * in_beats + (p - 1)
             y == nc * in_beats
  <2>1. z \in Nat /\ z < y
    BY <1>0, InChunk
  <2>2. y \in Nat /\ y <= c
    BY <1>0
  <2>3. Word(dev, z) = call.streams[host.c0 + m][p]
    BY DEF InputIn
  <2> HIDE DEF z, y
  <2> DEFINE u == n * rb
             v == chunk * rb
  <2>4. u \in Nat /\ v \in Nat /\ o = c + u /\ c + v <= cells
    BY <1>0, <1>3
  <2> HIDE DEF u, v
  <2>5. z < cells /\ ~(z \in o .. (o + rb) - 1)
    BY <1>0, <2>1, <2>2, <2>4
  <2>6. Word(mem, z) = Word(dev, z)
    BY <1>4, <2>1, <2>5
  <2> QED BY <2>3, <2>6 DEF z
<1>6. ResultsIn(mem, n + 1)
  <2> SUFFICES ASSUME NEW m \in 1 .. n + 1, NEW p \in 1 .. rb
               PROVE  Word(mem, c + ((m - 1) * rb + (p - 1))) = ResultOf(call.streams[host.c0 + m])[p]
    BY DEF ResultsIn, c, rb
  <2> DEFINE x == (m - 1) * rb
             u == n * rb
             v == chunk * rb
             z == c + (x + (p - 1))
  <2>1. u \in Nat /\ v \in Nat /\ o = c + u /\ c + v <= cells /\ u + rb <= v
    BY <1>0, <1>3
  <2>2. CASE m = n + 1
    <3>1. m - 1 = n
      BY <1>0, <2>2
    <3>2. x = u
      BY <3>1
    <3> HIDE DEF x, u, v
    <3>3. z \in Nat /\ z < cells /\ z \in o .. (o + rb) - 1 /\ (z - o) + 1 = p
      BY <1>0, <2>1, <3>2
    <3> HIDE DEF z
    <3>4. Word(mem, z) = words[p]
      BY <1>4, <3>3
    <3>5. words[p] = ResultOf(call.streams[host.c0 + m])[p]
      BY <1>2, <2>2 DEF words
    <3> QED BY <3>4, <3>5 DEF z, x
  <2>3. CASE m # n + 1
    <3>1. m \in 1 .. n
      BY <1>0, <2>3
    <3>2. x \in Nat /\ x + (p - 1) \in Nat /\ x + (p - 1) < u
      BY <1>0, <3>1, InChunk
    <3>3. Word(dev, z) = ResultOf(call.streams[host.c0 + m])[p]
      BY <3>1 DEF ResultsIn, c, rb, n
    <3> HIDE DEF x, u, v
    <3>4. z \in Nat /\ z < cells /\ ~(z \in o .. (o + rb) - 1)
      BY <1>0, <2>1, <3>2
    <3> HIDE DEF z
    <3>5. Word(mem, z) = Word(dev, z)
      BY <1>4, <3>4
    <3> QED BY <3>3, <3>5 DEF z, x
  <2> QED BY <2>2, <2>3
<1> QED BY <1>5, <1>6 DEF n

-----------------------------------------------------------------------------
(* The results as the host reads them back. *)

(* What ReadChunk cuts out of the buffer. *)
readTiles ==
  LET fo == ReadAt(SyncResult, OFF_C, nc * RECV_BEATS)
  IN  [i \in 1 .. nc |-> SubSeq(fo, (i - 1) * RECV_BEATS + 1, i * RECV_BEATS)]

(* They are the results of the chunk. *)
LEMMA ResultsRead ==
  ASSUME CallIs, Place0, Buffer(cpu), ResultsIn(dev, nc)
  PROVE  readTiles = [m \in 1 .. nc |-> ResultOf(call.streams[host.c0 + m])]
<1> DEFINE rb == RECV_BEATS
           c == chunk * in_beats
           x == nc * rb
           fo == ReadAt(SyncResult, OFF_C, x)
           cut(i) == SubSeq(fo, (i - 1) * rb + 1, i * rb)
           res(i) == ResultOf(call.streams[host.c0 + i])
<1>0. nc \in Nat /\ rb \in Nat \ {0} /\ c \in Nat /\ x \in Nat /\ c + x <= cells /\ cells \in Nat
  <2>1. x <= chunk * rb /\ x \in Nat /\ chunk * rb \in Nat /\ c + chunk * rb <= cells /\ c \in Nat /\ cells \in Nat
    BY Beats
  <2> QED BY <2>1, ChunkFacts, Sizes
<1>1. OFF_C = c * wbytes
  BY DEF OFF_C
<1>2. SyncResult = Sync(cpu, dev, c * wbytes, x)
  BY <1>1 DEF SyncResult
<1>3. fo = ReadAt(SyncResult, c * wbytes, x)
  BY <1>1
<1>4. \A m \in 1 .. nc, p \in 1 .. rb : Word(dev, c + ((m - 1) * rb + (p - 1))) = res(m)[p]
  BY DEF ResultsIn
<1>4a. \A m \in 1 .. nc : res(m) = [p \in 1 .. rb |-> res(m)[p]]
  BY ResultIs
<1>4b. \A m \in 1 .. nc, p \in 1 .. rb :
         /\ (m - 1) * rb \in Nat /\ (m - 1) * rb + (p - 1) \in Nat
         /\ (m - 1) * rb + (p - 1) < x
         /\ ((m - 1) * rb + (p - 1)) + 1 = (m - 1) * rb + p
  BY <1>0, InChunk
<1>4c. \A m \in 1 .. nc : m * rb = (m - 1) * rb + rb /\ (m - 1) * rb \in Nat
  <2> TAKE m \in 1 .. nc
  <2>1. m - 1 \in Nat /\ 1 \in Nat /\ m = (m - 1) + 1 /\ rb \in Nat
    BY <1>0
  <2>2. ((m - 1) + 1) * rb = (m - 1) * rb + 1 * rb /\ (m - 1) * rb \in Nat /\ 1 * rb = rb
    BY <2>1, Distribute, MulNat
  <2> QED BY <2>1, <2>2
<1>5. readTiles = [m \in 1 .. nc |-> cut(m)]
  BY DEF readTiles
<1> HIDE DEF rb, c, x, fo, res
<1>6. ASSUME NEW m \in 1 .. nc
      PROVE  cut(m) = res(m)
  <2> DEFINE y == (m - 1) * rb
  <2>1. y \in Nat /\ m * rb = y + rb
    BY <1>4c
  <2>2. \A p \in 1 .. rb : y + (p - 1) \in Nat /\ y + (p - 1) < x /\ (y + (p - 1)) + 1 = y + p
    BY <1>4b
  <2>3. \A p \in 1 .. rb : Word(dev, c + (y + (p - 1))) = res(m)[p]
    BY <1>4
  <2> HIDE DEF y
  <2>4. ASSUME NEW p \in 1 .. rb
        PROVE  fo[y + p] = res(m)[p]
    <3> DEFINE z == c + (y + (p - 1))
    <3>1. /\ z \in Nat /\ z < cells /\ z \in c .. (c + x) - 1
          /\ y + p \in 1 .. x /\ z = c + ((y + p) - 1)
      BY <1>0, <2>1, <2>2
    <3>2. Word(dev, z) = res(m)[p]
      BY <2>3
    <3> HIDE DEF z
    <3>3. z * wbytes \in DOMAIN cpu
      BY <1>0, <3>1, InBuffer DEF Buffer
    <3>4. Word(SyncResult, z) = Word(dev, z)
      BY <1>0, <1>2, <3>1, <3>3, Synced
    <3> DEFINE q == y + p
    <3>5. q \in 1 .. x /\ z = c + (q - 1)
      BY <3>1
    <3> HIDE DEF q
    <3>6. fo[q] = Word(SyncResult, c + (q - 1))
      BY <1>0, <1>3, <3>5, ReadIs
    <3> QED BY <3>2, <3>4, <3>5, <3>6 DEF q
  <2>5. cut(m) = [p \in 1 .. rb |-> fo[y + p]]
    <3>1. cut(m) = SubSeq(fo, y + 1, y + rb)
      BY <2>1 DEF y
    <3>2. (1 + (y + rb)) - (y + 1) = rb /\ \A p \in 1 .. rb : (p + (y + 1)) - 1 = y + p
      BY <1>0, <2>1
    <3> HIDE DEF cut
    <3>3. SubSeq(fo, y + 1, y + rb) = [p \in 1 .. (1 + (y + rb)) - (y + 1) |-> fo[(p + (y + 1)) - 1]]
      BY <1>0, <2>1
    <3> QED BY <3>1, <3>2, <3>3
  <2> HIDE DEF cut
  <2>6. cut(m) = [p \in 1 .. rb |-> res(m)[p]]
    BY <2>4, <2>5
  <2> QED BY <1>4a, <2>6
<1> HIDE DEF cut
<1>7. readTiles = [m \in 1 .. nc |-> res(m)]
  BY <1>5, <1>6
<1> QED BY <1>7 DEF res

(* The results of the first n tiles, in the order of their tiles. *)
Results == {ResultOf(call.streams[m]) : m \in 1 .. call.nt}
UpTo(c, n) == c \in Seq(Results) /\ Len(c) = n /\ \A m \in 1 .. n : c[m] = ResultOf(call.streams[m])

(* With them collect has all results up to the end of the chunk. *)
LEMMA Extended ==
  ASSUME CallIs, Place0, Buffer(cpu), ResultsIn(dev, nc), NEW c, UpTo(c, host.c0)
  PROVE  UpTo(c \o readTiles, host.c0 + nc)
<1> DEFINE res(i) == ResultOf(call.streams[i])
           k == host.c0
           n == nc
           t == readTiles
<1>0. k \in Nat /\ n \in Nat /\ k + n <= call.nt /\ call.nt \in Nat
  BY ChunkFacts, CallFacts DEF Place0
<1>1. t = [m \in 1 .. n |-> res(k + m)]
  BY ResultsRead
<1> HIDE DEF k, n, t
<1>2. \A m \in 1 .. n : k + m \in 1 .. call.nt
  BY <1>0
<1>3. \A m \in 1 .. n : res(k + m) \in Results
  BY <1>2 DEF Results
<1>4. c \in Seq(Results) /\ Len(c) = k /\ \A m \in 1 .. k : c[m] = res(m)
  BY DEF UpTo, k
<1> HIDE DEF res
<1>5. t \in Seq(Results) /\ Len(t) = n /\ \A m \in 1 .. n : t[m] = res(k + m)
  BY <1>0, <1>1, <1>3
<1>6. /\ c \o t \in Seq(Results) /\ Len(c \o t) = k + n
      /\ \A i \in 1 .. k : (c \o t)[i] = c[i]
      /\ \A i \in 1 .. n : (c \o t)[k + i] = t[i]
  <2>1. /\ c \o t \in Seq(Results) /\ Len(c \o t) = Len(c) + Len(t)
        /\ \A i \in 1 .. Len(c) : (c \o t)[i] = c[i]
        /\ \A i \in 1 .. Len(t) : (c \o t)[Len(c) + i] = t[i]
    <3>1. c \in Seq(Results) /\ t \in Seq(Results)
      BY <1>4, <1>5
    <3>2. ASSUME NEW V, NEW u, NEW v, u \in Seq(V), v \in Seq(V)
          PROVE  /\ u \o v \in Seq(V) /\ Len(u \o v) = Len(u) + Len(v)
                 /\ \A i \in 1 .. Len(u) : (u \o v)[i] = u[i]
                 /\ \A i \in 1 .. Len(v) : (u \o v)[Len(u) + i] = v[i]
      BY <3>2, Concat
    <3>3. c \o t \in Seq(Results) /\ Len(c \o t) = Len(c) + Len(t)
      BY <3>1, <3>2
    <3>4. \A i \in 1 .. Len(c) : (c \o t)[i] = c[i]
      BY <3>1, <3>2
    <3>5. \A i \in 1 .. Len(t) : (c \o t)[Len(c) + i] = t[i]
      BY <3>1, <3>2
    <3> QED BY <3>3, <3>4, <3>5
  <2> QED BY <1>4, <1>5, <2>1, Zenon
<1>7. ASSUME NEW m \in 1 .. k + n PROVE (c \o t)[m] = res(m)
  <2>1. CASE m \in 1 .. k
    BY <1>4, <1>6, <2>1
  <2>2. CASE m \notin 1 .. k
    <3>1. m - k \in 1 .. n /\ k + (m - k) = m
      BY <1>0, <2>2
    <3>2. (c \o t)[k + (m - k)] = t[m - k] /\ t[m - k] = res(k + (m - k))
      BY <1>5, <1>6, <3>1
    <3> QED BY <3>1, <3>2
  <2> QED BY <2>1, <2>2
<1> QED BY <1>6, <1>7 DEF UpTo, k, n, t, res

(* What assemble_C makes of them. *)
LEMMA Assembled ==
  ASSUME CallIs, NEW b, UpTo(b, call.nt)
  PROVE  assemble_C(b, call.index, call.A.rows, call.B.cols) = Product(call.A, call.B)
<1>1. AllResults(call.A, call.B, b, call.index)
  BY CallFacts DEF AllResults, UpTo
<1> QED BY <1>1, CallFacts, TilesRebuildProduct

-----------------------------------------------------------------------------
(* The invariant, and what leaves its parts alone. *)

(* Where the cell may be. *)
Pcs == {"cell", "detect", "pass", "write", "sync", "arm", "start", "sendB", "waitB",
        "sendA", "waitA", "waitC", "read", "raised", "done"}
HostType == [pc : Pcs, c0 : Nat, n : Nat, attempt : Nat]
InTile == {"arm", "start", "sendB", "waitB", "sendA", "waitA", "waitC"}
InPass == InTile \cup {"write", "sync", "read"}

(* Types, and where the chunk is. *)
Placed ==
  /\ CallIs
  /\ host \in HostType /\ host.c0 < call.nt
  /\ Buffer(cpu) /\ Buffer(dev)
  /\ totals \in Nat

(* The transfers of the tile in hand. *)
Out == [at |-> p_out, n |-> RECV_BEATS]
InB == [at |-> p_in, n |-> B_BEATS]
InA == [at |-> p_in + B_BEATS * wbytes, n |-> A_BEATS]

(* The states the DMA and the grid can be in, as the host sees them. *)
Hardware(got, started, m, s) == mm2s = m /\ s2mm = s /\ mesh = [got |-> got, started |-> started]

Idle    == Hardware(<< >>, FALSE, NoTransfer, NoTransfer)
Armed   == Hardware(<< >>, FALSE, NoTransfer, Out)
Started == Hardware(<< >>, TRUE, NoTransfer, Out)
MovingB == Hardware(<< >>, TRUE, InB, Out)
HasB    == Hardware(<<First(Current)>>, TRUE, NoTransfer, Out)
MovingA == Hardware(<<First(Current)>>, TRUE, InA, Out)
HasBoth == Hardware(<<First(Current), Second(Current)>>, TRUE, NoTransfer, Out)
InTransit == MovingB \/ HasB \/ MovingA \/ HasBoth

(* The cell waits before it goes on, so each of its steps meets the hardware in   *)
(* one state or two; a cell that a timeout has ended meets it anywhere in a tile. *)
Phases ==
  /\ host.pc \in {"detect", "pass", "write", "sync", "arm", "read", "done"} => Idle
  /\ host.pc = "start" => Armed
  /\ host.pc = "sendB" => Started
  /\ host.pc = "waitB" => MovingB \/ HasB
  /\ host.pc = "sendA" => HasB
  /\ host.pc = "waitA" => MovingA \/ HasBoth \/ Idle
  /\ host.pc = "waitC" => HasBoth \/ Idle
  /\ host.pc \in {"cell", "raised"} => Idle \/ InTransit

(* The streams are where the DMA reads them until the tile is done, and the *)
(* results before it where the cell will read them.                         *)
Data ==
  /\ host.pc = "sync" => InputIn(cpu)
  /\ host.pc \in InTile \/ InTransit => host.n < nc /\ InputIn(dev)
  /\ host.pc \in InTile => ResultsIn(dev, host.n)
  /\ host.pc \in {"waitA", "waitC"} /\ Idle => ResultsIn(dev, host.n + 1)
  /\ host.pc = "read" => host.n = nc /\ ResultsIn(dev, nc)

(* collect and beats are the results of the tiles in their order, without a gap. *)
Collected ==
  /\ beats = {} \/ \E b : beats = {b} /\ UpTo(b, call.nt)
  /\ totals > 0 => beats # {}
  /\ host.pc \in InPass =>
       IF beats = {} THEN \E c : collect = {c} /\ UpTo(c, host.c0) ELSE collect = {}
  /\ C_hw = IF host.pc = "done" THEN {Product(call.A, call.B)} ELSE {}

IInv == Placed /\ Phases /\ Data /\ Collected
-----------------------------------------------------------------------------
(* What tells the states apart. *)
LEMMA Disjoint ==
  /\ Idle => mm2s.n = 0 /\ s2mm.n = 0 /\ ~InTransit /\ mesh.got = << >>
  /\ Armed \/ Started => mm2s.n = 0 /\ s2mm.n # 0 /\ mesh.got = << >> /\ ~InTransit /\ ~Idle
  /\ MovingB => mm2s.n # 0 /\ s2mm.n # 0 /\ mesh.got = << >> /\ ~HasB /\ ~MovingA /\ ~HasBoth /\ ~Idle
  /\ HasB => mm2s.n = 0 /\ s2mm.n # 0 /\ mesh.got = <<First(Current)>> /\ ~MovingB /\ ~MovingA /\ ~HasBoth /\ ~Idle
  /\ MovingA => mm2s.n # 0 /\ s2mm.n # 0 /\ mesh.got = <<First(Current)>> /\ ~MovingB /\ ~HasB /\ ~HasBoth /\ ~Idle
  /\ HasBoth => mm2s.n = 0 /\ s2mm.n # 0 /\ mesh.got = <<First(Current), Second(Current)>> /\ ~MovingB /\ ~HasB /\ ~MovingA /\ ~Idle
<1>1. B_BEATS # 0 /\ A_BEATS # 0 /\ RECV_BEATS # 0
  BY Sizes
<1>2. InB.n = B_BEATS /\ InA.n = A_BEATS /\ Out.n = RECV_BEATS /\ NoTransfer.n = 0
  BY DEF InB, InA, Out, NoTransfer
<1>3. \A f, g : <<f, g>> # <<f>> /\ <<f>> # << >> /\ <<f, g>> # << >>
  OBVIOUS
<1> DEFINE f == First(Current)
           g == Second(Current)
<1> HIDE DEF f, g
<1> QED BY <1>1, <1>2, <1>3 DEF Idle, Armed, Started, MovingB, HasB, MovingA, HasBoth, InTransit, Hardware, f, g

(* nc, chunk and the addresses are functions of call and host. *)
LEMMA Unmoved ==
  ASSUME call' = call, host'.c0 = host.c0
  PROVE  nc' = nc /\ chunk' = chunk /\ cells' = cells
BY DEF nc, Least, chunk, fit, AtLeastOne, cells

LEMMA DataMoved ==
  ASSUME call' = call, host'.c0 = host.c0, NEW m, dev' = m
  PROVE  /\ InputIn(m) => InputIn(dev)'
         /\ ResultsIn(m, host'.n) => ResultsIn(dev, host.n)'
         /\ ResultsIn(m, host'.n + 1) => ResultsIn(dev, host.n + 1)'
         /\ ResultsIn(m, nc) => ResultsIn(dev, nc)'
<1>1. nc' = nc /\ chunk' = chunk
  BY Unmoved
<1> QED BY <1>1 DEF InputIn, ResultsIn, Word

LEMMA SameTile ==
  ASSUME call' = call, host'.c0 = host.c0, host'.n = host.n
  PROVE  /\ p_in' = p_in /\ p_out' = p_out /\ Current' = Current
         /\ Out' = Out /\ InB' = InB /\ InA' = InA
<1>1. nc' = nc /\ chunk' = chunk
  BY DEF nc, Least, chunk, fit, AtLeastOne
<1> QED BY <1>1 DEF p_in, p_out, OFF_C, Current, Out, InB, InA

LEMMA SameHardware ==
  ASSUME call' = call, host'.c0 = host.c0, host'.n = host.n, UNCHANGED <<mm2s, s2mm, mesh>>
  PROVE  /\ Idle' = Idle /\ Armed' = Armed /\ Started' = Started /\ MovingB' = MovingB
         /\ HasB' = HasB /\ MovingA' = MovingA /\ HasBoth' = HasBoth /\ InTransit' = InTransit
BY SameTile DEF Idle, Armed, Started, MovingB, HasB, MovingA, HasBoth, InTransit, Hardware

(* One or two fields of host. *)
LEMMA Fields ==
  ASSUME host \in HostType, NEW pc \in Pcs, NEW y \in Nat
  PROVE  /\ LET h == [host EXCEPT !.pc = pc]
            IN  h \in HostType /\ h.pc = pc /\ h.c0 = host.c0 /\ h.n = host.n
         /\ LET h == [host EXCEPT !.pc = pc, !.c0 = y]
            IN  h \in HostType /\ h.pc = pc /\ h.c0 = y /\ h.n = host.n
         /\ LET h == [host EXCEPT !.pc = pc, !.n = y]
            IN  h \in HostType /\ h.pc = pc /\ h.c0 = host.c0 /\ h.n = y
         /\ LET h == [host EXCEPT !.pc = pc, !.attempt = y]
            IN  h \in HostType /\ h.pc = pc /\ h.c0 = host.c0 /\ h.n = host.n
<1> DEFINE g == [host EXCEPT !.pc = pc]
<1>1. g \in HostType /\ g.pc = pc /\ g.c0 = host.c0 /\ g.n = host.n
  BY DEF HostType
<1>2. /\ [host EXCEPT !.pc = pc, !.c0 = y] = [g EXCEPT !.c0 = y]
      /\ [host EXCEPT !.pc = pc, !.n = y] = [g EXCEPT !.n = y]
      /\ [host EXCEPT !.pc = pc, !.attempt = y] = [g EXCEPT !.attempt = y]
  BY DEF HostType
<1> HIDE DEF g
<1>3. [g EXCEPT !.c0 = y] \in HostType /\ [g EXCEPT !.c0 = y].pc = pc /\ [g EXCEPT !.c0 = y].c0 = y
      /\ [g EXCEPT !.c0 = y].n = host.n
  BY <1>1 DEF HostType
<1>4. [g EXCEPT !.n = y] \in HostType /\ [g EXCEPT !.n = y].pc = pc /\ [g EXCEPT !.n = y].c0 = host.c0
      /\ [g EXCEPT !.n = y].n = y
  BY <1>1 DEF HostType
<1>5. [g EXCEPT !.attempt = y] \in HostType /\ [g EXCEPT !.attempt = y].pc = pc
      /\ [g EXCEPT !.attempt = y].c0 = host.c0 /\ [g EXCEPT !.attempt = y].n = host.n
  BY <1>1 DEF HostType
<1> QED BY <1>1, <1>2, <1>3, <1>4, <1>5 DEF g

(* Steps that leave what is collected, or what is placed, alone. *)
LEMMA CollectedKept ==
  ASSUME Collected, UNCHANGED <<call, totals, collect, beats, C_hw>>, host'.c0 = host.c0,
         host'.pc \in InPass => host.pc \in InPass, host'.pc = "done" <=> host.pc = "done"
  PROVE  Collected'
BY DEF Collected, UpTo, Results

LEMMA PlacedKept ==
  ASSUME Placed, call' = call, host' \in HostType, host'.c0 < call.nt,
         DOMAIN cpu' = DOMAIN cpu, DOMAIN dev' = DOMAIN dev, totals' \in Nat
  PROVE  Placed'
BY DEF Placed, CallIs, Buffer, cells

(* Placed, by its parts. *)
LEMMA Facts ==
  ASSUME Placed
  PROVE  CallIs /\ Place0 /\ host.n \in Nat /\ Buffer(cpu) /\ Buffer(dev) /\ totals \in Nat
         /\ host.pc \in Pcs /\ host \in HostType /\ host.c0 \in Nat /\ host.attempt \in Nat
         /\ host.c0 < call.nt
BY DEF Placed, Place0, HostType

-----------------------------------------------------------------------------
(* The steps of the cell that leave hardware and buffers alone. *)

(* Steps of the processor that leave the hardware and the buffers alone.    *)
LEMMA DataKept ==
  ASSUME Placed, Data, UNCHANGED <<call, cpu, dev, mm2s, s2mm, mesh>>,
         host'.c0 = host.c0, host'.n = host.n,
         host'.pc = "sync" => host.pc = "sync",
         host'.pc \in InTile => host.pc \in InTile,
         host'.pc \in {"waitA", "waitC"} /\ Idle => host.pc \in {"waitA", "waitC"},
         host'.pc = "read" => host.pc = "read"
  PROVE  Data'
<1>1. nc' = nc
  BY Unmoved
<1>2. Idle' = Idle /\ InTransit' = InTransit
  BY SameHardware
<1>3. /\ InputIn(dev) => InputIn(dev)'
      /\ ResultsIn(dev, host.n) => ResultsIn(dev, host.n)'
      /\ ResultsIn(dev, host.n + 1) => ResultsIn(dev, host.n + 1)'
      /\ ResultsIn(dev, nc) => ResultsIn(dev, nc)'
  BY <1>1, Unmoved DEF InputIn, ResultsIn, Word
<1>4. InputIn(cpu) => InputIn(cpu)'
  BY <1>1 DEF InputIn, Word
<1> QED BY <1>1, <1>2, <1>3, <1>4 DEF Data

(* A step of the processor to pc. *)
LEMMA Kept ==
  ASSUME IInv, UNCHANGED <<call, cpu, dev, mm2s, s2mm, mesh>>, UNCHANGED <<totals, collect, beats, C_hw>>,
         NEW pc \in Pcs, host' = [host EXCEPT !.pc = pc]
  PROVE  /\ Placed' /\ host'.pc = pc /\ host'.c0 = host.c0 /\ host'.n = host.n /\ host.pc \in Pcs
         /\ Idle' = Idle /\ Armed' = Armed /\ Started' = Started /\ MovingB' = MovingB
         /\ HasB' = HasB /\ MovingA' = MovingA /\ HasBoth' = HasBoth /\ InTransit' = InTransit
<1>1. host' \in HostType /\ host'.pc = pc /\ host'.c0 = host.c0 /\ host'.n = host.n
  BY Facts, Fields DEF IInv
<1>2. Placed'
  BY <1>1, Facts, PlacedKept DEF IInv
<1> QED BY <1>1, <1>2, SameHardware, Facts DEF IInv

LEMMA DetectStep == IInv /\ Detect => IInv'
<1> SUFFICES ASSUME IInv, Detect PROVE IInv'
  OBVIOUS
<1>1. PICK pc \in {"pass", "raised"} : host' = [host EXCEPT !.pc = pc]
  BY DEF Detect, Goto
<1>2. UNCHANGED <<call, cpu, dev, mm2s, s2mm, mesh>> /\ UNCHANGED <<totals, collect, beats, C_hw>> /\ host.pc = "detect"
  BY DEF Detect, At
<1>3. pc \in Pcs
  BY <1>1 DEF Pcs
<1>4. Placed' /\ host'.pc = pc /\ host'.c0 = host.c0 /\ host'.n = host.n /\ Idle' = Idle
  BY <1>1, <1>2, <1>3, Kept
<1>5. Phases'
  BY <1>1, <1>2, <1>4 DEF Phases, IInv
<1>6. Data'
  BY <1>1, <1>2, <1>4, DataKept DEF IInv, InTile
<1>7. Collected'
  BY <1>1, <1>2, <1>4, CollectedKept DEF IInv, InPass, InTile
<1> QED BY <1>4, <1>5, <1>6, <1>7 DEF IInv

LEMMA AgainStep == IInv /\ Again => IInv'
<1> SUFFICES ASSUME IInv, Again PROVE IInv'
  OBVIOUS
<1>2. /\ UNCHANGED <<call, cpu, dev, mm2s, s2mm, mesh>> /\ UNCHANGED <<totals, collect, beats, C_hw>>
      /\ host.pc = "raised" /\ host' = [host EXCEPT !.pc = "cell", !.attempt = host.attempt + 1]
  BY DEF Again, At
<1>3. host' \in HostType /\ host'.pc = "cell" /\ host'.c0 = host.c0 /\ host'.n = host.n
  <2>1. "cell" \in Pcs /\ host.attempt + 1 \in Nat /\ host \in HostType
    BY Facts DEF Pcs, IInv
  <2> QED BY <1>2, <2>1, Fields
<1>4. Placed'
  BY <1>2, <1>3, Facts, PlacedKept DEF IInv
<1>5. Phases'
  <2>1. Idle' = Idle /\ InTransit' = InTransit
    BY <1>2, <1>3, SameHardware
  <2> QED BY <1>2, <1>3, <2>1 DEF Phases, IInv
<1>6. Data'
  BY <1>2, <1>3, DataKept DEF IInv, InTile
<1>7. Collected'
  BY <1>2, <1>3, CollectedKept DEF IInv, InPass, InTile
<1> QED BY <1>4, <1>5, <1>6, <1>7 DEF IInv

LEMMA TimeoutStep == IInv /\ Timeout => IInv'
<1> SUFFICES ASSUME IInv, Timeout PROVE IInv'
  OBVIOUS
<1>2. /\ UNCHANGED <<call, cpu, dev, mm2s, s2mm, mesh>> /\ UNCHANGED <<totals, collect, beats, C_hw>>
      /\ host.pc \in {"waitB", "waitA", "waitC"} /\ host' = [host EXCEPT !.pc = "raised"]
  BY DEF Timeout, MayTimeOut, Awaited, Goto
<1>3. "raised" \in Pcs
  BY DEF Pcs
<1>4. /\ Placed' /\ host'.pc = "raised" /\ host'.c0 = host.c0 /\ host'.n = host.n
      /\ Idle' = Idle /\ InTransit' = InTransit
  BY <1>2, <1>3, Kept
<1>5. Phases'
  <2>1. Idle \/ InTransit
    BY <1>2 DEF IInv, Phases, InTransit
  <2> QED BY <1>4, <2>1 DEF Phases
<1>6. Data'
  BY <1>2, <1>4, DataKept DEF IInv, InTile
<1>7. Collected'
  BY <1>2, <1>4, CollectedKept DEF IInv, InPass, InTile
<1> QED BY <1>4, <1>5, <1>6, <1>7 DEF IInv

LEMMA WaitMm2sStep ==
  IInv /\ (WaitMm2s("waitB", "sendA") \/ WaitMm2s("waitA", "waitC")) => IInv'
<1> SUFFICES ASSUME IInv, WaitMm2s("waitB", "sendA") \/ WaitMm2s("waitA", "waitC") PROVE IInv'
  OBVIOUS
<1>1. PICK pc \in {"sendA", "waitC"} : /\ host' = [host EXCEPT !.pc = pc]
                                       /\ host.pc = IF pc = "sendA" THEN "waitB" ELSE "waitA"
  BY DEF WaitMm2s, Goto, At
<1>2. UNCHANGED <<call, cpu, dev, mm2s, s2mm, mesh>> /\ UNCHANGED <<totals, collect, beats, C_hw>> /\ mm2s.n = 0
  BY DEF WaitMm2s
<1>3. pc \in Pcs
  BY <1>1 DEF Pcs
<1>4. /\ Placed' /\ host'.pc = pc /\ host'.c0 = host.c0 /\ host'.n = host.n
      /\ Idle' = Idle /\ HasB' = HasB /\ HasBoth' = HasBoth /\ InTransit' = InTransit
  BY <1>1, <1>2, <1>3, Kept
<1>5. Phases'
  <2>1. pc = "sendA" => HasB
    BY <1>1, <1>2, Disjoint DEF Phases, IInv
  <2>2. pc = "waitC" => HasBoth \/ Idle
    BY <1>1, <1>2, Disjoint DEF Phases, IInv
  <2> QED BY <1>1, <1>4, <2>1, <2>2 DEF Phases
<1>6. Data'
  BY <1>1, <1>2, <1>4, DataKept DEF IInv, InTile
<1>7. Collected'
  BY <1>1, <1>2, <1>4, CollectedKept DEF IInv, InPass, InTile
<1> QED BY <1>4, <1>5, <1>6, <1>7 DEF IInv

-----------------------------------------------------------------------------
(* The steps inside a tile. *)

(* Steps inside a tile that change the hardware only.                       *)
LEMMA BusyKept ==
  ASSUME Placed, Data, UNCHANGED <<call, cpu, dev>>, host'.c0 = host.c0, host'.n = host.n,
         host.pc \in InTile \/ InTransit, host'.pc \in InTile => host.pc \in InTile,
         ~(Idle'), host'.pc \notin {"sync", "read"}
  PROVE  Data'
<1>1. nc' = nc
  BY Unmoved
<1>2. /\ InputIn(dev) => InputIn(dev)'
      /\ ResultsIn(dev, host.n) => ResultsIn(dev, host.n)'
  BY <1>1, Unmoved DEF InputIn, ResultsIn, Word
<1> QED BY <1>1, <1>2 DEF Data

LEMMA StartS2mmStep == IInv /\ StartS2mm => IInv'
<1> SUFFICES ASSUME IInv, StartS2mm PROVE IInv'
  OBVIOUS
<1>1. /\ UNCHANGED <<call, cpu, dev, mm2s, mesh>> /\ UNCHANGED <<totals, collect, beats, C_hw>>
      /\ host.pc = "arm" /\ host' = [host EXCEPT !.pc = "start"] /\ s2mm' = Out
  BY DEF StartS2mm, Goto, At, Out
<1>2. host' \in HostType /\ host'.pc = "start" /\ host'.c0 = host.c0 /\ host'.n = host.n
  <2>1. "start" \in Pcs /\ host \in HostType /\ host.n \in Nat
    BY Facts DEF IInv, Pcs
  <2> QED BY <1>1, <2>1, Fields
<1>3. Placed'
  BY <1>1, <1>2, Facts, PlacedKept DEF IInv
<1>4. Armed' /\ ~(Idle')
  <2>1. Idle
    BY <1>1 DEF IInv, Phases
  <2>2. Out' = Out
    BY <1>1, <1>2, SameTile
  <2>3. Armed'
    BY <1>1, <2>1, <2>2 DEF Idle, Armed, Hardware
  <2>4. Out.n # 0
    BY Sizes DEF Out
  <2> QED BY <1>1, <2>3, <2>4 DEF Idle, Hardware, NoTransfer
<1>5. Phases'
  BY <1>2, <1>4 DEF Phases
<1>6. Data'
  BY <1>1, <1>2, <1>4, BusyKept DEF IInv, InTile
<1>7. Collected'
  BY <1>1, <1>2, CollectedKept DEF IInv, InPass, InTile
<1> QED BY <1>3, <1>5, <1>6, <1>7 DEF IInv

LEMMA StartBlocksStep == IInv /\ StartBlocks => IInv'
<1> SUFFICES ASSUME IInv, StartBlocks PROVE IInv'
  OBVIOUS
<1>1. /\ UNCHANGED <<call, cpu, dev, mm2s, s2mm>> /\ UNCHANGED <<totals, collect, beats, C_hw>>
      /\ host.pc = "start" /\ host' = [host EXCEPT !.pc = "sendB"] /\ mesh' = [mesh EXCEPT !.started = TRUE]
  BY DEF StartBlocks, Goto, At
<1>2. host' \in HostType /\ host'.pc = "sendB" /\ host'.c0 = host.c0 /\ host'.n = host.n
  <2>1. "sendB" \in Pcs /\ host \in HostType /\ host.n \in Nat
    BY Facts DEF IInv, Pcs
  <2> QED BY <1>1, <2>1, Fields
<1>3. Placed'
  BY <1>1, <1>2, Facts, PlacedKept DEF IInv
<1>4. Started' /\ ~(Idle')
  <2>1. Armed
    BY <1>1 DEF IInv, Phases
  <2>2. Out' = Out
    BY <1>1, <1>2, SameTile
  <2>3. Started'
    BY <1>1, <2>1, <2>2 DEF Armed, Started, Hardware
  <2>4. Out.n # 0
    BY Sizes DEF Out
  <2> QED BY <2>2, <2>3, <2>4 DEF Idle, Started, Hardware, NoTransfer
<1>5. Phases'
  BY <1>2, <1>4 DEF Phases
<1>6. Data'
  BY <1>1, <1>2, <1>4, BusyKept DEF IInv, InTile
<1>7. Collected'
  BY <1>1, <1>2, CollectedKept DEF IInv, InPass, InTile
<1> QED BY <1>3, <1>5, <1>6, <1>7 DEF IInv

LEMMA SendStep == IInv /\ (SendB \/ SendA) => IInv'
<1> SUFFICES ASSUME IInv, SendB \/ SendA PROVE IInv'
  OBVIOUS
<1>1. PICK pc \in {"waitB", "waitA"} :
        /\ host' = [host EXCEPT !.pc = pc] /\ host.pc = IF pc = "waitB" THEN "sendB" ELSE "sendA"
        /\ mm2s' = IF pc = "waitB" THEN InB ELSE InA
  BY DEF SendB, SendA, StartMm2s, At, Goto, InB, InA
<1>1a. UNCHANGED <<call, cpu, dev, s2mm, mesh>> /\ UNCHANGED <<totals, collect, beats, C_hw>>
  BY DEF SendB, SendA, StartMm2s
<1>2. host' \in HostType /\ host'.pc = pc /\ host'.c0 = host.c0 /\ host'.n = host.n
  <2>1. pc \in Pcs
    BY <1>1 DEF Pcs
  <2> QED BY <1>1, <2>1, Facts, Fields DEF IInv
<1>3. Placed'
  BY <1>1a, <1>2, Facts, PlacedKept DEF IInv
<1>4. IF pc = "waitB" THEN MovingB' ELSE MovingA'
  <2>1. Out' = Out /\ InB' = InB /\ InA' = InA /\ Current' = Current
    BY <1>1a, <1>2, SameTile
  <2>2. CASE pc = "waitB"
    <3>1. Started
      BY <1>1, <2>2 DEF IInv, Phases
    <3> QED BY <1>1, <1>1a, <2>1, <2>2, <3>1 DEF Started, MovingB, Hardware
  <2>3. CASE pc # "waitB"
    <3>1. HasB
      BY <1>1, <2>3 DEF IInv, Phases
    <3> QED BY <1>1, <1>1a, <2>1, <2>3, <3>1 DEF HasB, MovingA, Hardware
  <2> QED BY <2>2, <2>3
<1>4a. ~(Idle')
  <2>1. mm2s'.n # 0
    BY <1>1, Sizes DEF InB, InA
  <2> QED BY <2>1 DEF Idle, Hardware, NoTransfer
<1>5. Phases'
  BY <1>1, <1>2, <1>4 DEF Phases
<1>6. Data'
  BY <1>1, <1>1a, <1>2, <1>4a, BusyKept DEF IInv, InTile
<1>7. Collected'
  BY <1>1, <1>1a, <1>2, CollectedKept DEF IInv, InPass, InTile
<1> QED BY <1>3, <1>5, <1>6, <1>7 DEF IInv

LEMMA WaitS2mmStep == IInv /\ WaitS2mm => IInv'
<1> SUFFICES ASSUME IInv, WaitS2mm PROVE IInv'
  OBVIOUS
<1> DEFINE pc == IF host.n + 1 < nc THEN "arm" ELSE "read"
<1>1. /\ UNCHANGED <<call, cpu, dev, mm2s, s2mm, mesh>> /\ UNCHANGED <<totals, collect, beats, C_hw>>
      /\ host.pc = "waitC" /\ host' = [host EXCEPT !.pc = pc, !.n = host.n + 1] /\ s2mm.n = 0
  BY DEF WaitS2mm, At
<1>1a. pc \in {"arm", "read"} /\ (pc = "arm" => host.n + 1 < nc) /\ (pc = "read" => ~(host.n + 1 < nc))
  OBVIOUS
<1> HIDE DEF pc
<1>2. host' \in HostType /\ host'.pc = pc /\ host'.c0 = host.c0 /\ host'.n = host.n + 1
  <2>1. pc \in Pcs /\ host.n + 1 \in Nat /\ host \in HostType
    BY <1>1a, Facts DEF Pcs, IInv
  <2> QED BY <1>1, <2>1, Fields
<1>3. Placed'
  BY <1>1, <1>2, Facts, PlacedKept DEF IInv
<1>4. Idle /\ Idle'
  <2>1. Idle
    BY <1>1, Disjoint DEF IInv, Phases
  <2> QED BY <1>1, <2>1 DEF Idle, Hardware
<1>5. Phases'
  BY <1>1a, <1>2, <1>4 DEF Phases
<1>6. Data'
  <2>1. host.n < nc /\ InputIn(dev) /\ ResultsIn(dev, host.n + 1)
    BY <1>1, <1>4 DEF IInv, Data, InTile
  <2>2. nc' = nc
    BY <1>1, <1>2, Unmoved
  <2>3. InputIn(dev)' /\ ResultsIn(dev, host.n)'
    BY <1>1, <1>2, <2>1, DataMoved
  <2>4. pc = "read" => host.n + 1 = nc
    BY <1>1a, <2>1, Facts, ChunkFacts DEF IInv
  <2>5. pc = "read" => host'.n = nc' /\ ResultsIn(dev, nc)'
    BY <1>1, <1>2, <2>1, <2>2, <2>4, DataMoved
  <2>6. ~(InTransit')
    <3>1. RECV_BEATS # 0
      BY Sizes
    <3> QED BY <1>4, <3>1 DEF Idle, InTransit, MovingB, HasB, MovingA, HasBoth, Hardware, Out, NoTransfer
  <2> QED BY <1>1a, <1>2, <2>2, <2>3, <2>5, <2>6 DEF Data, InTile
<1>7. Collected'
  BY <1>1, <1>1a, <1>2, CollectedKept DEF IInv, InPass, InTile
<1> QED BY <1>3, <1>5, <1>6, <1>7 DEF IInv

-----------------------------------------------------------------------------
(* The steps of the hardware. *)

(* A step of the hardware leaves the cell where it is. *)
LEMMA HostStands ==
  ASSUME IInv, UNCHANGED <<call, host, cpu>>, UNCHANGED <<totals, collect, beats, C_hw>>,
         DOMAIN dev' = DOMAIN dev
  PROVE  Placed' /\ Collected'
<1>1. Placed'
  BY Facts, PlacedKept DEF IInv
<1>2. Collected'
  BY CollectedKept DEF IInv
<1> QED BY <1>1, <1>2

LEMMA Appended == \A x, y : Append(<<x>>, y) = <<x, y>>
<1> SUFFICES ASSUME NEW x, NEW y PROVE Append(<<x>>, y) = <<x, y>>
  OBVIOUS
<1> DEFINE V == {x, y}
           s == Append(<<x>>, y)
           t == <<x, y>>
<1>1. <<x>> \in Seq(V) /\ Len(<<x>>) = 1 /\ <<x>>[1] = x /\ y \in V
  OBVIOUS
<1>2. t \in Seq(V) /\ Len(t) = 2 /\ t[1] = x /\ t[2] = y
  OBVIOUS
<1> HIDE DEF V
<1>3. s \in Seq(V) /\ Len(s) = 2 /\ s[1] = x /\ s[2] = y
  BY <1>1
<1> HIDE DEF s, t
<1>4. \A i \in 1 .. 2 : s[i] = t[i]
  <2>1. 1 .. 2 = {1, 2}
    OBVIOUS
  <2> QED BY <1>2, <1>3, <2>1
<1>5. s = [i \in 1 .. 2 |-> s[i]] /\ t = [i \in 1 .. 2 |-> t[i]]
  BY <1>2, <1>3
<1>6. s = t
  BY <1>4, <1>5
<1> QED BY <1>6 DEF s, t

(* A transfer brings the grid the tile's stream, by Fed. *)
LEMMA Mm2sDoneStep == IInv /\ Mm2sDone => IInv'
<1> SUFFICES ASSUME IInv, Mm2sDone PROVE IInv'
  OBVIOUS
<1>1. /\ UNCHANGED <<call, host, cpu, dev, s2mm>> /\ UNCHANGED <<totals, collect, beats, C_hw>>
      /\ mm2s.n > 0 /\ mm2s' = NoTransfer
      /\ mesh' = [mesh EXCEPT !.got = Append(@, ReadAt(dev, mm2s.at, mm2s.n))]
  BY DEF Mm2sDone
<1>2. Placed' /\ Collected'
  BY <1>1, HostStands
<1>3. /\ MovingB \/ MovingA
      /\ host.pc \in {"waitB", "waitA", "cell", "raised"}
      /\ host.pc = "waitB" => MovingB
      /\ host.pc = "waitA" => MovingA
  <2>1. host.pc \in Pcs
    BY Facts DEF IInv
  <2> QED BY <1>1, <2>1, Disjoint DEF IInv, Phases, Pcs, InTransit
<1>4. /\ ReadAt(dev, p_in, B_BEATS) = First(Current)
      /\ ReadAt(dev, p_in + B_BEATS * wbytes, A_BEATS) = Second(Current)
  <2>1. host.n < nc /\ InputIn(dev)
    BY <1>3 DEF IInv, Data, InTransit
  <2> QED BY <2>1, Facts, Fed DEF IInv
<1>5. Out' = Out /\ InB' = InB /\ InA' = InA /\ Current' = Current
  BY <1>1, SameTile
<1>6. (MovingB => HasB') /\ (MovingA => HasBoth')
  <2> DEFINE f == First(Current)
             g == Second(Current)
  <2> HIDE DEF f, g
  <2>1. Append(<< >>, f) = <<f>> /\ Append(<<f>>, g) = <<f, g>>
    <3>1. \A x : Append(<< >>, x) = <<x>>
      OBVIOUS
    <3> QED BY <3>1, Appended
  <2>2. ASSUME MovingB PROVE HasB'
    <3>1. mesh' = [got |-> <<f>>, started |-> TRUE]
      BY <1>1, <1>4, <2>1, <2>2 DEF MovingB, Hardware, InB, f
    <3> QED BY <1>1, <1>5, <2>2, <3>1 DEF MovingB, HasB, Hardware, f
  <2>3. ASSUME MovingA PROVE HasBoth'
    <3>1. mesh' = [got |-> <<f, g>>, started |-> TRUE]
      BY <1>1, <1>4, <2>1, <2>3 DEF MovingA, Hardware, InA, f, g
    <3> QED BY <1>1, <1>5, <2>3, <3>1 DEF MovingA, HasBoth, Hardware, f, g
  <2> QED BY <2>2, <2>3
<1>7. Phases'
  BY <1>1, <1>3, <1>6 DEF Phases, InTransit
<1>8. Data'
  <2>1. s2mm' = Out /\ Out.n # 0
    BY <1>1, <1>3, Sizes DEF MovingB, MovingA, Hardware, Out
  <2>2. ~(Idle')
    BY <2>1 DEF Idle, Hardware, NoTransfer
  <2> QED BY <1>1, <1>3, <2>2, BusyKept DEF IInv, InTransit
<1> QED BY <1>2, <1>7, <1>8 DEF IInv

(* Only a grid that has both transfers answers, by ResultKept. *)
LEMMA S2mmDoneStep == IInv /\ S2mmDone => IInv'
<1> SUFFICES ASSUME IInv, S2mmDone PROVE IInv'
  OBVIOUS
<1> DEFINE mem == WriteAt(dev, s2mm.at, Accelerator(mesh.got[1], mesh.got[2]))
<1>1. /\ UNCHANGED <<call, host, cpu, mm2s>> /\ UNCHANGED <<totals, collect, beats, C_hw>>
      /\ s2mm.n > 0 /\ s2mm' = NoTransfer /\ mesh.started /\ Len(mesh.got) = 2
      /\ mesh' = EmptyMesh /\ dev' = mem
  BY DEF S2mmDone
<1>1a. DOMAIN dev' = DOMAIN dev
  BY <1>1, Domains
<1> HIDE DEF mem
<1>2. Placed' /\ Collected'
  BY <1>1, <1>1a, HostStands
<1>3. HasBoth /\ host.pc \in {"waitA", "waitC", "cell", "raised"}
  <2>1. host.pc \in Pcs
    BY Facts DEF IInv
  <2>2. mesh.got # << >> /\ \A x : mesh.got # <<x>>
    <3>1. Len(<< >>) = 0 /\ \A x : Len(<<x>>) = 1
      OBVIOUS
    <3> QED BY <1>1, <3>1
  <2>3. ~Idle /\ ~Armed /\ ~Started /\ ~MovingB /\ ~HasB /\ ~MovingA
    BY <2>2, Disjoint, Zenon
  <2> QED BY <2>1, <2>3 DEF IInv, Phases, Pcs, InTransit
<1>4. host.n < nc /\ InputIn(dev)
  BY <1>3 DEF IInv, Data, InTransit
<1>5. mem = WriteAt(dev, p_out, ResultOf(Current))
  <2> DEFINE f == First(Current)
             g == Second(Current)
  <2>1. mesh.got = <<f, g>> /\ s2mm.at = p_out
    BY <1>3 DEF HasBoth, Hardware, Out
  <2> HIDE DEF f, g
  <2>2. mesh.got[1] = f /\ mesh.got[2] = g
    BY <2>1
  <2> QED BY <2>1, <2>2 DEF mem, ResultOf, f, g
<1>6. Idle' /\ ~(InTransit')
  <2>1. Idle'
    BY <1>1, <1>3 DEF HasBoth, Idle, Hardware, EmptyMesh
  <2>2. RECV_BEATS # 0
    BY Sizes
  <2> QED BY <2>1, <2>2 DEF Idle, InTransit, MovingB, HasB, MovingA, HasBoth, Hardware, Out, NoTransfer
<1>7. Phases'
  BY <1>1, <1>3, <1>6 DEF Phases
<1>8. Data'
  <2>1. nc' = nc
    BY <1>1, Unmoved
  <2>2. CASE host.pc \in {"waitA", "waitC"}
    <3>1. ResultsIn(dev, host.n)
      BY <2>2 DEF IInv, Data, InTile
    <3>2. InputIn(mem) /\ ResultsIn(mem, host.n + 1)
      BY <1>4, <1>5, <3>1, Facts, ResultKept DEF IInv
    <3>3. ResultsIn(mem, host.n)
      <4>1. 1 .. host.n \subseteq 1 .. host.n + 1
        BY Facts DEF IInv
      <4> QED BY <3>2, <4>1 DEF ResultsIn
    <3>4. InputIn(dev)' /\ ResultsIn(dev, host.n)' /\ ResultsIn(dev, host.n + 1)'
      BY <1>1, <3>2, <3>3, DataMoved
    <3> QED BY <1>1, <1>4, <1>6, <2>1, <2>2, <3>4 DEF Data, InTile
  <2>3. CASE host.pc \in {"cell", "raised"}
    BY <1>1, <1>6, <2>3 DEF Data, InTile
  <2> QED BY <1>3, <2>2, <2>3
<1> QED BY <1>2, <1>7, <1>8 DEF IInv

-----------------------------------------------------------------------------
(* The steps before a chunk. *)

LEMMA NotInTransit == Idle => ~InTransit
BY Disjoint

LEMMA ConfigureStep == IInv /\ Configure => IInv'
<1> SUFFICES ASSUME IInv, Configure PROVE IInv'
  OBVIOUS
<1>1. /\ UNCHANGED <<call, cpu, dev>> /\ C_hw' = {} /\ beats' = {} /\ collect' = {} /\ totals' = 0
      /\ mm2s' = NoTransfer /\ s2mm' = NoTransfer /\ mesh' = EmptyMesh
      /\ host' = [host EXCEPT !.pc = "detect"]
  BY DEF Configure, Goto
<1>2. host' \in HostType /\ host'.pc = "detect" /\ host'.c0 = host.c0 /\ host'.n = host.n
  <2>1. "detect" \in Pcs /\ host \in HostType /\ host.n \in Nat
    BY Facts DEF IInv, Pcs
  <2> QED BY <1>1, <2>1, Fields
<1>3. Placed'
  BY <1>1, <1>2, Facts, PlacedKept DEF IInv
<1>4. Idle' /\ ~(InTransit')
  <2>1. Idle'
    BY <1>1 DEF Idle, Hardware, EmptyMesh
  <2> QED BY <2>1, NotInTransit, PTL
<1>5. Phases'
  BY <1>2, <1>4 DEF Phases
<1>6. Data'
  BY <1>2, <1>4 DEF Data, InTile
<1>7. Collected'
  BY <1>1, <1>2 DEF Collected, InPass, InTile
<1> QED BY <1>3, <1>5, <1>6, <1>7 DEF IInv

(* beats, once collected, is that of the call. *)
LEMMA BeatsKept ==
  ASSUME IInv, call' = call, beats' = beats
  PROVE  (beats = {} \/ \E b : beats = {b} /\ UpTo(b, call.nt))'
<1>1. beats = {} \/ \E b : beats = {b} /\ UpTo(b, call.nt)
  BY DEF IInv, Collected
<1>2. \A b : UpTo(b, call.nt) => UpTo(b, call.nt)'
  BY DEF UpTo, Results
<1> QED BY <1>1, <1>2

(* A pass begins with nothing collected; the last has everything, by Assembled. *)
LEMMA BeginPassStep == IInv /\ BeginPass => IInv'
<1> SUFFICES ASSUME IInv, BeginPass PROVE IInv'
  OBVIOUS
<1>1. UNCHANGED <<call, totals, beats, cpu, dev, mm2s, s2mm, mesh>> /\ host.pc = "pass"
  BY DEF BeginPass, At
<1>2. call.runs \in Nat \ {0} /\ call.nt \in Nat \ {0} /\ totals \in Nat
  BY Facts, CallFacts DEF IInv
<1>3. Idle /\ C_hw = {} /\ Idle'
  <2>1. Idle /\ C_hw = {}
    BY <1>1 DEF IInv, Phases, Collected
  <2> QED BY <1>1, <2>1 DEF Idle, Hardware
<1>4. ~(InTransit')
  BY <1>3, NotInTransit, PTL
<1>5. CASE totals < call.runs
  <2>1. /\ collect' = IF beats = {} THEN {<< >>} ELSE {}
        /\ host' = [host EXCEPT !.pc = "write", !.c0 = 0] /\ C_hw' = C_hw
    BY <1>5 DEF BeginPass
  <2>2. host' \in HostType /\ host'.pc = "write" /\ host'.c0 = 0 /\ host'.n = host.n
    <3>1. "write" \in Pcs /\ 0 \in Nat /\ host \in HostType
      BY Facts DEF IInv, Pcs
    <3> QED BY <2>1, <3>1, Fields
  <2>3. Placed'
    BY <1>1, <1>2, <2>2, PlacedKept DEF IInv
  <2>4. Phases'
    BY <1>3, <2>2 DEF Phases
  <2>5. Data'
    BY <1>4, <2>2 DEF Data, InTile
  <2>6. Collected'
    <3>1. UpTo(<< >>, 0)
      BY DEF UpTo
    <3>3. beats' = {} => \E c : collect' = {c} /\ UpTo(c, host.c0)'
      <4>1. beats' = {} => collect' = {<< >>}
        BY <1>1, <2>1
      <4>2. UpTo(<< >>, host.c0)'
        BY <1>1, <2>2, <3>1 DEF UpTo, Results
      <4> QED BY <4>1, <4>2
    <3>4. beats' # {} => collect' = {}
      BY <1>1, <2>1
    <3>5. (beats = {} \/ \E b : beats = {b} /\ UpTo(b, call.nt))'
      BY <1>1, BeatsKept
    <3> QED BY <1>1, <1>3, <2>1, <2>2, <3>3, <3>4, <3>5 DEF IInv, Collected
  <2> QED BY <2>3, <2>4, <2>5, <2>6 DEF IInv
<1>6. CASE ~(totals < call.runs)
  <2>1. /\ C_hw' = {assemble_C(CHOOSE b \in beats : TRUE, call.index, call.A.rows, call.B.cols)}
        /\ host' = [host EXCEPT !.pc = "done"] /\ collect' = collect
    BY <1>6 DEF BeginPass, Goto
  <2>2. host' \in HostType /\ host'.pc = "done" /\ host'.c0 = host.c0 /\ host'.n = host.n
    <3>1. "done" \in Pcs /\ host.n \in Nat /\ host \in HostType
      BY Facts DEF IInv, Pcs
    <3> QED BY <2>1, <3>1, Fields
  <2>3. Placed'
    BY <1>1, <1>2, <2>2, Facts, PlacedKept DEF IInv
  <2>4. Phases'
    BY <1>3, <2>2 DEF Phases
  <2>5. Data'
    BY <1>4, <2>2 DEF Data, InTile
  <2>6. C_hw' = {Product(call.A, call.B)}
    <3>1. totals > 0
      BY <1>2, <1>6
    <3>2. PICK b : beats = {b} /\ UpTo(b, call.nt)
      BY <3>1 DEF IInv, Collected
    <3>3. (CHOOSE x \in beats : TRUE) = b
      BY <3>2
    <3>4. assemble_C(b, call.index, call.A.rows, call.B.cols) = Product(call.A, call.B)
      BY <3>2, Facts, Assembled DEF IInv
    <3> QED BY <2>1, <3>3, <3>4
  <2>7. Collected'
    <3>1. (beats = {} \/ \E b : beats = {b} /\ UpTo(b, call.nt))'
      BY <1>1, BeatsKept
    <3> QED BY <1>1, <2>2, <2>6, <3>1 DEF IInv, Collected, InPass, InTile
  <2> QED BY <2>3, <2>4, <2>5, <2>7 DEF IInv
<1> QED BY <1>5, <1>6

LEMMA WriteChunkStep == IInv /\ WriteChunk => IInv'
<1> SUFFICES ASSUME IInv, WriteChunk PROVE IInv'
  OBVIOUS
<1> DEFINE mem == WriteAt(cpu, OFF_IN, chunkStreams)
<1>1. /\ UNCHANGED <<call, dev, mm2s, s2mm, mesh>> /\ UNCHANGED <<totals, collect, beats, C_hw>>
      /\ host.pc = "write" /\ host' = [host EXCEPT !.pc = "sync"] /\ cpu' = mem
  BY DEF WriteChunk, At, Goto, chunkStreams
<1>2. host' \in HostType /\ host'.pc = "sync" /\ host'.c0 = host.c0 /\ host'.n = host.n
  <2>1. "sync" \in Pcs /\ host \in HostType /\ host.n \in Nat
    BY Facts DEF IInv, Pcs
  <2> QED BY <1>1, <2>1, Fields
<1>3. Placed'
  <2>1. DOMAIN cpu' = DOMAIN cpu
    BY <1>1, Domains
  <2> QED BY <1>1, <1>2, <2>1, Facts, PlacedKept DEF IInv
<1>4. Idle' /\ ~(InTransit')
  <2>1. Idle
    BY <1>1 DEF IInv, Phases
  <2>2. Idle'
    BY <1>1, <2>1 DEF Idle, Hardware
  <2> QED BY <2>2, NotInTransit, PTL
<1>5. Phases'
  BY <1>2, <1>4 DEF Phases
<1>6. Data'
  <2>1. InputIn(mem)
    BY Facts, InputWritten DEF IInv
  <2> HIDE DEF mem
  <2>2. InputIn(cpu)'
    <3>1. nc' = nc
      BY <1>1, <1>2, Unmoved
    <3> QED BY <1>1, <1>2, <2>1, <3>1 DEF InputIn, Word
  <2> QED BY <1>2, <1>4, <2>2 DEF Data, InTile
<1>7. Collected'
  BY <1>1, <1>2, CollectedKept DEF IInv, InPass, InTile
<1> QED BY <1>3, <1>5, <1>6, <1>7 DEF IInv

LEMMA SyncStep == IInv /\ SyncForDevice => IInv'
<1> SUFFICES ASSUME IInv, SyncForDevice PROVE IInv'
  OBVIOUS
<1>1. /\ UNCHANGED <<call, cpu, mm2s, s2mm, mesh>> /\ UNCHANGED <<totals, collect, beats, C_hw>>
      /\ host.pc = "sync" /\ host' = [host EXCEPT !.pc = "arm", !.n = 0] /\ dev' = SyncInput
  BY DEF SyncForDevice, At
<1>2. host' \in HostType /\ host'.pc = "arm" /\ host'.c0 = host.c0 /\ host'.n = 0
  <2>1. "arm" \in Pcs /\ host \in HostType /\ 0 \in Nat
    BY Facts DEF IInv, Pcs
  <2> QED BY <1>1, <2>1, Fields
<1>3. Placed'
  <2>1. DOMAIN dev' = DOMAIN dev
    BY <1>1, Domains DEF SyncInput
  <2> QED BY <1>1, <1>2, <2>1, Facts, PlacedKept DEF IInv
<1>4. Idle'
  <2>1. Idle
    BY <1>1 DEF IInv, Phases
  <2> QED BY <1>1, <2>1 DEF Idle, Hardware
<1>5. Phases'
  BY <1>2, <1>4 DEF Phases
<1>6. Data'
  <2>1. InputIn(SyncInput)
    <3>1. InputIn(cpu)
      BY <1>1 DEF IInv, Data
    <3> QED BY <3>1, Facts, InputSynced DEF IInv
  <2>2. InputIn(dev)'
    BY <1>1, <1>2, <2>1, DataMoved
  <2>3. 0 < nc'
    <3>1. nc' = nc /\ nc \in Nat \ {0}
      BY <1>1, <1>2, Unmoved, Facts, ChunkFacts DEF IInv
    <3> QED BY <3>1
  <2>4. ResultsIn(dev, host.n)'
    BY <1>2 DEF ResultsIn
  <2>5. ~(InTransit')
    BY <1>4, NotInTransit, PTL
  <2> QED BY <1>2, <2>2, <2>3, <2>4, <2>5 DEF Data
<1>7. Collected'
  BY <1>1, <1>2, CollectedKept DEF IInv, InPass, InTile
<1> QED BY <1>3, <1>5, <1>6, <1>7 DEF IInv

-----------------------------------------------------------------------------
(* The results of a chunk, the sweep, and the invariant of all steps. *)

(* The chunk's results are added in the first pass, by Extended. *)
LEMMA ReadChunkStep == IInv /\ ReadChunk => IInv'
<1> SUFFICES ASSUME IInv, ReadChunk PROVE IInv'
  OBVIOUS
<1> DEFINE last == host.c0 + chunk >= call.nt
           add == {c \o readTiles : c \in collect}
<1>1. /\ UNCHANGED <<call, C_hw, dev, mm2s, s2mm, mesh>> /\ host.pc = "read"
      /\ cpu' = IF collect = {} THEN cpu ELSE SyncResult
      /\ collect' = add
      /\ beats' = IF last /\ collect # {} THEN collect' ELSE beats
      /\ totals' = IF last THEN totals + 1 ELSE totals
      /\ host' = [host EXCEPT !.pc = IF last THEN "pass" ELSE "write",
                              !.c0 = IF last THEN @ ELSE @ + chunk]
  BY DEF ReadChunk, At, readTiles
<1>2. CallIs /\ Place0 /\ Buffer(cpu) /\ Buffer(dev) /\ totals \in Nat /\ host \in HostType
      /\ host.c0 \in Nat /\ host.c0 < call.nt /\ call.nt \in Nat
  BY Facts, CallFacts DEF IInv
<1>3. /\ chunk \in Nat \ {0} /\ nc \in Nat
      /\ last => host.c0 + nc = call.nt
      /\ ~last => nc = chunk /\ host.c0 + chunk < call.nt
  <2>1. chunk \in Nat \ {0} /\ nc \in Nat \ {0}
    BY <1>2, ChunkFacts
  <2>2. ~last => host.c0 + chunk < call.nt
    BY <1>2, <2>1
  <2> QED BY <1>2, <2>1, <2>2, ChunkFacts
<1> HIDE DEF last, add
<1>4. /\ host' \in HostType
      /\ last => host'.pc = "pass" /\ host'.c0 = host.c0
      /\ ~last => host'.pc = "write" /\ host'.c0 = host.c0 + chunk
  <2> DEFINE pc == IF last THEN "pass" ELSE "write"
             y == IF last THEN host.c0 ELSE host.c0 + chunk
  <2>1. pc \in Pcs /\ y \in Nat
    BY <1>2, <1>3 DEF Pcs
  <2>2. host' = [host EXCEPT !.pc = pc, !.c0 = y]
    BY <1>1
  <2>3. (last => pc = "pass" /\ y = host.c0) /\ (~last => pc = "write" /\ y = host.c0 + chunk)
    OBVIOUS
  <2> HIDE DEF pc, y
  <2>4. host' \in HostType /\ host'.pc = pc /\ host'.c0 = y
    BY <1>2, <2>1, <2>2, Fields
  <2> QED BY <2>3, <2>4
<1>5. Placed'
  <2>1. DOMAIN cpu' = DOMAIN cpu
    BY <1>1, Domains DEF SyncResult
  <2>2. host'.c0 < call.nt
    BY <1>2, <1>3, <1>4
  <2>3. totals' \in Nat
    BY <1>1, <1>2
  <2> QED BY <1>1, <1>4, <2>1, <2>2, <2>3, PlacedKept DEF IInv
<1>6. Idle' /\ ~(InTransit')
  <2>1. Idle
    BY <1>1 DEF IInv, Phases
  <2>2. Idle'
    BY <1>1, <2>1 DEF Idle, Hardware
  <2> QED BY <2>2, NotInTransit, PTL
<1>7. Phases'
  BY <1>4, <1>6 DEF Phases
<1>8. Data'
  BY <1>4, <1>6 DEF Data, InTile
<1>9. Collected'
  <2>1. \A b, k : UpTo(b, k) => UpTo(b, k)'
    <3> SUFFICES ASSUME NEW b, NEW k, UpTo(b, k) PROVE UpTo(b, k)'
      OBVIOUS
    <3> QED BY <1>1 DEF UpTo, Results
  <2>2. C_hw' = {} /\ host'.pc # "done"
    BY <1>1, <1>4 DEF IInv, Collected
  <2>3. CASE beats = {}
    <3>1. PICK c : collect = {c} /\ UpTo(c, host.c0)
      BY <1>1, <2>3 DEF IInv, Collected, InPass
    <3>1a. PICK d : d = c \o readTiles
      OBVIOUS
    <3>2. UpTo(d, host.c0 + nc)
      <4>1. ResultsIn(dev, nc)
        BY <1>1 DEF IInv, Data
      <4> QED BY <1>2, <3>1, <3>1a, <4>1, Extended
    <3>3. collect' = {d} /\ collect # {}
      BY <1>1, <3>1, <3>1a DEF add
    <3>4. CASE last
      <4>1. beats' = {d} /\ UpTo(d, call.nt)
        BY <1>1, <1>3, <3>2, <3>3, <3>4
      <4>2. UpTo(d, call.nt)'
        BY <1>1, <4>1 DEF UpTo, Results
      <4>3. (beats = {} \/ \E b : beats = {b} /\ UpTo(b, call.nt))'
        BY <4>1, <4>2
      <4>4. beats' # {} /\ host'.pc \notin InPass
        BY <1>4, <3>4, <4>1 DEF InPass, InTile
      <4> QED BY <2>2, <4>3, <4>4 DEF Collected
    <3>5. CASE ~last
      <4>1. beats' = {} /\ UpTo(d, host'.c0) /\ totals' = totals
        BY <1>1, <1>3, <1>4, <2>3, <3>2, <3>5
      <4>2. UpTo(d, host.c0)'
        BY <1>1, <4>1 DEF UpTo, Results
      <4>3. \E c1 : collect' = {c1} /\ UpTo(c1, host.c0)'
        BY <3>3, <4>2
      <4>4. totals' > 0 => beats' # {}
        BY <2>3, <4>1 DEF IInv, Collected
      <4> QED BY <2>2, <4>1, <4>3, <4>4 DEF Collected
    <3> QED BY <3>4, <3>5
  <2>4. CASE beats # {}
    <3>1. collect = {}
      BY <1>1, <2>4 DEF IInv, Collected, InPass
    <3>2. collect' = {} /\ beats' = beats
      BY <1>1, <3>1 DEF add
    <3>3. PICK b : beats = {b} /\ UpTo(b, call.nt)
      BY <2>4 DEF IInv, Collected
    <3>4. UpTo(b, call.nt)'
      BY <1>1, <3>3 DEF UpTo, Results
    <3>5. (beats = {} \/ \E c : beats = {c} /\ UpTo(c, call.nt))'
      BY <3>2, <3>3, <3>4
    <3> QED BY <2>2, <2>4, <3>2, <3>5 DEF Collected
  <2> QED BY <2>3, <2>4
<1> QED BY <1>5, <1>7, <1>8, <1>9 DEF IInv

LEMMA CountIs == CallIs => call.nt \in Nat \ {0}
<1> SUFFICES ASSUME CallIs PROVE call.nt \in Nat \ {0}
  OBVIOUS
<1> QED BY CallFacts

(* Other factors find the buffer as it is and the hardware at rest. *)
LEMMA SweepSizeStep == IInv /\ SweepSize => IInv'
<1> SUFFICES ASSUME IInv, SweepSize PROVE IInv'
  OBVIOUS
<1>1. /\ UNCHANGED <<cpu, dev, mm2s, s2mm, mesh>> /\ totals' = 0 /\ collect' = {} /\ beats' = {} /\ C_hw' = {}
      /\ host' = [host EXCEPT !.pc = "detect", !.c0 = 0] /\ host.pc = "done"
  BY DEF SweepSize, At
<1>2. PICK j \in Jobs : j.size = call.size /\ call' = Call(j)
  BY DEF SweepSize
<1>3. host' \in HostType /\ host'.pc = "detect" /\ host'.c0 = 0
  <2>1. "detect" \in Pcs /\ 0 \in Nat /\ host \in HostType
    BY Facts DEF IInv, Pcs
  <2> QED BY <1>1, <2>1, Fields
<1>4. CallIs'
  BY <1>2 DEF CallIs
<1>5. call'.nt \in Nat \ {0}
  <2>1. (CallIs => call.nt \in Nat \ {0})'
    BY CountIs, PTL
  <2> QED BY <1>4, <2>1
<1>6. Placed'
  <2>1. call'.size = call.size
    BY <1>2 DEF Call
  <2>2. cells' = cells
    BY <2>1 DEF cells
  <2>3. Buffer(cpu)' /\ Buffer(dev)'
    BY <1>1, <2>2, Facts DEF IInv, Buffer
  <2> QED BY <1>1, <1>3, <1>4, <1>5, <2>3 DEF Placed
<1>7. Idle' /\ ~(InTransit')
  <2>1. Idle
    BY <1>1 DEF IInv, Phases
  <2>2. Idle'
    BY <1>1, <2>1 DEF Idle, Hardware
  <2> QED BY <2>2, NotInTransit, PTL
<1>8. Phases'
  BY <1>3, <1>7 DEF Phases
<1>9. Data'
  BY <1>3, <1>7 DEF Data, InTile
<1>10. Collected'
  BY <1>1, <1>3 DEF Collected, InPass, InTile
<1> QED BY <1>6, <1>8, <1>9, <1>10 DEF IInv

LEMMA InitInv == Init => IInv
<1> SUFFICES ASSUME Init PROVE IInv
  OBVIOUS
<1>1. PICK j \in Jobs : call = Call(j) /\ cpu = Old(j.size) /\ dev = Old(j.size)
  BY DEF Init
<1>2. /\ host = [pc |-> "cell", c0 |-> 0, n |-> 0, attempt |-> 0]
      /\ totals = 0 /\ collect = {} /\ beats = {} /\ C_hw = {}
      /\ mm2s = NoTransfer /\ s2mm = NoTransfer /\ mesh = EmptyMesh
  BY DEF Init
<1>3. CallIs
  BY <1>1 DEF CallIs
<1>4. Placed
  <2>1. call.size = j.size
    BY <1>1 DEF Call
  <2>2. Buffer(cpu) /\ Buffer(dev)
    BY <1>1, <2>1 DEF Buffer, Old, cells
  <2>3. call.nt \in Nat \ {0}
    BY <1>3, CallFacts
  <2>4. host \in HostType
    BY <1>2 DEF HostType, Pcs
  <2> QED BY <1>2, <1>3, <2>2, <2>3, <2>4 DEF Placed
<1>5. Idle
  BY <1>2 DEF Idle, Hardware, EmptyMesh
<1>6. Phases
  BY <1>2, <1>5 DEF Phases
<1>7. Data
  BY <1>2, <1>5, Disjoint DEF Data, InTile
<1>8. Collected
  BY <1>2 DEF Collected, InPass, InTile
<1> QED BY <1>4, <1>6, <1>7, <1>8 DEF IInv

LEMMA StutterStep == IInv /\ UNCHANGED hostVars => IInv'
<1> SUFFICES ASSUME IInv, UNCHANGED hostVars PROVE IInv'
  OBVIOUS
<1>1. UNCHANGED <<call, host, cpu, dev, mm2s, s2mm, mesh>> /\ UNCHANGED <<totals, collect, beats, C_hw>>
  BY DEF hostVars
<1>2. Placed' /\ Collected'
  BY <1>1, HostStands
<1>3. /\ Idle' = Idle /\ Armed' = Armed /\ Started' = Started /\ MovingB' = MovingB
      /\ HasB' = HasB /\ MovingA' = MovingA /\ HasBoth' = HasBoth /\ InTransit' = InTransit
  BY <1>1, SameHardware
<1>4. Phases'
  BY <1>1, <1>3 DEF IInv, Phases
<1>5. Data'
  BY <1>1, DataKept DEF IInv
<1> QED BY <1>2, <1>4, <1>5 DEF IInv

(* All steps. *)
LEMMA NextInv == IInv /\ [Next]_hostVars => IInv'
BY ConfigureStep, DetectStep, BeginPassStep, WriteChunkStep, SyncStep, StartS2mmStep, StartBlocksStep,
   SendStep, WaitMm2sStep, WaitS2mmStep, TimeoutStep, ReadChunkStep, Mm2sDoneStep, S2mmDoneStep,
   AgainStep, SweepSizeStep, StutterStep DEF Next, Cell

LEMMA Invariant == Spec => []IInv
<1>1. Init => IInv
  BY InitInv
<1>2. IInv /\ [Next]_hostVars => IInv'
  BY NextInv
<1> QED BY <1>1, <1>2, PTL DEF Spec

-----------------------------------------------------------------------------
(* The theorems. *)

(* Outside Idle a tile is in hand. *)
LEMMA SomeState ==
  ASSUME IInv
  PROVE  /\ Idle \/ Armed \/ Started \/ InTransit
         /\ ~Idle => host.n < nc
<1>1. host.pc \in Pcs
  BY Facts DEF IInv
<1>2. Idle \/ (host.pc \in InTile /\ (Armed \/ Started)) \/ InTransit
  BY <1>1 DEF IInv, Phases, Pcs, InTile, InTransit
<1> QED BY <1>2 DEF IInv, Data

(* What follows from the invariant. *)
LEMMA RegionsHold == IInv => RegionsApart
<1> SUFFICES ASSUME IInv PROVE RegionsApart
  OBVIOUS
<1> DEFINE w == wbytes
           inputEnd == OFF_IN + nc * in_beats * wbytes
           i == host.n * in_beats
           x == nc * in_beats
           c == chunk * in_beats
           o == host.n * RECV_BEATS
           y == chunk * RECV_BEATS
           rb == RECV_BEATS
<1>1. CASE Idle
  BY <1>1 DEF Idle, Hardware, NoTransfer, RegionsApart
<1>2. CASE ~Idle
  <2>1. host.n < nc /\ CallIs /\ Place0 /\ host.n \in Nat
    BY <1>2, SomeState, Facts DEF IInv
  <2>2. /\ w \in Nat \ {0} /\ B_BEATS \in Nat /\ A_BEATS \in Nat /\ in_beats = B_BEATS + A_BEATS /\ rb \in Nat
        /\ i \in Nat /\ i + in_beats <= x /\ x \in Nat /\ x <= c /\ c \in Nat
        /\ o \in Nat /\ o + rb <= nc * rb /\ nc * rb \in Nat /\ nc * rb <= y /\ y \in Nat
        /\ c + y <= cells /\ cells \in Nat /\ cells * w <= call.size /\ call.size \in Nat
    BY <2>1, Sizes, Beats, Offsets, CallFacts
  <2>3. /\ p_in = i * w /\ p_in + B_BEATS * w = (i + B_BEATS) * w /\ p_out = (c + o) * w
    BY <2>1, Addresses
  <2>4. inputEnd = x * w
    <3>1. x * w \in Nat
      BY <2>2, MulNat
    <3> QED BY <3>1 DEF OFF_IN
  <2> DEFINE z == nc * rb
  <2>4a. o + rb <= z /\ z \in Nat /\ z <= y
    BY <2>2
  <2> HIDE DEF z
  <2>5. RegionsApart <=> /\ mm2s.n > 0 => mm2s.at >= OFF_IN /\ mm2s.at + mm2s.n * w <= inputEnd
                         /\ s2mm.n > 0 => s2mm.at >= inputEnd /\ s2mm.at + s2mm.n * w <= call.size
    BY DEF RegionsApart
  <2> HIDE DEF w, inputEnd, i, x, c, o, y, rb
  <2>6. \A u, v \in Nat : u * w \in Nat /\ (u + v) * w = u * w + v * w /\ (u <= v => u * w <= v * w)
    BY <2>2, MulNat, ProductMono, Distribute
  <2>7. i * w + B_BEATS * w <= x * w /\ (i + B_BEATS) * w + A_BEATS * w <= x * w /\ i * w >= 0
        /\ (i + B_BEATS) * w >= 0
    <3>1. i + B_BEATS \in Nat /\ i + B_BEATS <= x /\ (i + B_BEATS) + A_BEATS \in Nat /\ (i + B_BEATS) + A_BEATS <= x
      BY <2>2
    <3>2. (i + B_BEATS) * w <= x * w /\ ((i + B_BEATS) + A_BEATS) * w <= x * w
      BY <2>2, <2>6, <3>1
    <3>3. /\ (i + B_BEATS) * w = i * w + B_BEATS * w
          /\ ((i + B_BEATS) + A_BEATS) * w = (i + B_BEATS) * w + A_BEATS * w
      BY <2>2, <2>6, <3>1
    <3>4. i * w \in Nat /\ (i + B_BEATS) * w \in Nat
      BY <2>2, <2>6, <3>1
    <3> QED BY <3>2, <3>3, <3>4
  <2>8. (c + o) * w >= x * w /\ (c + o) * w + rb * w <= call.size
    <3>1. c + o \in Nat /\ x <= c + o /\ (c + o) + rb \in Nat /\ (c + o) + rb <= cells
      BY <2>2, <2>4a
    <3>2. x * w <= (c + o) * w /\ ((c + o) + rb) * w <= cells * w
          /\ ((c + o) + rb) * w = (c + o) * w + rb * w
      BY <2>2, <2>6, <3>1
    <3>3. x * w \in Nat /\ (c + o) * w \in Nat /\ rb * w \in Nat /\ cells * w \in Nat
      BY <2>2, <2>6, <3>1
    <3> QED BY <2>2, <3>2, <3>3
  <2>9. OFF_IN = 0 /\ (mm2s = NoTransfer \/ mm2s = InB \/ mm2s = InA) /\ s2mm = Out
    BY <1>2, SomeState DEF OFF_IN, Armed, Started, InTransit, MovingB, HasB, MovingA, HasBoth, Hardware
  <2>10. mm2s.n > 0 => mm2s.at >= OFF_IN /\ mm2s.at + mm2s.n * w <= inputEnd
    <3>1. CASE mm2s = NoTransfer
      BY <3>1 DEF NoTransfer
    <3>2. CASE mm2s = InB
      <4>1. mm2s.at = i * w /\ mm2s.n = B_BEATS
        BY <2>3, <3>2 DEF InB
      <4> QED BY <2>4, <2>7, <2>9, <4>1
    <3>3. CASE mm2s = InA
      <4>1. mm2s.at = (i + B_BEATS) * w /\ mm2s.n = A_BEATS
        BY <2>3, <3>3 DEF InA, w
      <4> QED BY <2>4, <2>7, <2>9, <4>1
    <3> QED BY <2>9, <3>1, <3>2, <3>3
  <2>11. s2mm.at >= inputEnd /\ s2mm.at + s2mm.n * w <= call.size
    <3>1. s2mm.at = (c + o) * w /\ s2mm.n = rb
      BY <2>3, <2>9 DEF Out, rb
    <3> QED BY <2>4, <2>8, <3>1
  <2> QED BY <2>5, <2>10, <2>11
<1> QED BY <1>1, <1>2

LEMMA FedRight == IInv => ReadsWhatWasWritten
<1> SUFFICES ASSUME IInv PROVE ReadsWhatWasWritten
  OBVIOUS
<1> DEFINE f == First(Current)
           g == Second(Current)
<1>1. mesh.got \in {<< >>, <<f>>, <<f, g>>}
  <2>1. Idle \/ Armed \/ Started => mesh.got = << >>
    BY Disjoint
  <2>2. InTransit => mesh.got \in {<< >>, <<f>>, <<f, g>>}
    BY Disjoint DEF InTransit
  <2> QED BY <2>1, <2>2, SomeState
<1>2. f = SubSeq(Current, 1, B_BEATS) /\ g = SubSeq(Current, B_BEATS + 1, in_beats)
  BY Sizes DEF First, Second
<1>3. ReadsWhatWasWritten <=>
        \A t \in 1 .. Len(mesh.got) :
          mesh.got[t] = IF t = 1 THEN SubSeq(Current, 1, B_BEATS) ELSE SubSeq(Current, B_BEATS + 1, in_beats)
  BY DEF ReadsWhatWasWritten, Current
<1> HIDE DEF f, g
<1>4. \A t \in 1 .. Len(mesh.got) : mesh.got[t] = IF t = 1 THEN f ELSE g
  <2>1. CASE mesh.got = << >>
    BY <2>1
  <2>2. CASE mesh.got = <<f>>
    <3>1. Len(mesh.got) = 1 /\ mesh.got[1] = f
      BY <2>2
    <3>2. 1 .. 1 = {1}
      OBVIOUS
    <3> QED BY <3>1, <3>2
  <2>3. CASE mesh.got = <<f, g>>
    <3>1. Len(mesh.got) = 2 /\ mesh.got[1] = f /\ mesh.got[2] = g
      BY <2>3
    <3>2. 1 .. 2 = {1, 2} /\ 2 # 1
      OBVIOUS
    <3> QED BY <3>1, <3>2
  <2> QED BY <1>1, <2>1, <2>2, <2>3
<1> QED BY <1>2, <1>3, <1>4

(* For every tile shape, buffer and job: no transfer of run_tiles leaves the    *)
(* buffer, and no result is written over the streams of its chunk (nb:300-304). *)
THEOREM BufferRespected == Spec => []RegionsApart
BY Invariant, RegionsHold, PTL

(* For every tile shape, buffer and job, whatever times out: the grid is fed the *)
(* stream of the tile in hand, transfer by transfer, and nothing the caches, an  *)
(* earlier chunk or an earlier attempt have left (nb:315-331).                   *)
THEOREM FedWhatWasWritten == Spec => []ReadsWhatWasWritten
BY Invariant, FedRight, PTL

(* For every tile shape, buffer, job and number of passes: a cell that comes to *)
(* its end has the product of its factors, and one that raises has no result    *)
(* (nb:383-408).                                                                *)
THEOREM CellComputesProduct == Spec => []ResultIsProduct
<1>1. IInv => ResultIsProduct
  BY DEF IInv, Collected, ResultIsProduct, At
<1> QED BY <1>1, Invariant, PTL
=============================================================================
