------------------------ MODULE SystolicArray_proofs ------------------------
(***************************************************************************)
(* Proofs about SystolicArray, for every number of blocks, PEs and         *)
(* products and every capacity of the crossing paths.                      *)
(***************************************************************************)
EXTENDS SystolicArray, TLAPS

USE SizeAssumption
-----------------------------------------------------------------------------
(* Arithmetic of the offsets my_r*PE and my_s*PE. *)

LEMMA Distribute ==
  ASSUME NEW x \in Nat
  PROVE  /\ x * PE \in Nat
         /\ (x + 1) * PE = x * PE + PE
BY SMT

LEMMA Scaled ==
  ASSUME NEW x \in Nat, NEW y \in Nat, x < y
  PROVE  x * PE + PE <= y * PE
<1> DEFINE d == y - x - 1
<1>1. d \in Nat /\ y = (x + 1) + d
  OBVIOUS
<1>2. y * PE = (x + 1) * PE + d * PE
  BY <1>1
<1>3. d * PE \in Nat
  BY <1>1
<1> QED
  BY <1>2, <1>3, Distribute

LEMMA Offsets ==
  ASSUME NEW b \in Block
  PROVE  /\ b[1] \in 0 .. R-1 /\ b[2] \in 0 .. S-1
         /\ b = <<b[1], b[2]>>
         /\ OffR(b) \in Nat /\ OffS(b) \in Nat
         /\ OffR(b) + PE <= N /\ OffS(b) + PE <= NC
<1>1. b[1] \in 0 .. R-1 /\ b[2] \in 0 .. S-1 /\ b = <<b[1], b[2]>>
  BY DEF Block
<1>2. b[1] * PE + PE <= R * PE
  BY <1>1, Scaled
<1>3. b[2] * PE + PE <= S * PE
  BY <1>1, Scaled
<1> QED
  BY <1>1, <1>2, <1>3, Distribute DEF OffR, OffS, N, NC

LEMMA StepsNat == N \in Nat /\ NC \in Nat /\ STEPS \in Nat
<1>1. R * PE \in Nat /\ S * PE \in Nat
  BY Distribute
<1>2. R * PE >= PE
  BY Scaled, 0 * PE = 0
<1> QED
  BY <1>1, <1>2 DEF N, NC, STEPS

(* A block off the left edge has a left neighbour, PE columns to its left.  *)
LEMMA LeftNeighbour ==
  ASSUME NEW b \in Block, b[2] # 0
  PROVE  /\ LeftOf(b) \in Block
         /\ LeftOf(b) # b
         /\ OffS(LeftOf(b)) + PE = OffS(b)
         /\ OffR(LeftOf(b)) = OffR(b)
<1>1. b[2] - 1 \in Nat /\ (b[2] - 1) + 1 = b[2]
  BY Offsets
<1>2. (b[2] - 1) * PE + PE = b[2] * PE
  BY <1>1, Distribute
<1> QED
  BY <1>1, <1>2, Offsets DEF LeftOf, Block, OffS, OffR

LEMMA UpperNeighbour ==
  ASSUME NEW b \in Block, b[1] # 0
  PROVE  /\ Above(b) \in Block
         /\ Above(b) # b
         /\ OffR(Above(b)) + PE = OffR(b)
         /\ OffS(Above(b)) = OffS(b)
<1>1. b[1] - 1 \in Nat /\ (b[1] - 1) + 1 = b[1]
  BY Offsets
<1>2. (b[1] - 1) * PE + PE = b[1] * PE
  BY <1>1, Distribute
<1> QED
  BY <1>1, <1>2, Offsets DEF Above, Block, OffS, OffR

(* Being somebody's right neighbour is having that block to one's left. *)
LEMMA Neighbours ==
  ASSUME NEW b \in Block, NEW c \in Block
  PROVE  /\ c = RightOf(b) <=> c[2] # 0 /\ LeftOf(c) = b
         /\ c = Below(b) <=> c[1] # 0 /\ Above(c) = b
         /\ c = RightOf(b) => c # b
         /\ c = Below(b) => c # b
<1>1. /\ b[1] \in 0 .. R-1 /\ b[2] \in 0 .. S-1 /\ b = <<b[1], b[2]>>
      /\ c[1] \in 0 .. R-1 /\ c[2] \in 0 .. S-1 /\ c = <<c[1], c[2]>>
  BY Offsets
<1> QED
  BY <1>1 DEF LeftOf, RightOf, Above, Below

LEMMA RowCol ==
  ASSUME NEW b \in Block, NEW n \in Index
  PROVE  /\ Row(b, n) \in Nat /\ Col(b, n) \in Nat
         /\ Row(b, n) <= N - 1 /\ Col(b, n) <= NC - 1
BY Offsets, StepsNat DEF Row, Col, Index

LEMMA AtTypes ==
  ASSUME NEW x \in Int, NEW y \in Int
  PROVE  AAt(x, y) \in Operand /\ BAt(x, y) \in Operand /\ Zero \in Operand
BY DEF AAt, BAt, Zero, Operand
-----------------------------------------------------------------------------
LEMMA InitInv == Init => IInv
<1> SUFFICES ASSUME Init PROVE IInv
  OBVIOUS
<1>1. TypeOK
  <2>1. Zero \in Operand
    BY DEF Zero, Operand
  <2> QED
    BY <2>1, StepsNat DEF Init, TypeOK
<1>2. ASSUME NEW b \in Block, NEW pe \in Pe
      PROVE  /\ Row(b, pe[1]) \in Nat /\ Col(b, pe[2]) \in Nat
             /\ t[b] = 0
  BY <1>2, RowCol DEF Init, Pe
<1>3. Wavefront
  <2> SUFFICES ASSUME NEW b \in Block, NEW pe \in Pe
               PROVE  LET I == Row(b, pe[1])
                          J == Col(b, pe[2])
                          k == t[b] - 1 - I - J
                      IN  aPipe[b][pe] = AAt(I, k) /\ bPipe[b][pe] = BAt(k, J)
    BY DEF Wavefront
  <2> QED
    BY <1>2 DEF Init, AAt, BAt
<1>4. Accumulated
  <2> SUFFICES ASSUME NEW b \in Block, NEW pe \in Pe
               PROVE  acc[b][pe] = Terms(Row(b, pe[1]), Col(b, pe[2]), t[b])
    BY DEF Accumulated
  <2>1. acc[b][pe] = {}
    BY DEF Init
  <2>2. \A k \in 0 .. K-1 : ~(k + 1 + Row(b, pe[1]) + Col(b, pe[2]) < t[b])
    BY <1>2
  <2> QED
    BY <2>1, <2>2 DEF Terms
<1>5. InFlight
  <2> SUFFICES ASSUME NEW b \in Block
               PROVE  /\ xa[b] = << >> /\ xb[b] = << >>
                      /\ b[2] # 0 => Len(xa[b]) = t[LeftOf(b)] - t[b]
                      /\ b[1] # 0 => Len(xb[b]) = t[Above(b)] - t[b]
    BY DEF InFlight
  <2> QED
    BY LeftNeighbour, UpperNeighbour DEF Init
<1> QED
  BY <1>1, <1>3, <1>4, <1>5 DEF IInv
-----------------------------------------------------------------------------
(* What enters block b at the left and at the top in its next step. *)

LEMMA LeftInput ==
  ASSUME IInv, NEW b \in Block, CanStep(b), NEW i \in Index
  PROVE  FromLeft(b, i) = AAt(Row(b, i), t[b] - OffS(b) - Row(b, i))
<1> USE Offsets, RowCol DEF IInv, TypeOK
<1>0. t[b] \in Nat
  BY StepsNat
<1>1. CASE b[2] = 0
  <2>1. OffS(b) = 0
    BY <1>1 DEF OffS
  <2>2. t[b] - OffR(b) - i = t[b] - OffS(b) - Row(b, i)
    BY <1>0, <2>1 DEF Row, Index
  <2> QED
    BY <1>1, <2>2 DEF FromLeft
<1>2. CASE b[2] # 0
  <2>1. xa[b] # << >> /\ xa[b] \in Seq([Index -> Operand])
    BY <1>2 DEF CanStep
  <2>2. 1 \in 1 .. Len(xa[b]) /\ Head(xa[b]) = xa[b][1]
    BY <2>1
  <2>3. xa[b][1][i] = AAt(Row(b, i), t[b] + 1 - 1 - Row(b, i) - OffS(b))
    BY <1>2, <2>2 DEF InFlight
  <2>4. t[b] + 1 - 1 - Row(b, i) - OffS(b) = t[b] - OffS(b) - Row(b, i)
    BY <1>0
  <2> QED
    BY <1>2, <2>2, <2>3, <2>4 DEF FromLeft
<1> QED
  BY <1>1, <1>2

LEMMA UpperInput ==
  ASSUME IInv, NEW b \in Block, CanStep(b), NEW j \in Index
  PROVE  FromAbove(b, j) = BAt(t[b] - OffR(b) - Col(b, j), Col(b, j))
<1> USE Offsets, RowCol DEF IInv, TypeOK
<1>0. t[b] \in Nat
  BY StepsNat
<1>1. CASE b[1] = 0
  <2>1. OffR(b) = 0
    BY <1>1 DEF OffR
  <2>2. t[b] - OffS(b) - j = t[b] - OffR(b) - Col(b, j)
    BY <1>0, <2>1 DEF Col, Index
  <2> QED
    BY <1>1, <2>2 DEF FromAbove
<1>2. CASE b[1] # 0
  <2>1. xb[b] # << >> /\ xb[b] \in Seq([Index -> Operand])
    BY <1>2 DEF CanStep
  <2>2. 1 \in 1 .. Len(xb[b]) /\ Head(xb[b]) = xb[b][1]
    BY <2>1
  <2>3. xb[b][1][j] = BAt(t[b] + 1 - 1 - OffR(b) - Col(b, j), Col(b, j))
    BY <1>2, <2>2 DEF InFlight
  <2>4. t[b] + 1 - 1 - OffR(b) - Col(b, j) = t[b] - OffR(b) - Col(b, j)
    BY <1>0
  <2> QED
    BY <1>2, <2>2, <2>3, <2>4 DEF FromAbove
<1> QED
  BY <1>1, <1>2

(* The pipes after the step: the wavefront has moved one place. *)
LEMMA ShiftedWavefront ==
  ASSUME IInv, NEW b \in Block, CanStep(b), NEW pe \in Pe
  PROVE  LET I == Row(b, pe[1])
             J == Col(b, pe[2])
         IN  /\ ShiftA(b)[pe] = AAt(I, t[b] - I - J)
             /\ ShiftB(b)[pe] = BAt(t[b] - I - J, J)
<1> DEFINE i == pe[1]
           j == pe[2]
           I == Row(b, i)
           J == Col(b, j)
<1>1. /\ i \in Index /\ j \in Index /\ pe = <<i, j>>
      /\ I \in Nat /\ J \in Nat /\ t[b] \in Nat
  BY RowCol, StepsNat DEF Pe, IInv, TypeOK
<1>2. ShiftA(b)[pe] = AAt(I, t[b] - I - J)
  <2>1. CASE j = 0
    <3>1. J = OffS(b) /\ OffS(b) \in Nat
      BY <2>1, Offsets DEF Col
    <3>2. t[b] - OffS(b) - I = t[b] - I - J
      BY <1>1, <3>1
    <3> QED
      BY <1>1, <2>1, <3>2, LeftInput DEF ShiftA
  <2>2. CASE j # 0
    <3>1. <<i, j - 1>> \in Pe /\ j - 1 \in Index
      BY <1>1, <2>2 DEF Pe, Index
    <3>2. ShiftA(b)[pe] = aPipe[b][<<i, j - 1>>]
      BY <2>2 DEF ShiftA
    <3>3. aPipe[b][<<i, j - 1>>] = AAt(I, t[b] - 1 - I - Col(b, j - 1))
      BY <3>1 DEF IInv, Wavefront
    <3>4. t[b] - 1 - I - Col(b, j - 1) = t[b] - I - J
      BY <1>1, <3>1, Offsets DEF Col, Index
    <3> QED
      BY <3>2, <3>3, <3>4
  <2> QED
    BY <2>1, <2>2
<1>3. ShiftB(b)[pe] = BAt(t[b] - I - J, J)
  <2>1. CASE i = 0
    <3>1. I = OffR(b) /\ OffR(b) \in Nat
      BY <2>1, Offsets DEF Row
    <3>2. t[b] - OffR(b) - J = t[b] - I - J
      BY <1>1, <3>1
    <3> QED
      BY <1>1, <2>1, <3>2, UpperInput DEF ShiftB
  <2>2. CASE i # 0
    <3>1. <<i - 1, j>> \in Pe /\ i - 1 \in Index
      BY <1>1, <2>2 DEF Pe, Index
    <3>2. ShiftB(b)[pe] = bPipe[b][<<i - 1, j>>]
      BY <2>2 DEF ShiftB
    <3>3. bPipe[b][<<i - 1, j>>] = BAt(t[b] - 1 - Row(b, i - 1) - J, J)
      BY <3>1 DEF IInv, Wavefront
    <3>4. t[b] - 1 - Row(b, i - 1) - J = t[b] - I - J
      BY <1>1, <3>1, Offsets DEF Row, Index
    <3> QED
      BY <3>2, <3>3, <3>4
  <2> QED
    BY <2>1, <2>2
<1> QED
  BY <1>2, <1>3

(* A MAC adds the one term that is due at this step, if there is one. *)
LEMMA MacTerm ==
  ASSUME IInv, NEW b \in Block, NEW pe \in Pe
  PROVE  Mac(b, pe) = Terms(Row(b, pe[1]), Col(b, pe[2]), t[b] + 1)
<1> DEFINE I == Row(b, pe[1])
           J == Col(b, pe[2])
           k == t[b] - 1 - I - J
<1>1. I \in Nat /\ J \in Nat /\ t[b] \in Nat /\ k \in Int
  BY RowCol, StepsNat DEF Pe, IInv, TypeOK
<1>2. /\ aPipe[b][pe] = AAt(I, k) /\ bPipe[b][pe] = BAt(k, J)
      /\ acc[b][pe] = Terms(I, J, t[b])
  BY DEF IInv, Wavefront, Accumulated
<1>3. \A m \in 0 .. K-1 : m + 1 + I + J < t[b] + 1 <=> m + 1 + I + J < t[b] \/ m = k
  BY <1>1
<1>4. CASE k \in 0 .. K-1
  <2>1. AAt(I, k) = <<I, k>> /\ BAt(k, J) = <<k, J>> /\ t[b] = k + 1 + I + J
    BY <1>1, <1>4 DEF AAt, BAt
  <2>2. <<I, k>> # Zero /\ <<k, J>> # Zero
    BY <1>1 DEF Zero
  <2>3. Mac(b, pe) = Terms(I, J, t[b]) \cup {<<k + 1 + I + J, <<I, k>>, <<k, J>>>>}
    BY <1>2, <2>1, <2>2 DEF Mac
  <2> QED
    BY <1>3, <1>4, <2>3 DEF Terms
<1>5. CASE k \notin 0 .. K-1
  <2>1. Mac(b, pe) = Terms(I, J, t[b])
    BY <1>2, <1>5 DEF Mac, AAt
  <2> QED
    BY <1>3, <1>5, <2>1 DEF Terms
<1> QED
  BY <1>4, <1>5
-----------------------------------------------------------------------------
(* The crossing words after the step. *)

LEMMA CrossingA ==
  ASSUME IInv, NEW b \in Block, Step(b), NEW c \in Block, c[2] # 0
  PROVE  /\ Len(xa'[c]) = t'[LeftOf(c)] - t'[c]
         /\ \A m \in 1 .. Len(xa'[c]) : \A n \in Index :
              xa'[c][m][n] = AAt(Row(c, n), t'[c] + m - 1 - Row(c, n) - OffS(c))
<1> DEFINE W(steps, m, n) == AAt(Row(c, n), steps + m - 1 - Row(c, n) - OffS(c))
<1>1. /\ LeftOf(c) \in Block /\ LeftOf(c) # c
      /\ OffS(LeftOf(c)) + PE = OffS(c) /\ OffR(LeftOf(c)) = OffR(c)
  BY LeftNeighbour
<1>2. /\ t[b] \in Nat /\ t[c] \in Nat /\ t[LeftOf(c)] \in Nat
      /\ t'[c] = (IF c = b THEN t[b] + 1 ELSE t[c])
      /\ t'[LeftOf(c)] = (IF LeftOf(c) = b THEN t[b] + 1 ELSE t[LeftOf(c)])
  BY <1>1, StepsNat DEF IInv, TypeOK, Step
<1>3. /\ xa[c] \in Seq([Index -> Operand])
      /\ Len(xa[c]) = t[LeftOf(c)] - t[c]
      /\ \A m \in 1 .. Len(xa[c]) : \A n \in Index : xa[c][m][n] = W(t[c], m, n)
  BY DEF IInv, TypeOK, InFlight
<1>4. xa'[c] = MoveA(b, c)
  BY DEF Step
<1>5. \A n \in Index : Row(c, n) \in Nat /\ OffS(c) \in Nat
  BY RowCol, Offsets
<1>6. CASE c = b
  <2>1. xa'[c] = Tail(xa[c]) /\ xa[c] # << >>
    BY <1>4, <1>6 DEF MoveA, Step, CanStep
  <2>2. Len(xa'[c]) = Len(xa[c]) - 1
    BY <1>3, <2>1
  <2>3. \A m \in 1 .. Len(xa'[c]) : xa'[c][m] = xa[c][m + 1] /\ m + 1 \in 1 .. Len(xa[c])
    BY <1>3, <2>1, <2>2
  <2>4. \A m \in 1 .. Len(xa'[c]) : \A n \in Index : xa'[c][m][n] = W(t[c], m + 1, n)
    BY <1>3, <2>3
  <2>5. \A m \in 1 .. Len(xa'[c]) : \A n \in Index :
          t[c] + (m + 1) - 1 - Row(c, n) - OffS(c) = t'[c] + m - 1 - Row(c, n) - OffS(c)
    BY <1>2, <1>3, <1>5, <1>6, <2>2
  <2>6. LeftOf(c) # b
    BY <1>1, <1>6
  <2> HIDE DEF W
  <2>7. Len(xa'[c]) = t'[LeftOf(c)] - t'[c]
    BY <1>2, <1>3, <1>6, <2>2, <2>6
  <2> QED
    BY <2>4, <2>5, <2>7 DEF W
<1>7. CASE c = RightOf(b)
  <2>1. LeftOf(c) = b /\ c # b
    BY <1>7, Neighbours
  <2>2. xa'[c] = Append(xa[c], RightEdge(b)) /\ t'[c] = t[c] /\ t'[LeftOf(c)] = t[b] + 1
    BY <1>2, <1>4, <1>7, <2>1 DEF MoveA
  <2>3. /\ Len(xa'[c]) = Len(xa[c]) + 1
        /\ \A m \in 1 .. Len(xa[c]) : xa'[c][m] = xa[c][m]
        /\ xa'[c][Len(xa[c]) + 1] = RightEdge(b)
        /\ Len(xa[c]) = t[b] - t[c]
    BY <1>3, <2>1, <2>2
  <2>4. ASSUME NEW n \in Index
        PROVE  RightEdge(b)[n] = W(t[c], Len(xa[c]) + 1, n)
    <3>1. <<n, PE - 1>> \in Pe /\ PE - 1 \in Index
      BY DEF Pe, Index
    <3>2. RightEdge(b)[n] = AAt(Row(b, n), t[b] - 1 - Row(b, n) - Col(b, PE - 1))
      BY <3>1 DEF RightEdge, IInv, Wavefront
    <3>3. Row(b, n) = Row(c, n) /\ Col(b, PE - 1) = OffS(c) - 1
      BY <1>1, <2>1, Offsets DEF Row, Col
    <3>4. t[b] - 1 - Row(c, n) - (OffS(c) - 1)
            = t[c] + (t[b] - t[c] + 1) - 1 - Row(c, n) - OffS(c)
      BY <1>2, <1>5
    <3> QED
      BY <2>3, <3>2, <3>3, <3>4
  <2>5. \A m \in 1 .. Len(xa'[c]) : m \in 1 .. Len(xa[c]) \/ m = Len(xa[c]) + 1
    BY <1>3, <2>3
  <2> HIDE DEF W
  <2>6. \A m \in 1 .. Len(xa'[c]) : \A n \in Index : xa'[c][m][n] = W(t'[c], m, n)
    BY <1>3, <2>2, <2>3, <2>4, <2>5
  <2>7. Len(xa'[c]) = t'[LeftOf(c)] - t'[c]
    BY <1>2, <2>1, <2>2, <2>3
  <2> QED
    BY <2>6, <2>7 DEF W
<1>8. CASE c # b /\ c # RightOf(b)
  <2>1. xa'[c] = xa[c] /\ LeftOf(c) # b
    BY <1>4, <1>8, Neighbours DEF MoveA
  <2> QED
    BY <1>2, <1>3, <1>8, <2>1
<1> QED
  BY <1>6, <1>7, <1>8

LEMMA CrossingB ==
  ASSUME IInv, NEW b \in Block, Step(b), NEW c \in Block, c[1] # 0
  PROVE  /\ Len(xb'[c]) = t'[Above(c)] - t'[c]
         /\ \A m \in 1 .. Len(xb'[c]) : \A n \in Index :
              xb'[c][m][n] = BAt(t'[c] + m - 1 - OffR(c) - Col(c, n), Col(c, n))
<1> DEFINE W(steps, m, n) == BAt(steps + m - 1 - OffR(c) - Col(c, n), Col(c, n))
<1>1. /\ Above(c) \in Block /\ Above(c) # c
      /\ OffR(Above(c)) + PE = OffR(c) /\ OffS(Above(c)) = OffS(c)
  BY UpperNeighbour
<1>2. /\ t[b] \in Nat /\ t[c] \in Nat /\ t[Above(c)] \in Nat
      /\ t'[c] = (IF c = b THEN t[b] + 1 ELSE t[c])
      /\ t'[Above(c)] = (IF Above(c) = b THEN t[b] + 1 ELSE t[Above(c)])
  BY <1>1, StepsNat DEF IInv, TypeOK, Step
<1>3. /\ xb[c] \in Seq([Index -> Operand])
      /\ Len(xb[c]) = t[Above(c)] - t[c]
      /\ \A m \in 1 .. Len(xb[c]) : \A n \in Index : xb[c][m][n] = W(t[c], m, n)
  BY DEF IInv, TypeOK, InFlight
<1>4. xb'[c] = MoveB(b, c)
  BY DEF Step
<1>5. \A n \in Index : Col(c, n) \in Nat /\ OffR(c) \in Nat
  BY RowCol, Offsets
<1>6. CASE c = b
  <2>1. xb'[c] = Tail(xb[c]) /\ xb[c] # << >>
    BY <1>4, <1>6 DEF MoveB, Step, CanStep
  <2>2. Len(xb'[c]) = Len(xb[c]) - 1
    BY <1>3, <2>1
  <2>3. \A m \in 1 .. Len(xb'[c]) : xb'[c][m] = xb[c][m + 1] /\ m + 1 \in 1 .. Len(xb[c])
    BY <1>3, <2>1, <2>2
  <2>4. \A m \in 1 .. Len(xb'[c]) : \A n \in Index : xb'[c][m][n] = W(t[c], m + 1, n)
    BY <1>3, <2>3
  <2>5. \A m \in 1 .. Len(xb'[c]) : \A n \in Index :
          t[c] + (m + 1) - 1 - OffR(c) - Col(c, n) = t'[c] + m - 1 - OffR(c) - Col(c, n)
    BY <1>2, <1>3, <1>5, <1>6, <2>2
  <2>6. Above(c) # b
    BY <1>1, <1>6
  <2> HIDE DEF W
  <2>7. Len(xb'[c]) = t'[Above(c)] - t'[c]
    BY <1>2, <1>3, <1>6, <2>2, <2>6
  <2> QED
    BY <2>4, <2>5, <2>7 DEF W
<1>7. CASE c = Below(b)
  <2>1. Above(c) = b /\ c # b
    BY <1>7, Neighbours
  <2>2. xb'[c] = Append(xb[c], BottomEdge(b)) /\ t'[c] = t[c] /\ t'[Above(c)] = t[b] + 1
    BY <1>2, <1>4, <1>7, <2>1 DEF MoveB
  <2>3. /\ Len(xb'[c]) = Len(xb[c]) + 1
        /\ \A m \in 1 .. Len(xb[c]) : xb'[c][m] = xb[c][m]
        /\ xb'[c][Len(xb[c]) + 1] = BottomEdge(b)
        /\ Len(xb[c]) = t[b] - t[c]
    BY <1>3, <2>1, <2>2
  <2>4. ASSUME NEW n \in Index
        PROVE  BottomEdge(b)[n] = W(t[c], Len(xb[c]) + 1, n)
    <3>1. <<PE - 1, n>> \in Pe /\ PE - 1 \in Index
      BY DEF Pe, Index
    <3>2. BottomEdge(b)[n] = BAt(t[b] - 1 - Row(b, PE - 1) - Col(b, n), Col(b, n))
      BY <3>1 DEF BottomEdge, IInv, Wavefront
    <3>3. Col(b, n) = Col(c, n) /\ Row(b, PE - 1) = OffR(c) - 1
      BY <1>1, <2>1, Offsets DEF Row, Col
    <3>4. t[b] - 1 - (OffR(c) - 1) - Col(c, n)
            = t[c] + (t[b] - t[c] + 1) - 1 - OffR(c) - Col(c, n)
      BY <1>2, <1>5
    <3> QED
      BY <2>3, <3>2, <3>3, <3>4
  <2>5. \A m \in 1 .. Len(xb'[c]) : m \in 1 .. Len(xb[c]) \/ m = Len(xb[c]) + 1
    BY <1>3, <2>3
  <2> HIDE DEF W
  <2>6. \A m \in 1 .. Len(xb'[c]) : \A n \in Index : xb'[c][m][n] = W(t'[c], m, n)
    BY <1>3, <2>2, <2>3, <2>4, <2>5
  <2>7. Len(xb'[c]) = t'[Above(c)] - t'[c]
    BY <1>2, <2>1, <2>2, <2>3
  <2> QED
    BY <2>6, <2>7 DEF W
<1>8. CASE c # b /\ c # Below(b)
  <2>1. xb'[c] = xb[c] /\ Above(c) # b
    BY <1>4, <1>8, Neighbours DEF MoveB
  <2> QED
    BY <1>2, <1>3, <1>8, <2>1
<1> QED
  BY <1>6, <1>7, <1>8
-----------------------------------------------------------------------------
(* A step keeps the types. *)

LEMMA EdgeTypes ==
  ASSUME TypeOK, NEW b \in Block
  PROVE  /\ RightEdge(b) \in [Index -> Operand]
         /\ BottomEdge(b) \in [Index -> Operand]
<1>1. PE - 1 \in Index
  BY DEF Index
<1>2. \A n \in Index : <<n, PE - 1>> \in Pe /\ <<PE - 1, n>> \in Pe
  BY <1>1 DEF Pe
<1> QED
  BY <1>2 DEF TypeOK, RightEdge, BottomEdge

LEMMA ShiftTypes ==
  ASSUME IInv, NEW b \in Block, CanStep(b)
  PROVE  ShiftA(b) \in [Pe -> Operand] /\ ShiftB(b) \in [Pe -> Operand]
<1> SUFFICES ASSUME NEW pe \in Pe
             PROVE  ShiftA(b)[pe] \in Operand /\ ShiftB(b)[pe] \in Operand
  BY DEF ShiftA, ShiftB
<1>1. /\ Row(b, pe[1]) \in Nat /\ Col(b, pe[2]) \in Nat
      /\ t[b] \in Nat
  BY RowCol, StepsNat DEF Pe, IInv, TypeOK
<1>2. /\ AAt(Row(b, pe[1]), t[b] - Row(b, pe[1]) - Col(b, pe[2])) \in Operand
      /\ BAt(t[b] - Row(b, pe[1]) - Col(b, pe[2]), Col(b, pe[2])) \in Operand
  BY <1>1, AtTypes
<1> QED
  BY <1>2, ShiftedWavefront

LEMMA StepTypeOK ==
  ASSUME IInv, NEW b \in Block, Step(b)
  PROVE  TypeOK'
<1>1. TypeOK /\ CanStep(b)
  BY DEF IInv, Step
<1>2. t' \in [Block -> 0 .. STEPS]
  BY <1>1, StepsNat DEF TypeOK, Step, CanStep
<1>3. aPipe' \in [Block -> [Pe -> Operand]] /\ bPipe' \in [Block -> [Pe -> Operand]]
  BY <1>1, ShiftTypes DEF TypeOK, Step
<1>4. xa' \in [Block -> Seq([Index -> Operand])]
  <2> SUFFICES ASSUME NEW c \in Block
               PROVE  MoveA(b, c) \in Seq([Index -> Operand])
    BY DEF Step
  <2>1. xa[c] \in Seq([Index -> Operand])
    BY <1>1 DEF TypeOK
  <2>2. c = b /\ b[2] # 0 => xa[c] # << >>
    BY <1>1 DEF CanStep
  <2> QED
    BY <1>1, <2>1, <2>2, EdgeTypes DEF MoveA
<1>5. xb' \in [Block -> Seq([Index -> Operand])]
  <2> SUFFICES ASSUME NEW c \in Block
               PROVE  MoveB(b, c) \in Seq([Index -> Operand])
    BY DEF Step
  <2>1. xb[c] \in Seq([Index -> Operand])
    BY <1>1 DEF TypeOK
  <2>2. c = b /\ b[1] # 0 => xb[c] # << >>
    BY <1>1 DEF CanStep
  <2> QED
    BY <1>1, <2>1, <2>2, EdgeTypes DEF MoveB
<1>6. acc' \in [Block -> [Pe -> SUBSET Added]]
  <2>1. \A pe \in Pe : Mac(b, pe) \in SUBSET Added
    BY <1>1, StepsNat DEF TypeOK, Mac, Added
  <2> QED
    BY <1>1, <2>1 DEF TypeOK, Step
<1> QED
  BY <1>2, <1>3, <1>4, <1>5, <1>6 DEF TypeOK
-----------------------------------------------------------------------------
(* A step keeps the inductive invariant. *)

LEMMA StepInv ==
  ASSUME IInv, NEW b \in Block, Step(b)
  PROVE  IInv'
<1>1. TypeOK /\ CanStep(b)
  BY DEF IInv, Step
<1>2. ASSUME NEW c \in Block
      PROVE  /\ t[c] \in Nat
             /\ t'[c] = (IF c = b THEN t[c] + 1 ELSE t[c])
             /\ aPipe'[c] = (IF c = b THEN ShiftA(b) ELSE aPipe[c])
             /\ bPipe'[c] = (IF c = b THEN ShiftB(b) ELSE bPipe[c])
  BY <1>1, StepsNat DEF TypeOK, Step
<1>3. Wavefront'
  <2> SUFFICES ASSUME NEW c \in Block, NEW pe \in Pe
               PROVE  /\ aPipe'[c][pe] = AAt(Row(c, pe[1]),
                                             t'[c] - 1 - Row(c, pe[1]) - Col(c, pe[2]))
                      /\ bPipe'[c][pe] = BAt(t'[c] - 1 - Row(c, pe[1]) - Col(c, pe[2]),
                                             Col(c, pe[2]))
    BY DEF Wavefront
  <2>1. CASE c = b
    <3>1. Row(c, pe[1]) \in Nat /\ Col(c, pe[2]) \in Nat
      BY RowCol DEF Pe
    <3>2. t'[c] - 1 - Row(c, pe[1]) - Col(c, pe[2]) = t[b] - Row(c, pe[1]) - Col(c, pe[2])
      BY <1>2, <2>1, <3>1
    <3> QED
      BY <1>1, <1>2, <2>1, <3>2, ShiftedWavefront
  <2>2. CASE c # b
    BY <1>2, <2>2 DEF IInv, Wavefront
  <2> QED
    BY <2>1, <2>2
<1>4. Accumulated'
  <2> SUFFICES ASSUME NEW c \in Block, NEW pe \in Pe
               PROVE  acc'[c][pe] = Terms(Row(c, pe[1]), Col(c, pe[2]), t'[c])
    BY DEF Accumulated
  <2>1. CASE c = b
    <3>1. acc'[c][pe] = Mac(b, pe)
      <4>1. b \in DOMAIN acc
        BY DEF IInv, TypeOK
      <4> QED
        BY <2>1, <4>1 DEF Step
    <3> QED
      BY <1>2, <2>1, <3>1, MacTerm
  <2>2. CASE c # b
    <3>1. acc'[c] = acc[c]
      BY <2>2 DEF Step, IInv, TypeOK
    <3> QED
      BY <1>2, <2>2, <3>1 DEF IInv, Accumulated
  <2> QED
    BY <2>1, <2>2
<1>5. InFlight'
  <2> SUFFICES ASSUME NEW c \in Block
               PROVE  /\ c[2] = 0 => xa'[c] = << >>
                      /\ c[1] = 0 => xb'[c] = << >>
    BY CrossingA, CrossingB DEF InFlight
  <2>1. /\ c[2] = 0 => xa[c] = << >>
        /\ c[1] = 0 => xb[c] = << >>
    BY DEF IInv, InFlight
  <2>2. xa'[c] = MoveA(b, c) /\ xb'[c] = MoveB(b, c)
    BY DEF Step
  <2> QED
    BY <2>1, <2>2, Neighbours DEF MoveA, MoveB
<1> QED
  BY <1>3, <1>4, <1>5, StepTypeOK DEF IInv

LEMMA FinishedInv == IInv /\ UNCHANGED vars => IInv'
BY DEF vars, IInv, TypeOK, Wavefront, Accumulated, InFlight

(* Whatever the order in which the blocks step, every pipe holds the        *)
(* operand the skew calls for, and every accumulator the products due.      *)
THEOREM Invariance == Spec => []IInv
<1>1. Init => IInv
  BY InitInv
<1>2. IInv /\ [Next]_vars => IInv'
  BY StepInv, FinishedInv DEF Next, Finished
<1> QED
  BY <1>1, <1>2, PTL DEF Spec

(* At the end of compute every accumulator holds its cell's K products,     *)
(* each once (sa_grid.cpp:240): STEPS is enough, and nothing is counted     *)
(* twice.                                                                   *)
THEOREM DotProducts == Spec => []ExactDotProduct
<1>1. IInv => ExactDotProduct
  <2> SUFFICES ASSUME IInv, NEW b \in Block, NEW pe \in Pe, t[b] = STEPS
               PROVE  acc[b][pe] = {<<k + 1 + Row(b, pe[1]) + Col(b, pe[2]),
                                      <<Row(b, pe[1]), k>>, <<k, Col(b, pe[2])>>>> : k \in 0 .. K-1}
    BY DEF ExactDotProduct
  <2>1. /\ Row(b, pe[1]) \in Nat /\ Row(b, pe[1]) <= N - 1
        /\ Col(b, pe[2]) \in Nat /\ Col(b, pe[2]) <= NC - 1
    BY RowCol DEF Pe
  <2>2. \A k \in 0 .. K-1 : k + 1 + Row(b, pe[1]) + Col(b, pe[2]) < STEPS
    BY <2>1, StepsNat DEF STEPS
  <2>3. acc[b][pe] = Terms(Row(b, pe[1]), Col(b, pe[2]), STEPS)
    BY DEF IInv, Accumulated
  <2> QED
    BY <2>2, <2>3 DEF Terms
<1> QED
  BY <1>1, Invariance, PTL

(* No beat of a crossing is left over when every block is done, so the      *)
(* next block of work starts with empty FIFOs (sa_grid.cpp:286).            *)
THEOREM CrossingConsumed == Spec => []NothingInFlight
<1>1. IInv => NothingInFlight
  <2> SUFFICES ASSUME IInv, AllDone, NEW b \in Block
               PROVE  xa[b] = << >> /\ xb[b] = << >>
    BY DEF NothingInFlight
  <2>1. xa[b] \in Seq([Index -> Operand]) /\ xb[b] \in Seq([Index -> Operand])
    BY DEF IInv, TypeOK
  <2>2. t[b] = STEPS /\ STEPS \in Nat
    BY StepsNat DEF AllDone
  <2>3. b[2] # 0 => Len(xa[b]) = 0
    BY <2>2, LeftNeighbour DEF IInv, InFlight, AllDone
  <2>4. b[1] # 0 => Len(xb[b]) = 0
    BY <2>2, UpperNeighbour DEF IInv, InFlight, AllDone
  <2>5. (b[2] = 0 => xa[b] = << >>) /\ (b[1] = 0 => xb[b] = << >>)
    BY DEF IInv, InFlight
  <2>6. xa[b] = << >> \/ Len(xa[b]) # 0
    BY <2>1
  <2>7. xb[b] = << >> \/ Len(xb[b]) # 0
    BY <2>1
  <2> QED
    BY <2>3, <2>4, <2>5, <2>6, <2>7
<1> QED
  BY <1>1, Invariance, PTL
-----------------------------------------------------------------------------
(* The refinement of the matrix product. *)

LEMMA Quotient ==
  ASSUME NEW n \in Nat, NEW x \in 0 .. n * PE - 1
  PROVE  /\ x \div PE \in 0 .. n-1 /\ x % PE \in Index
         /\ (x \div PE) * PE + (x % PE) = x
<1>1. /\ x \in Nat /\ x \div PE \in Int /\ x % PE \in 0 .. PE-1
      /\ x = PE * (x \div PE) + (x % PE)
  <2>1. n * PE \in Nat
    BY Distribute
  <2>2. x \in Nat /\ PE \in Nat /\ PE > 0
    BY <2>1
  <2> QED
    BY <2>2
<1>2. x \div PE >= 0
  BY <1>1
<1>3. x \div PE < n
  <2> SUFFICES ASSUME ~(x \div PE < n) PROVE FALSE
    OBVIOUS
  <2>1. (x \div PE) * PE >= n * PE
    BY <1>1, <1>2
  <2> QED
    BY <1>1, <2>1
<1> QED
  BY <1>1, <1>2, <1>3 DEF Index

LEMMA CellPe ==
  ASSUME NEW cell \in Cells
  PROVE  /\ BlockOf(cell) \in Block /\ PeOf(cell) \in Pe
         /\ Row(BlockOf(cell), PeOf(cell)[1]) = cell[1]
         /\ Col(BlockOf(cell), PeOf(cell)[2]) = cell[2]
         /\ cell[1] \in Nat /\ cell[2] \in Nat
<1>1. /\ cell[1] \in 0 .. R * PE - 1 /\ cell[2] \in 0 .. S * PE - 1
      /\ R \in Nat /\ S \in Nat
  BY DEF Cells, N, NC
<1>2. /\ cell[1] \div PE \in 0 .. R-1 /\ cell[1] % PE \in Index
      /\ (cell[1] \div PE) * PE + (cell[1] % PE) = cell[1]
  BY <1>1, Quotient
<1>3. /\ cell[2] \div PE \in 0 .. S-1 /\ cell[2] % PE \in Index
      /\ (cell[2] \div PE) * PE + (cell[2] % PE) = cell[2]
  BY <1>1, Quotient
<1>4. cell[1] \in Nat /\ cell[2] \in Nat
  BY <1>1, StepsNat DEF N, NC
<1>5. /\ BlockOf(cell)[1] = cell[1] \div PE /\ BlockOf(cell)[2] = cell[2] \div PE
      /\ PeOf(cell)[1] = cell[1] % PE /\ PeOf(cell)[2] = cell[2] % PE
  BY DEF BlockOf, PeOf
<1>6. BlockOf(cell) \in Block /\ PeOf(cell) \in Pe
  BY <1>2, <1>3 DEF BlockOf, PeOf, Block, Pe
<1>7. /\ Row(BlockOf(cell), PeOf(cell)[1]) = cell[1]
      /\ Col(BlockOf(cell), PeOf(cell)[2]) = cell[2]
  BY <1>2, <1>3, <1>5 DEF Row, Col, OffR, OffS
<1> QED
  BY <1>4, <1>6, <1>7

(* The k that a cell has added when its block has done steps steps. *)
Due(cell, steps) == {k \in 0 .. K-1 : k + 1 + cell[1] + cell[2] < steps}

LEMMA TermKs ==
  ASSUME NEW I, NEW J, NEW steps
  PROVE  {x[2][2] : x \in Terms(I, J, steps)} = {k \in 0 .. K-1 : k + 1 + I + J < steps}
<1> DEFINE Ks == {k \in 0 .. K-1 : k + 1 + I + J < steps}
           term(k) == <<k + 1 + I + J, <<I, k>>, <<k, J>>>>
<1>1. Terms(I, J, steps) = {term(k) : k \in Ks}
  BY DEF Terms
<1>2. \A k \in Ks : term(k)[2][2] = k
  OBVIOUS
<1> HIDE DEF term, Ks
<1>3. {x[2][2] : x \in {term(k) : k \in Ks}} = Ks
  BY <1>2
<1> QED
  BY <1>1, <1>3 DEF Ks

LEMMA SumDue ==
  ASSUME IInv, NEW cell \in Cells
  PROVE  {x[2][2] : x \in acc[BlockOf(cell)][PeOf(cell)]} = Due(cell, t[BlockOf(cell)])
<1>1. acc[BlockOf(cell)][PeOf(cell)] = Terms(cell[1], cell[2], t[BlockOf(cell)])
  BY CellPe DEF IInv, Accumulated
<1> QED
  BY <1>1, TermKs DEF Due

LEMMA DueGrows ==
  ASSUME NEW cell \in Cells, NEW steps \in Nat
  PROVE  \/ Due(cell, steps + 1) = Due(cell, steps)
         \/ \E k \in 0 .. K-1 : /\ Due(cell, steps) = 0 .. k-1
                                /\ Due(cell, steps + 1) = 0 .. k
<1> DEFINE k == steps - 1 - cell[1] - cell[2]
<1>1. cell[1] \in Nat /\ cell[2] \in Nat
  BY CellPe
<1>2. CASE k \in 0 .. K-1
  <2>1. Due(cell, steps) = 0 .. k-1 /\ Due(cell, steps + 1) = 0 .. k
    BY <1>1, <1>2 DEF Due
  <2> QED
    BY <1>2, <2>1
<1>3. CASE k \notin 0 .. K-1
  BY <1>1, <1>3 DEF Due
<1> QED
  BY <1>2, <1>3

(* The blocks, in whatever order they step, implement the one matrix        *)
(* product of MatMul.                                                       *)
THEOREM Refinement == Spec => ImplementsProduct
<1> DEFINE sumBar == [cell \in Cells |-> {x[2][2] : x \in acc[BlockOf(cell)][PeOf(cell)]}]
<1>1. Init => Product!Init
  <2> SUFFICES ASSUME Init, NEW cell \in Cells
               PROVE  {x[2][2] : x \in acc[BlockOf(cell)][PeOf(cell)]} = {}
    BY DEF Product!Init, Cells
  <2>1. acc[BlockOf(cell)][PeOf(cell)] = {}
    BY CellPe DEF Init
  <2> QED
    BY <2>1
<1>2. IInv /\ IInv' /\ Next => Product!Next \/ UNCHANGED sumBar
  <2> SUFFICES ASSUME IInv, IInv', NEW b \in Block, Step(b)
               PROVE  Product!Next
    BY DEF Next, Finished, vars
  <2>1. ASSUME NEW cell \in Cells
        PROVE  /\ sumBar[cell] = Due(cell, t[BlockOf(cell)])
               /\ sumBar'[cell] = Due(cell, t'[BlockOf(cell)])
    <3>1. sumBar[cell] = Due(cell, t[BlockOf(cell)])
      BY SumDue
    <3>2. {x[2][2] : x \in acc'[BlockOf(cell)][PeOf(cell)]} = Due(cell, t'[BlockOf(cell)])
      <4>1. acc'[BlockOf(cell)][PeOf(cell)] = Terms(cell[1], cell[2], t'[BlockOf(cell)])
        BY CellPe DEF IInv, Accumulated
      <4> QED
        BY <4>1, TermKs DEF Due
    <3> QED
      BY <3>1, <3>2
  <2>2. ASSUME NEW cell \in Cells
        PROVE  /\ t[BlockOf(cell)] \in Nat
               /\ t'[BlockOf(cell)] \in {t[BlockOf(cell)], t[BlockOf(cell)] + 1}
    BY CellPe, StepsNat DEF IInv, TypeOK, Step
  <2>3. ASSUME NEW cell \in Cells
        PROVE  \/ sumBar'[cell] = sumBar[cell]
               \/ \E k \in 0 .. K-1 : sumBar[cell] = 0 .. k-1 /\ sumBar'[cell] = 0 .. k
    <3> HIDE DEF sumBar
    <3>1. CASE t'[BlockOf(cell)] = t[BlockOf(cell)]
      BY <2>1, <3>1
    <3>2. CASE t'[BlockOf(cell)] = t[BlockOf(cell)] + 1
      BY <2>1, <2>2, <3>2, DueGrows
    <3> QED
      BY <2>2, <3>1, <3>2
  <2>4. sumBar' \in [Cells -> SUBSET (0 .. K-1)]
    BY <2>1 DEF Due
  <2> QED
    BY <2>3, <2>4 DEF Product!Next, Cells
<1>3. UNCHANGED vars => UNCHANGED sumBar
  BY DEF vars
<1> QED
  BY <1>1, <1>2, <1>3, Invariance, PTL DEF Spec, ImplementsProduct, Product!Spec
=============================================================================
