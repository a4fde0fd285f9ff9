---------------------------- MODULE SystolicArray ----------------------------
(***************************************************************************)
(* The arithmetic of compute (sa_grid.cpp:181): R x S blocks of PE x PE    *)
(* processing elements that step asynchronously, each as soon as its       *)
(* neighbours' edges are there, and together form one systolic array.      *)
(*                                                                         *)
(* Operands are symbolic: <<I, k>> stands for A[I][k], <<k, J>> for        *)
(* B[k][J], Zero for the zeros that pad the skew.  An accumulator is the   *)
(* set of products added to it, each with the step that added it, so that  *)
(* a product added twice is two members.  Products with Zero add nothing.  *)
(***************************************************************************)
EXTENDS Integers, Sequences

CONSTANTS
  PE,     \* PEs per block, per dimension
  R, S,   \* blocks down, blocks right
  K,      \* accumulation depth
  PATH    \* crossing words between two neighbours: xa_out, link and xa_in

ASSUME SizeAssumption ==
  /\ PE \in Nat \ {0} /\ R \in Nat \ {0} /\ S \in Nat \ {0}
  /\ K \in Nat \ {0} /\ PATH \in Nat \ {0}

VARIABLES
  t,       \* steps each block has done
  aPipe,   \* a_pipe of each block
  bPipe,   \* b_pipe of each block
  acc,     \* c_acc of each block
  xa,      \* crossing words on their way into each block from its left
  xb       \* crossing words on their way into each block from above

vars == <<t, aPipe, bPipe, acc, xa, xb>>
-----------------------------------------------------------------------------
N  == R * PE
NC == S * PE

STEPSShort == K + N + NC - 2          \* one step too few
STEPS == K + N + NC - 1

Block == (0 .. R-1) \X (0 .. S-1)
Index == 0 .. PE-1
Pe    == Index \X Index

OffR(b) == b[1] * PE
OffS(b) == b[2] * PE

(* The row and column of the logical array that a PE of block b stands at. *)
Row(b, i) == OffR(b) + i
Col(b, j) == OffS(b) + j

LeftOf(b)  == <<b[1], b[2] - 1>>
Above(b)   == <<b[1] - 1, b[2]>>
RightOf(b) == <<b[1], b[2] + 1>>
Below(b)   == <<b[1] + 1, b[2]>>

Zero == <<-1, -1>>

(* A[I][k] and B[k][J], zero outside the K columns or rows. *)
AAt(I, k) == IF k \in 0 .. K-1 THEN <<I, k>> ELSE Zero
BAt(k, J) == IF k \in 0 .. K-1 THEN <<k, J>> ELSE Zero

Operand == Int \X Int
Added   == Nat \X Operand \X Operand   \* a product, with the step it was added in
-----------------------------------------------------------------------------
(* INIT: the pipes are empty, the accumulators clear. *)
Init ==
  /\ t = [b \in Block |-> 0]
  /\ aPipe = [b \in Block |-> [pe \in Pe |-> Zero]]
  /\ bPipe = [b \in Block |-> [pe \in Pe |-> Zero]]
  /\ acc = [b \in Block |-> [pe \in Pe |-> {}]]
  /\ xa = [b \in Block |-> << >>]
  /\ xb = [b \in Block |-> << >>]

(* 1. MAC on every PE, from the pipes as they are before the shift. *)
Mac(b, pe) ==
  IF aPipe[b][pe] = Zero \/ bPipe[b][pe] = Zero THEN acc[b][pe]
  ELSE acc[b][pe] \cup {<<t[b], aPipe[b][pe], bPipe[b][pe]>>}

(* 2. The right and bottom edges, before the shift. *)
RightEdge(b)  == [n \in Index |-> aPipe[b][<<n, PE - 1>>]]
BottomEdge(b) == [n \in Index |-> bPipe[b][<<PE - 1, n>>]]

(* 4. and 5.  What enters at the left and at the top: from the block's own  *)
(* buffer at the edge of the array, skewed by its place in it, otherwise    *)
(* from the neighbour.                                                      *)
UnskewedLeft(b, i) ==                 \* the block's offset left out
  IF b[2] = 0 THEN AAt(Row(b, i), t[b] - i) ELSE Head(xa[b])[i]

FromLeft(b, i) ==
  IF b[2] = 0 THEN AAt(Row(b, i), t[b] - OffR(b) - i) ELSE Head(xa[b])[i]

FromAbove(b, j) ==
  IF b[1] = 0 THEN BAt(t[b] - OffS(b) - j, Col(b, j)) ELSE Head(xb[b])[j]

(* 3. The shift, with 4. and 5. filling the first column and row. *)
ShiftA(b) ==
  [pe \in Pe |-> IF pe[2] = 0 THEN FromLeft(b, pe[1])
                              ELSE aPipe[b][<<pe[1], pe[2] - 1>>]]

ShiftB(b) ==
  [pe \in Pe |-> IF pe[1] = 0 THEN FromAbove(b, pe[2])
                              ELSE bPipe[b][<<pe[1] - 1, pe[2]>>]]

(* The crossing words after a step of b: its own are used up, its edges are *)
(* on their way to its neighbours.                                          *)
MoveAKeepsLast(b, c) ==               \* the last beat, of no use, left unread
  IF c = b /\ b[2] # 0 THEN IF t[b] < STEPS-1 THEN Tail(xa[c]) ELSE xa[c]
  ELSE IF c = RightOf(b) THEN Append(xa[c], RightEdge(b)) ELSE xa[c]

MoveA(b, c) ==
  IF c = b /\ b[2] # 0 THEN Tail(xa[c])
  ELSE IF c = RightOf(b) THEN Append(xa[c], RightEdge(b)) ELSE xa[c]

MoveB(b, c) ==
  IF c = b /\ b[1] # 0 THEN Tail(xb[c])
  ELSE IF c = Below(b) THEN Append(xb[c], BottomEdge(b)) ELSE xb[c]

CanStep(b) ==
  /\ t[b] < STEPS
  /\ b[2] # 0   => xa[b] # << >>
  /\ b[1] # 0   => xb[b] # << >>
  /\ b[2] < S-1 => Len(xa[RightOf(b)]) < PATH
  /\ b[1] < R-1 => Len(xb[Below(b)]) < PATH

(* One iteration of STEP. *)
Step(b) ==
  /\ CanStep(b)
  /\ acc' = [acc EXCEPT ![b] = [pe \in Pe |-> Mac(b, pe)]]
  /\ aPipe' = [aPipe EXCEPT ![b] = ShiftA(b)]
  /\ bPipe' = [bPipe EXCEPT ![b] = ShiftB(b)]
  /\ xa' = [c \in Block |-> MoveA(b, c)]
  /\ xb' = [c \in Block |-> MoveB(b, c)]
  /\ t' = [t EXCEPT ![b] = @ + 1]

AllDone == \A b \in Block : t[b] = STEPS

Finished == AllDone /\ UNCHANGED vars

Next == (\E b \in Block : Step(b)) \/ Finished

Spec == Init /\ [][Next]_vars

(* The pipelines are clocked: a block that can step does. *)
FairSpec == Spec /\ WF_vars(Next)
-----------------------------------------------------------------------------
TypeOK ==
  /\ t \in [Block -> 0 .. STEPS]
  /\ aPipe \in [Block -> [Pe -> Operand]]
  /\ bPipe \in [Block -> [Pe -> Operand]]
  /\ acc \in [Block -> [Pe -> SUBSET Added]]
  /\ xa \in [Block -> Seq([Index -> Operand])]
  /\ xb \in [Block -> Seq([Index -> Operand])]

(* The wavefront: after its t-th step the PE at row I and column J of the   *)
(* logical array holds A[I][t-1-I-J] and B[t-1-I-J][J], or zero.            *)
Wavefront ==
  \A b \in Block : \A pe \in Pe :
    LET I == Row(b, pe[1])
        J == Col(b, pe[2])
        k == t[b] - 1 - I - J
    IN  aPipe[b][pe] = AAt(I, k) /\ bPipe[b][pe] = BAt(k, J)

(* The terms of cell <<I, J>> that a PE has added by its t-th step. *)
Terms(I, J, steps) ==
  {<<k + 1 + I + J, <<I, k>>, <<k, J>>>> : k \in {k \in 0 .. K-1 : k + 1 + I + J < steps}}

Accumulated ==
  \A b \in Block : \A pe \in Pe :
    acc[b][pe] = Terms(Row(b, pe[1]), Col(b, pe[2]), t[b])

(* The m-th crossing word waiting for b is the edge its neighbour had at    *)
(* the step that b will consume it in.                                      *)
InFlight ==
  \A b \in Block :
    /\ b[2] = 0 => xa[b] = << >>
    /\ b[1] = 0 => xb[b] = << >>
    /\ b[2] # 0 =>
         /\ Len(xa[b]) = t[LeftOf(b)] - t[b]
         /\ \A m \in 1 .. Len(xa[b]) : \A n \in Index :
              xa[b][m][n] = AAt(Row(b, n), t[b] + m - 1 - Row(b, n) - OffS(b))
    /\ b[1] # 0 =>
         /\ Len(xb[b]) = t[Above(b)] - t[b]
         /\ \A m \in 1 .. Len(xb[b]) : \A n \in Index :
              xb[b][m][n] = BAt(t[b] + m - 1 - OffR(b) - Col(b, n), Col(b, n))

IInv == TypeOK /\ Wavefront /\ Accumulated /\ InFlight

(* A block that has done its STEPS holds in every accumulator exactly the   *)
(* K products of its cell, none twice and none of another cell, although    *)
(* blocks step at different times (compute, sa_grid.cpp:240).               *)
ExactDotProduct ==
  \A b \in Block : \A pe \in Pe :
    LET I == Row(b, pe[1])
        J == Col(b, pe[2])
    IN  t[b] = STEPS =>
          acc[b][pe] = {<<k + 1 + I + J, <<I, k>>, <<k, J>>>> : k \in 0 .. K-1}

(* Crossing is consumed one for one: no beat is left when all are done. *)
NothingInFlight == AllDone => \A b \in Block : xa[b] = << >> /\ xb[b] = << >>

(* The product the blocks compute together: for every cell the k whose      *)
(* product the PE that owns the cell has added.                             *)
Cells == (0 .. N-1) \X (0 .. NC-1)

BlockOf(cell) == <<cell[1] \div PE, cell[2] \div PE>>
PeOf(cell)    == <<cell[1] % PE, cell[2] % PE>>

Product == INSTANCE MatMul WITH
  Rows <- 0 .. N-1, Cols <- 0 .. NC-1,
  sum <- [cell \in Cells |-> {x[2][2] : x \in acc[BlockOf(cell)][PeOf(cell)]}]

(* The array implements one matrix product: every cell of the logical array *)
(* adds its products in the order of k, whatever the order of the blocks.   *)
ImplementsProduct == Product!Spec

(* The array finishes the product: no block waits for a neighbour's beat    *)
(* that never comes (compute, sa_grid.cpp:240).                             *)
CompletesProduct == Product!Complete
=============================================================================
