------------------------------ MODULE Matrices ------------------------------
(* Matrices as functions on pairs of indices from 0, with their sizes.       *)
EXTENDS Integers, FiniteSetsExt, Functions

Upto(n) == 0 .. n - 1
Matrix(rows, cols, Entry(_, _)) == [rc \in Upto(rows) \X Upto(cols) |-> Entry(rc[1], rc[2])]

Sized(rows, cols, Entry(_, _)) ==
  [rows |-> rows, cols |-> cols, cell |-> Matrix(rows, cols, Entry)]

IsMatrix(M) ==
  /\ M.rows \in Nat \ {0} /\ M.cols \in Nat \ {0}
  /\ M.cell \in [Upto(M.rows) \X Upto(M.cols) -> Int]

(* What all tiling, packing and pipelining is for. *)
Product(A, B) ==
  Matrix(A.rows, B.cols, LAMBDA i, j :
    SumFunction([k \in Upto(A.cols) |-> A.cell[i, k] * B.cell[k, j]]))
=============================================================================
