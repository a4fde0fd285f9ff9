------------------------------- MODULE MatMul -------------------------------
(***************************************************************************)
(* What the array promises: every cell of the N x NC product accumulates   *)
(* its K products A[I][k] * B[k][J] in the order of k, each exactly once,   *)
(* and in the end all of them.                                              *)
(***************************************************************************)
EXTENDS Integers

CONSTANTS Rows, Cols, K

VARIABLE sum    \* the set of k whose product cell <<I, J>> has accumulated

Init == sum = [cell \in Rows \X Cols |-> {}]

(* At one instant any number of cells may accumulate, each one its next k.  *)
Next ==
  /\ sum' \in [Rows \X Cols -> SUBSET (0 .. K-1)]
  /\ \A cell \in Rows \X Cols :
       \/ sum'[cell] = sum[cell]
       \/ \E k \in 0 .. K-1 :
            /\ sum[cell] = 0 .. k-1
            /\ sum'[cell] = 0 .. k

Spec == Init /\ [][Next]_sum

(* In the end every cell has all of its products. *)
Complete == <>(\A cell \in Rows \X Cols : sum[cell] = 0 .. K-1)
=============================================================================
