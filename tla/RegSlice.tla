------------------------------ MODULE RegSlice ------------------------------
(***************************************************************************)
(* The register slice on every AXI-Stream port of the block                *)
(* (sa_grid_regslice_both.v): two words, and no combinational path from    *)
(* ack_out back to ack_in.                                                 *)
(***************************************************************************)
EXTENDS Integers, Sequences

CONSTANT Data

VARIABLES
  state, ack_in, data_p1, data_p2,     \* registers
  vld_in, data_in, ack_out, ap_rst     \* inputs of this cycle

vars == <<state, ack_in, data_p1, data_p2, vld_in, data_in, ack_out, ap_rst>>
-----------------------------------------------------------------------------
(* After the reset. *)
Init ==
  /\ state = "ZERO" /\ ack_in = FALSE
  /\ data_p1 \in Data /\ data_p2 \in Data
  /\ vld_in \in BOOLEAN /\ data_in \in Data /\ ack_out \in BOOLEAN /\ ap_rst \in BOOLEAN

vld_out == state \in {"ONE", "TWO"}

next ==
  CASE state = "ZERO" -> IF vld_in /\ ack_in THEN "ONE" ELSE "ZERO"
    [] state = "ONE"  -> IF ~vld_in /\ ack_out THEN "ZERO"
                         ELSE IF vld_in /\ ~ack_out THEN "TWO" ELSE "ONE"
    [] state = "TWO"  -> IF ack_out THEN "ONE" ELSE "TWO"

load_p1Stalled ==                      \* also while the first word is not taken
  \/ state = "ZERO" /\ vld_in
  \/ state = "ONE" /\ vld_in
  \/ state = "TWO" /\ ack_out

load_p1 ==
  \/ state = "ZERO" /\ vld_in
  \/ state = "ONE" /\ vld_in /\ ack_out
  \/ state = "TWO" /\ ack_out

Data1 == data_p1' = IF ~load_p1 THEN data_p1
                    ELSE IF state = "TWO" THEN data_p2 ELSE data_in

Data2 == data_p2' = IF vld_in /\ ack_in THEN data_in ELSE data_p2

AckKept ==                             \* not withdrawn when the second word comes
  ack_in' = IF ap_rst THEN FALSE
            ELSE IF state = "ZERO" THEN TRUE
            ELSE IF state = "TWO" /\ next = "ONE" THEN TRUE ELSE ack_in

Ack ==
  ack_in' = IF ap_rst THEN FALSE
            ELSE IF state = "ZERO" THEN TRUE
            ELSE IF state = "ONE" /\ next = "TWO" THEN FALSE
            ELSE IF state = "TWO" /\ next = "ONE" THEN TRUE ELSE ack_in

NextInputs ==
  /\ vld_in' \in BOOLEAN /\ data_in' \in Data
  /\ ack_out' \in BOOLEAN /\ ap_rst' \in BOOLEAN

(* One clock edge, then the inputs of the next cycle. *)
Next ==
  /\ state' = IF ap_rst THEN "ZERO" ELSE next
  /\ Data1 /\ Data2 /\ Ack
  /\ NextInputs

Spec == Init /\ [][Next]_vars
-----------------------------------------------------------------------------
IInv ==
  /\ state \in {"ZERO", "ONE", "TWO"}
  /\ data_p1 \in Data /\ data_p2 \in Data
  /\ vld_in \in BOOLEAN /\ data_in \in Data /\ ack_out \in BOOLEAN /\ ap_rst \in BOOLEAN
  /\ ack_in \in BOOLEAN
  /\ state = "ONE" => ack_in
  /\ state = "TWO" => ~ack_in

Words ==
  CASE state = "ZERO" -> << >>
    [] state = "ONE"  -> <<data_p1>>
    [] state = "TWO"  -> <<data_p1, data_p2>>

(* The slice is a queue of two words: a word accepted in the very cycle in  *)
(* which the consumer stalls is kept, and none is shown twice               *)
(* (sa_grid_regslice_both.v:45).                                            *)
Queue == INSTANCE StreamQueue WITH
  Depth <- 2, q <- Words, ready <- ack_in,
  write <- vld_in, din <- data_in, read <- ack_out, reset <- ap_rst

IsQueue == Queue!Spec

(* AXI-Stream: a word offered and not taken stays on offer, unchanged. *)
Steady ==
  [][vld_out /\ ~ack_out /\ ~ap_rst => vld_out' /\ data_p1' = data_p1]_vars
=============================================================================
