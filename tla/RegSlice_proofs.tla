--------------------------- MODULE RegSlice_proofs ---------------------------
(***************************************************************************)
(* Proofs about RegSlice, for every type of the data.                       *)
(***************************************************************************)
EXTENDS RegSlice, TLAPS

LEMMA StepInv == IInv /\ Next => IInv'
<1> SUFFICES ASSUME IInv, Next PROVE IInv'
  OBVIOUS
<1>1. /\ state \in {"ZERO", "ONE", "TWO"} /\ ack_in \in BOOLEAN
      /\ state = "ONE" => ack_in
      /\ state = "TWO" => ~ack_in
  BY DEF IInv
<1>2. /\ data_p1' \in Data /\ data_p2' \in Data
      /\ vld_in' \in BOOLEAN /\ data_in' \in Data
      /\ ack_out' \in BOOLEAN /\ ap_rst' \in BOOLEAN
  BY DEF IInv, Next, NextInputs, Data1, Data2
<1>3. /\ state' \in {"ZERO", "ONE", "TWO"} /\ ack_in' \in BOOLEAN
      /\ state' = "ONE" => ack_in'
      /\ state' = "TWO" => ~ack_in'
  <2>1. CASE ap_rst
    BY <2>1 DEF Next, Ack
  <2>2. CASE ~ap_rst /\ state = "ZERO"
    BY <1>1, <2>2 DEF Next, Ack, next
  <2>3. CASE ~ap_rst /\ state = "ONE"
    BY <1>1, <2>3 DEF Next, Ack, next
  <2>4. CASE ~ap_rst /\ state = "TWO"
    BY <1>1, <2>4 DEF Next, Ack, next
  <2> QED
    BY <1>1, <2>1, <2>2, <2>3, <2>4
<1> QED
  BY <1>2, <1>3 DEF IInv

(* ack_in, a register, is up in ONE and down in TWO: the slice accepts a    *)
(* word exactly when it has a place for it, one cycle after the fact.       *)
THEOREM Invariance == Spec => []IInv
<1>1. Init => IInv
  BY DEF Init, IInv
<1>2. IInv /\ UNCHANGED vars => IInv'
  BY DEF IInv, vars
<1> QED
  BY <1>1, <1>2, StepInv, PTL DEF Spec

(* A word on offer is neither withdrawn nor changed by a later one.         *)
THEOREM Offer == Spec => Steady
<1>1. IInv /\ [Next]_vars =>
        [vld_out /\ ~ack_out /\ ~ap_rst => vld_out' /\ data_p1' = data_p1]_vars
  <2> SUFFICES ASSUME IInv, Next, vld_out, ~ack_out, ~ap_rst
               PROVE  vld_out' /\ data_p1' = data_p1
    OBVIOUS
  <2>1. state \in {"ONE", "TWO"}
    BY DEF vld_out
  <2>2. state' \in {"ONE", "TWO"}
    BY <2>1 DEF Next, next
  <2>3. ~load_p1
    BY <2>1 DEF load_p1
  <2> QED
    BY <2>2, <2>3 DEF vld_out, Next, Data1
<1> QED
  BY <1>1, Invariance, PTL DEF Spec, Steady
-----------------------------------------------------------------------------
(* One clock edge takes the words to the words of the abstract queue.       *)
LEMMA WordsStep ==
  ASSUME IInv, Next
  PROVE  Words' = IF ap_rst THEN << >>
                  ELSE IF vld_in /\ ack_in THEN Append(Queue!Rest, data_in) ELSE Queue!Rest
<1>1. /\ state \in {"ZERO", "ONE", "TWO"}
      /\ vld_in \in BOOLEAN /\ ack_in \in BOOLEAN /\ ack_out \in BOOLEAN /\ ap_rst \in BOOLEAN
      /\ state = "ONE" => ack_in
      /\ state = "TWO" => ~ack_in
  BY DEF IInv
<1>2. CASE ap_rst
  BY <1>2 DEF Next, Words
<1>3. CASE ~ap_rst /\ state = "ZERO"
  <2>1. Queue!Rest = << >>
    BY <1>3 DEF Queue!Rest, Words
  <2>2. CASE vld_in /\ ack_in
    <3>1. Words' = <<data_in>>
      BY <1>3, <2>2 DEF Next, next, Words, Data1, load_p1
    <3> QED
      BY <1>3, <2>1, <2>2, <3>1
  <2>3. CASE ~(vld_in /\ ack_in)
    BY <1>3, <2>1, <2>3 DEF Next, next, Words
  <2> QED
    BY <2>2, <2>3
<1>4. CASE ~ap_rst /\ state = "ONE"
  <2>1. Words = <<data_p1>> /\ ack_in
    BY <1>1, <1>4 DEF Words
  <2>2. Queue!Rest = IF ack_out THEN << >> ELSE <<data_p1>>
    BY <2>1 DEF Queue!Rest
  <2>3. CASE vld_in /\ ack_out
    <3>1. Words' = <<data_in>>
      BY <1>4, <2>3 DEF Next, next, Words, Data1, load_p1
    <3> QED
      BY <1>4, <2>1, <2>2, <2>3, <3>1
  <2>4. CASE vld_in /\ ~ack_out
    <3>1. Words' = <<data_p1, data_in>>
      BY <1>4, <2>1, <2>4 DEF Next, next, Words, Data1, Data2, load_p1
    <3> QED
      BY <1>4, <2>1, <2>2, <2>4, <3>1
  <2>5. CASE ~vld_in /\ ack_out
    BY <1>4, <2>2, <2>5 DEF Next, next, Words
  <2>6. CASE ~vld_in /\ ~ack_out
    BY <1>4, <2>2, <2>6 DEF Next, next, Words, Data1, load_p1
  <2> QED
    BY <2>3, <2>4, <2>5, <2>6
<1>5. CASE ~ap_rst /\ state = "TWO"
  <2>1. Words = <<data_p1, data_p2>> /\ ~ack_in
    BY <1>1, <1>5 DEF Words
  <2>2. CASE ack_out
    <3>1. Words' = <<data_p2>>
      BY <1>5, <2>2 DEF Next, next, Words, Data1, load_p1
    <3>2. Queue!Rest = <<data_p2>>
      BY <2>1, <2>2 DEF Queue!Rest
    <3> QED
      BY <1>5, <2>1, <3>1, <3>2
  <2>3. CASE ~ack_out
    <3>1. Queue!Rest = Words
      BY <2>3 DEF Queue!Rest
    <3>2. Words' = <<data_p1, data_p2>>
      BY <1>5, <2>1, <2>3 DEF Next, next, Words, Data1, Data2, load_p1
    <3> QED
      BY <1>5, <2>1, <3>1, <3>2
  <2> QED
    BY <2>2, <2>3
<1> QED
  BY <1>1, <1>2, <1>3, <1>4, <1>5

(* The slice implements the queue that the rest of the project takes a      *)
(* stream to be.                                                            *)
THEOREM Refinement == Spec => IsQueue
<1>1. Init => Queue!Init
  BY DEF Init, Queue!Init, Words
<1>2. IInv /\ IInv' /\ Next => Queue!Next
  <2> SUFFICES ASSUME IInv, IInv', Next PROVE Queue!Next
    OBVIOUS
  <2>1. ack_in' \in BOOLEAN
    BY DEF IInv
  <2>2. ack_in' => Len(Words') < 2
    <3>1. ack_in' => state' \in {"ZERO", "ONE"}
      BY DEF IInv
    <3>2. state' = "ZERO" => Len(Words') < 2
      <4>1. state' = "ZERO" => Words' = << >>
        BY DEF Words
      <4> QED
        BY <4>1, Len(<< >>) = 0
    <3>3. state' = "ONE" => Len(Words') < 2
      <4>1. state' = "ONE" => Words' = <<data_p1'>>
        BY DEF Words
      <4> QED
        BY <4>1, Len(<<data_p1'>>) = 1
    <3> QED
      BY <3>1, <3>2, <3>3
  <2> QED
    BY <2>1, <2>2, WordsStep DEF Queue!Next
<1>3. UNCHANGED vars =>
        UNCHANGED <<Words, ack_in, vld_in, data_in, ack_out, ap_rst>>
  BY DEF vars, Words
<1> QED
  BY <1>1, <1>2, <1>3, Invariance, PTL DEF Spec, IsQueue, Queue!Spec
=============================================================================
