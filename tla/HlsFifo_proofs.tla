--------------------------- MODULE HlsFifo_proofs ---------------------------
(***************************************************************************)
(* Proofs about HlsFifo, for every depth, every width of addr that can      *)
(* address the depth, and every data type.                                 *)
(***************************************************************************)
EXTENDS HlsFifo, SequenceTheorems, TLAPS

USE FifoAssumption

(* Counting modulo a number that is not reached is counting. *)
LEMMA NoWrap ==
  ASSUME NEW m \in Nat, NEW x \in 0 .. m - 1
  PROVE  x % m = x
BY SMT

LEMMA Counters ==
  ASSUME IInv, Next
  PROVE  /\ mOutPtr' = IF reset THEN 0
                       ELSE IF OnlyPush THEN mOutPtr + 1
                       ELSE IF OnlyPop THEN mOutPtr - 1 ELSE mOutPtr
         /\ addr' = IF reset THEN 0
                    ELSE IF OnlyPush /\ empty_n THEN addr + 1
                    ELSE IF OnlyPop /\ mOutPtr # 1 THEN addr - 1 ELSE addr
<1>1. OnlyPush => mOutPtr < DEPTH
  BY DEF OnlyPush, push, IInv
<1>2. OnlyPop => mOutPtr > 0
  BY DEF OnlyPop, pop, IInv
<1>3. OnlyPush => (mOutPtr + 1) % (2 * ADDRS) = mOutPtr + 1
  BY <1>1, NoWrap DEF IInv
<1>4. OnlyPop => (mOutPtr - 1) % (2 * ADDRS) = mOutPtr - 1
  BY <1>2, NoWrap DEF IInv
<1>5. OnlyPush /\ empty_n => (addr + 1) % ADDRS = addr + 1
  BY <1>1, NoWrap DEF IInv
<1>6. OnlyPop /\ mOutPtr # 1 => (addr - 1) % ADDRS = addr - 1
  BY <1>2, NoWrap DEF IInv
<1>7. mOutPtr' = IF reset THEN 0
                 ELSE IF OnlyPush THEN mOutPtr + 1
                 ELSE IF OnlyPop THEN mOutPtr - 1 ELSE mOutPtr
  BY <1>3, <1>4 DEF Next, Count
<1>8. addr' = IF reset THEN 0
              ELSE IF OnlyPush /\ empty_n THEN addr + 1
              ELSE IF OnlyPop /\ mOutPtr # 1 THEN addr - 1 ELSE addr
  BY <1>5, <1>6 DEF Next, Addr
<1> QED
  BY <1>7, <1>8

LEMMA StepInv == IInv /\ Next => IInv'
<1> SUFFICES ASSUME IInv, Next PROVE IInv'
  OBVIOUS
<1>1. SRL_SIG' \in [0 .. DEPTH-1 -> Data]
  BY DEF IInv, InputsOK, Next, ShiftReg
<1>2. InputsOK'
  BY DEF Next, NextInputs, InputsOK
<1>3. /\ mOutPtr \in 0 .. DEPTH
      /\ full_n \in BOOLEAN /\ (full_n <=> mOutPtr < DEPTH)
      /\ empty_n \in BOOLEAN /\ (empty_n <=> mOutPtr > 0)
      /\ addr = IF mOutPtr = 0 THEN 0 ELSE mOutPtr - 1
  BY DEF IInv
<1>4. /\ mOutPtr' \in 0 .. DEPTH
      /\ full_n' \in BOOLEAN /\ (full_n' <=> mOutPtr' < DEPTH)
      /\ empty_n' \in BOOLEAN /\ (empty_n' <=> mOutPtr' > 0)
      /\ addr' = IF mOutPtr' = 0 THEN 0 ELSE mOutPtr' - 1
  <2>1. CASE reset
    BY <2>1, Counters DEF Next, FullN, EmptyN
  <2>2. CASE ~reset /\ OnlyPush
    <3>1. /\ mOutPtr < DEPTH /\ mOutPtr' = mOutPtr + 1
          /\ addr' = IF empty_n THEN addr + 1 ELSE addr
      BY <1>3, <2>2, Counters DEF OnlyPush, OnlyPop, push
    <3>2. CASE mOutPtr = DEPTH - 1
      <4>1. /\ full_n' \in BOOLEAN /\ ~full_n'
            /\ empty_n' \in BOOLEAN /\ empty_n'
        BY <2>2, <3>2 DEF Next, FullN, EmptyN
      <4> QED
        BY <1>3, <3>1, <3>2, <4>1
    <3>3. CASE mOutPtr # DEPTH - 1
      <4>1. full_n' = full_n /\ full_n /\ empty_n' = TRUE
        BY <2>2, <3>3 DEF Next, FullN, EmptyN, OnlyPush, OnlyPop, push
      <4> QED
        BY <1>3, <3>1, <3>3, <4>1
    <3> QED
      BY <3>2, <3>3
  <2>3. CASE ~reset /\ OnlyPop
    <3>1. /\ mOutPtr > 0 /\ mOutPtr' = mOutPtr - 1
          /\ addr' = IF mOutPtr # 1 THEN addr - 1 ELSE addr
      BY <1>3, <2>3, Counters DEF OnlyPush, OnlyPop, pop
    <3>2. CASE mOutPtr = 1
      <4>1. /\ full_n' \in BOOLEAN /\ full_n'
            /\ empty_n' \in BOOLEAN /\ ~empty_n'
        BY <2>3, <3>2 DEF Next, FullN, EmptyN, OnlyPush, OnlyPop
      <4> QED
        BY <1>3, <3>1, <3>2, <4>1
    <3>3. CASE mOutPtr # 1
      <4>1. full_n' = TRUE /\ empty_n' = empty_n /\ empty_n
        BY <2>3, <3>3 DEF Next, FullN, EmptyN, OnlyPush, OnlyPop, pop
      <4> QED
        BY <1>3, <3>1, <3>3, <4>1
    <3> QED
      BY <3>2, <3>3
  <2>4. CASE ~reset /\ ~OnlyPush /\ ~OnlyPop
    BY <1>3, <2>4, Counters DEF Next, FullN, EmptyN
  <2> QED
    BY <2>1, <2>2, <2>3, <2>4
<1> QED
  BY <1>1, <1>2, <1>4 DEF IInv

(* The flags are exact and the counters never wrap, at any depth. *)
THEOREM Invariance == Spec => []IInv
<1>1. Init => IInv
  BY 0 \in 0 .. DEPTH, 0 < DEPTH, ~(0 > 0) DEF Init, IInv, InputsOK
<1>2. IInv /\ UNCHANGED vars => IInv'
  BY DEF IInv, InputsOK, vars, inputs
<1> QED
  BY <1>1, <1>2, StepInv, PTL DEF Spec

(* What the consumer sees while empty_n is up is the oldest word. *)
THEOREM Oldest == Spec => []ShowsOldest
<1>1. IInv => ShowsOldest
  <2> SUFFICES ASSUME IInv, empty_n PROVE Words # << >> /\ dout = Head(Words)
    BY DEF ShowsOldest
  <2>1. Words \in Seq(Data) /\ Len(Words) = mOutPtr /\ mOutPtr > 0
    BY DEF IInv, Words
  <2>2. Words # << >> /\ Head(Words) = Words[1]
    BY <2>1
  <2>3. Words[1] = SRL_SIG[mOutPtr - 1] /\ addr = mOutPtr - 1
    BY <2>1 DEF IInv, Words
  <2> QED
    BY <2>2, <2>3 DEF dout
<1> QED
  BY <1>1, Invariance, PTL
-----------------------------------------------------------------------------
LEMMA WordsType ==
  ASSUME IInv'
  PROVE  Words' \in Seq(Data) /\ Len(Words') = mOutPtr'
<1>1. mOutPtr' \in 0 .. DEPTH /\ SRL_SIG' \in [0 .. DEPTH-1 -> Data]
  BY DEF IInv
<1>2. \A i \in 1 .. mOutPtr' : SRL_SIG'[mOutPtr' - i] \in Data
  <2>1. \A n \in 0 .. DEPTH : \A i \in 1 .. n : n - i \in 0 .. DEPTH-1
    OBVIOUS
  <2> QED
    BY <1>1, <2>1
<1>3. Words' = [i \in 1 .. mOutPtr' |-> SRL_SIG'[mOutPtr' - i]]
  BY DEF Words
<1> QED
  BY <1>1, <1>2, <1>3

(* One clock edge takes the words to the words of the abstract queue. *)
LEMMA WordsStep ==
  ASSUME IInv, IInv', Next
  PROVE  Words' = IF reset THEN << >>
                  ELSE IF if_write /\ full_n THEN Append(Queue!Rest, if_din) ELSE Queue!Rest
<1> DEFINE n    == mOutPtr
           rest == Queue!Rest
<1>1. /\ n \in 0 .. DEPTH
      /\ full_n \in BOOLEAN /\ (full_n <=> n < DEPTH)
      /\ empty_n \in BOOLEAN /\ (empty_n <=> n > 0)
      /\ SRL_SIG \in [0 .. DEPTH-1 -> Data]
      /\ if_read \in BOOLEAN /\ if_write \in BOOLEAN /\ reset \in BOOLEAN /\ if_din \in Data
  BY DEF IInv, InputsOK
<1>2. /\ Words \in Seq(Data) /\ Len(Words) = n
      /\ \A i \in 1 .. n : Words[i] = SRL_SIG[n - i]
  BY <1>1 DEF Words
<1>3. rest = IF pop THEN Tail(Words) ELSE Words
  BY <1>1, <1>2 DEF Queue!Rest, pop
<1>4. /\ rest \in Seq(Data)
      /\ Len(rest) = IF pop THEN n - 1 ELSE n
      /\ \A i \in 1 .. Len(rest) : rest[i] = SRL_SIG[Len(rest) - i]
  <2>1. CASE pop
    BY <1>1, <1>2, <1>3, <2>1 DEF pop
  <2>2. CASE ~pop
    BY <1>1, <1>2, <1>3, <2>2
  <2> QED
    BY <2>1, <2>2
<1> HIDE DEF rest
<1>5. Words' = [i \in 1 .. mOutPtr' |-> SRL_SIG'[mOutPtr' - i]]
  BY DEF Words
<1>6. CASE reset
  BY <1>5, <1>6, Counters
<1>7. CASE ~reset /\ push
  <2>0. mOutPtr' \in 0 .. DEPTH
    BY DEF IInv
  <2>1. mOutPtr' = Len(rest) + 1
    BY <1>1, <1>4, <1>7, Counters DEF OnlyPush, OnlyPop, push, pop
  <2>2. \A j \in 0 .. DEPTH-1 : SRL_SIG'[j] = IF j = 0 THEN if_din ELSE SRL_SIG[j - 1]
    BY <1>7 DEF Next, ShiftReg
  <2>3. \A i \in 1 .. mOutPtr' :
          SRL_SIG'[mOutPtr' - i] = IF i = mOutPtr' THEN if_din ELSE rest[i]
    <3> SUFFICES ASSUME NEW i \in 1 .. mOutPtr'
                 PROVE  SRL_SIG'[mOutPtr' - i] = IF i = mOutPtr' THEN if_din ELSE rest[i]
      OBVIOUS
    <3>1. mOutPtr' \in 1 .. DEPTH /\ mOutPtr' = Len(rest) + 1 /\ Len(rest) \in Nat
      BY <1>4, <2>1, <2>0
    <3>2. CASE i = mOutPtr'
      BY <2>2, <3>1, <3>2
    <3>3. CASE i # mOutPtr'
      <4>1. i \in 1 .. Len(rest) /\ mOutPtr' - i \in 1 .. DEPTH-1
        BY <3>1, <3>3
      <4>2. SRL_SIG'[mOutPtr' - i] = SRL_SIG[(mOutPtr' - i) - 1]
        BY <2>2, <4>1
      <4>3. (mOutPtr' - i) - 1 = Len(rest) - i
        BY <3>1, <4>1
      <4>4. rest[i] = SRL_SIG[Len(rest) - i]
        BY <1>4, <4>1
      <4> QED
        BY <3>3, <4>2, <4>3, <4>4
    <3> QED
      BY <3>2, <3>3
  <2>4. /\ Append(rest, if_din) \in Seq(Data)
        /\ Len(Append(rest, if_din)) = mOutPtr'
        /\ \A i \in 1 .. mOutPtr' :
             Append(rest, if_din)[i] = IF i = mOutPtr' THEN if_din ELSE rest[i]
    BY <1>1, <1>4, <2>1
  <2>5. Words' \in Seq(Data) /\ Len(Words') = mOutPtr'
    BY WordsType
  <2>6. \A i \in 1 .. mOutPtr' : Words'[i] = Append(rest, if_din)[i]
    BY <1>5, <2>3, <2>4
  <2>7. Words' = Append(rest, if_din)
    BY <2>4, <2>5, <2>6, SeqEqual
  <2> QED
    BY <1>1, <1>7, <2>7 DEF push, rest
<1>8. CASE ~reset /\ ~push
  <2>1. mOutPtr' = Len(rest) /\ SRL_SIG' = SRL_SIG
    BY <1>1, <1>4, <1>8, Counters DEF OnlyPush, OnlyPop, push, pop, Next, ShiftReg
  <2>2. \A i \in 1 .. mOutPtr' : SRL_SIG'[mOutPtr' - i] = rest[i]
    BY <1>1, <1>4, <2>1
  <2>3. rest = [i \in 1 .. mOutPtr' |-> rest[i]]
    BY <1>4, <2>1
  <2>4. Words' = rest
    BY <1>5, <2>2, <2>3
  <2> QED
    BY <1>1, <1>8, <2>4 DEF push, rest
<1> QED
  BY <1>1, <1>6, <1>7, <1>8

(* The generated FIFO implements the queue that the rest of the project     *)
(* takes a stream to be.                                                    *)
THEOREM Refinement == Spec => IsQueue
<1>1. Init => Queue!Init
  BY DEF Init, Queue!Init, Words
<1>2. IInv /\ IInv' /\ Next => Queue!Next
  <2> SUFFICES ASSUME IInv, IInv', Next PROVE Queue!Next
    OBVIOUS
  <2>1. Words' \in Seq(Data) /\ Len(Words') = mOutPtr'
    BY WordsType
  <2>2. full_n' \in BOOLEAN /\ (full_n' => Len(Words') < DEPTH)
    BY <2>1 DEF IInv
  <2> QED
    BY <2>2, WordsStep DEF Queue!Next
<1>3. UNCHANGED vars => UNCHANGED <<Words, full_n, if_write, if_din, if_read, reset>>
  BY DEF vars, inputs, Words
<1> QED
  BY <1>1, <1>2, <1>3, Invariance, PTL DEF Spec, IsQueue, Queue!Spec
=============================================================================
