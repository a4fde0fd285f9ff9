------------------------------- MODULE HlsFifo -------------------------------
(***************************************************************************)
(* The FIFO that Vitis HLS generates for a stream (sa_grid_fifo_*_S.v): a   *)
(* shift register, an address into it, a counter and two flags, each        *)
(* register updated on the clock edge from the values before it.            *)
(***************************************************************************)
EXTENDS Integers, Sequences

CONSTANTS
  Data,
  DEPTH,
  ADDRS     \* 2 ^ ADDR_WIDTH: addr counts modulo ADDRS, mOutPtr modulo twice that

ASSUME FifoAssumption ==
  /\ DEPTH \in Nat /\ DEPTH >= 2
  /\ ADDRS \in Nat /\ DEPTH <= ADDRS

VARIABLES
  SRL_SIG, addr, mOutPtr, full_n, empty_n,   \* registers
  if_write, if_din, if_read, reset           \* inputs of this cycle

inputs == <<if_write, if_din, if_read, reset>>
vars   == <<SRL_SIG, addr, mOutPtr, full_n, empty_n, inputs>>
-----------------------------------------------------------------------------
InputsOK ==
  if_write \in BOOLEAN /\ if_din \in Data /\ if_read \in BOOLEAN /\ reset \in BOOLEAN

(* After a reset; the shift register itself has none. *)
Init ==
  /\ SRL_SIG \in [0 .. DEPTH-1 -> Data]
  /\ addr = 0 /\ mOutPtr = 0 /\ full_n = TRUE /\ empty_n = FALSE
  /\ InputsOK

push == full_n /\ if_write
pop  == empty_n /\ if_read

OnlyPush == push /\ ~pop
OnlyPop  == pop /\ ~push

dout == SRL_SIG[addr]

ShiftReg ==
  SRL_SIG' = IF push THEN [i \in 0 .. DEPTH-1 |-> IF i = 0 THEN if_din ELSE SRL_SIG[i - 1]]
             ELSE SRL_SIG

AddrAlways ==                           \* also for the first word
  addr' = IF reset THEN 0
          ELSE IF OnlyPush THEN (addr + 1) % ADDRS
          ELSE IF OnlyPop /\ mOutPtr # 1 THEN (addr - 1) % ADDRS ELSE addr

Addr ==
  addr' = IF reset THEN 0
          ELSE IF OnlyPush /\ empty_n THEN (addr + 1) % ADDRS
          ELSE IF OnlyPop /\ mOutPtr # 1 THEN (addr - 1) % ADDRS ELSE addr

Count ==
  mOutPtr' = IF reset THEN 0
             ELSE IF OnlyPush THEN (mOutPtr + 1) % (2 * ADDRS)
             ELSE IF OnlyPop THEN (mOutPtr - 1) % (2 * ADDRS) ELSE mOutPtr

FullNLate ==                            \* full_n as if mOutPtr were the new count
  full_n' = IF reset THEN TRUE
            ELSE IF OnlyPush /\ mOutPtr = DEPTH THEN FALSE
            ELSE IF OnlyPop THEN TRUE ELSE full_n

FullN ==
  full_n' = IF reset THEN TRUE
            ELSE IF OnlyPush /\ mOutPtr = DEPTH - 1 THEN FALSE
            ELSE IF OnlyPop THEN TRUE ELSE full_n

EmptyN ==
  empty_n' = IF reset THEN FALSE
             ELSE IF OnlyPush THEN TRUE
             ELSE IF OnlyPop /\ mOutPtr = 1 THEN FALSE ELSE empty_n

NextInputs ==
  if_write' \in BOOLEAN /\ if_din' \in Data /\ if_read' \in BOOLEAN /\ reset' \in BOOLEAN

(* One clock edge, then the inputs of the next cycle. *)
Next == ShiftReg /\ Addr /\ Count /\ FullN /\ EmptyN /\ NextInputs

Spec == Init /\ [][Next]_vars
-----------------------------------------------------------------------------
(* The flags say exactly whether there is room and whether there is a word, *)
(* and addr points at the oldest word.                                      *)
IInv ==
  /\ SRL_SIG \in [0 .. DEPTH-1 -> Data]
  /\ InputsOK
  /\ mOutPtr \in 0 .. DEPTH
  /\ full_n \in BOOLEAN /\ (full_n <=> mOutPtr < DEPTH)
  /\ empty_n \in BOOLEAN /\ (empty_n <=> mOutPtr > 0)
  /\ addr = IF mOutPtr = 0 THEN 0 ELSE mOutPtr - 1

Words == [i \in 1 .. mOutPtr |-> SRL_SIG[mOutPtr - i]]

(* The word on dout while empty_n is up is the oldest one, although the     *)
(* shift register moves under the address with every push.                  *)
ShowsOldest == empty_n => Words # << >> /\ dout = Head(Words)

(* The FIFO is a queue of DEPTH words that is ready whenever it has room:   *)
(* with a push, a pop, both or neither at any count, nothing is lost,       *)
(* doubled or reordered (sa_grid_fifo_w32_d4_S.v:75).                       *)
Queue == INSTANCE StreamQueue WITH
  Depth <- DEPTH, q <- Words, ready <- full_n,
  write <- if_write, din <- if_din, read <- if_read

IsQueue == Queue!Spec
=============================================================================
