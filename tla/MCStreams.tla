------------------------------ MODULE MCStreams ------------------------------
(* The two circuits a stream is made of, each by itself: the initial state   *)
(* chooses the FIFO or the register slice, and the other one rests.          *)
EXTENDS HlsFifo

CONSTANT SliceData

VARIABLES circuit, state, ack_in, data_p1, data_p2, vld_in, data_in, ack_out, ap_rst

Slice == INSTANCE RegSlice WITH Data <- SliceData

sliceVars == <<state, ack_in, data_p1, data_p2, vld_in, data_in, ack_out, ap_rst>>
MCvars == <<circuit, vars, sliceVars>>

AWord(W) == CHOOSE w \in W : TRUE

FifoRests ==
  /\ Init /\ SRL_SIG = [i \in 0 .. DEPTH-1 |-> AWord(Data)] /\ if_din = AWord(Data)
  /\ ~if_write /\ ~if_read /\ ~reset

SliceRests ==
  /\ Slice!Init /\ <<data_p1, data_p2, data_in>> = [i \in 1 .. 3 |-> AWord(SliceData)]
  /\ ~vld_in /\ ~ack_out /\ ~ap_rst

MCInit ==
  \/ circuit = "fifo" /\ Init /\ SliceRests
  \/ circuit = "slice" /\ Slice!Init /\ FifoRests

MCNext ==
  /\ UNCHANGED circuit
  /\ \/ circuit = "fifo" /\ Next /\ UNCHANGED sliceVars
     \/ circuit = "slice" /\ Slice!Next /\ UNCHANGED vars

MCSpec == MCInit /\ [][MCNext]_MCvars
-----------------------------------------------------------------------------
(* The slice is ready exactly when it has a place for a word                 *)
(* (sa_grid_regslice_both.v:66).                                             *)
SliceInv == Slice!IInv

(* The slice is a queue of two words (sa_grid_regslice_both.v:45).           *)
SliceIsQueue == Slice!IsQueue

(* AXI-Stream: the slice keeps a word on offer until it is taken             *)
(* (sa_grid_regslice_both.v:42).                                             *)
Steady == Slice!Steady
=============================================================================
