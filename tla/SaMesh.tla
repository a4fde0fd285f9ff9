------------------------------- MODULE SaMesh -------------------------------
(***************************************************************************)
(* The whole R x S mesh on one FPGA with the host's DMA loop around it:    *)
(* run_tiles of sa_grid_host.ipynb.  One MM2S channel feeds in_left of     *)
(* block (0,0), out_down of the last block ends in the one S2MM channel.   *)
(***************************************************************************)
EXTENDS SaTile

(* Every place has a block, and out_down is the link to the block below.    *)
ASSUME MeshAssumption == Blocks = Position /\ ~TAP

VARIABLES
  host,   \* where run_tiles is: pc and the blocks left to start
  mm2s,   \* the words of the running MM2S transfer not yet on the stream
  s2mm,   \* "idle", "running" or "error": the S2MM channel
  mem     \* what S2MM has written to the result region of this tile

meshVars == <<blockVars, host, mm2s, s2mm, mem>>
-----------------------------------------------------------------------------
HeadPort == InLeft(<<0, 0>>)
TailPort == OutDown(<<R - 1, S - 1>>)
-----------------------------------------------------------------------------
(* DMA *)

Mm2sBeat ==
  /\ mm2s # << >>
  /\ Fire({}, Put(HeadPort, Head(mm2s)))
  /\ mm2s' = Tail(mm2s)
  /\ UNCHANGED <<start, ld, cp, st, host, s2mm, mem>>

(* TLAST ends the transfer; running out of room without it is a DMA error. *)
S2mmBeat ==
  LET w == Head(chan[TailPort]) IN
  /\ s2mm = "running"
  /\ Fire({TailPort}, Nothing)
  /\ mem' = Append(mem, w)
  /\ s2mm' = IF w.last THEN "idle"
             ELSE IF Len(mem') = RECV_BEATS THEN "error" ELSE "running"
  /\ UNCHANGED <<start, ld, cp, st, host, mm2s>>
-----------------------------------------------------------------------------
(* run_tiles *)

HostArm ==
  /\ host.pc = "arm"
  /\ s2mm' = "running"
  /\ host' = [host EXCEPT !.pc = "start", !.todo = Blocks]
  /\ UNCHANGED <<blockVars, mm2s, mem>>

(* for b in blk: b.start(), in the order of the blocks' addresses. *)
HostStart ==
  /\ host.pc = "start"
  /\ \E b \in host.todo :
       /\ ApStart(b)
       /\ host' = [host EXCEPT !.todo = @ \ {b},
                               !.pc = IF host.todo = {b} THEN "sendB" ELSE @]
  /\ UNCHANGED <<ld, cp, st, chan, mm2s, s2mm, mem>>

HostSendB ==
  /\ host.pc = "sendB"
  /\ mm2s' = BTransfer
  /\ host' = [host EXCEPT !.pc = "sendA"]
  /\ UNCHANGED <<blockVars, s2mm, mem>>

(* wait_mm2s, then the second transfer. *)
HostSendA ==
  /\ host.pc = "sendA" /\ mm2s = << >>
  /\ mm2s' = ATransfer
  /\ host' = [host EXCEPT !.pc = "wait"]
  /\ UNCHANGED <<blockVars, s2mm, mem>>

HostCollectUnreceived ==               \* waits for the operands to be sent only
  /\ host.pc = "wait" /\ mm2s = << >>
  /\ host' = [host EXCEPT !.pc = "arm"]
  /\ mem' = << >>
  /\ UNCHANGED <<blockVars, mm2s, s2mm>>

(* wait_mm2s and wait_s2mm, then the next tile with its own result region. *)
HostCollect ==
  /\ host.pc = "wait" /\ mm2s = << >> /\ s2mm # "running"
  /\ host' = [host EXCEPT !.pc = "arm"]
  /\ mem' = << >>
  /\ UNCHANGED <<blockVars, mm2s, s2mm>>

Init ==
  /\ BlockInit
  /\ host = [pc |-> "arm", todo |-> {}]
  /\ mm2s = << >> /\ s2mm = "idle" /\ mem = << >>

Dma  == Mm2sBeat \/ S2mmBeat
Host == HostArm \/ HostStart \/ HostSendB \/ HostSendA \/ HostCollect

Next ==
  \/ \E b \in Blocks : Block(b) /\ UNCHANGED <<host, mm2s, s2mm, mem>>
  \/ Dma
  \/ Host

Spec == Init /\ [][Next]_meshVars

(* The blocks are clocked and the host polls: the mesh as a whole never     *)
(* rests while some part of it can move.                                    *)
FairSpec == Spec /\ WF_meshVars(Next)
-----------------------------------------------------------------------------
(* No FIFO or link ever holds more than its depth, and S2MM never runs out  *)
(* of room before the result's TLAST.                                       *)
TypeOK ==
  /\ start \in [Blocks -> BOOLEAN]
  /\ \A c \in Channels : Len(chan[c]) <= Depth(c)
  /\ host.pc \in {"arm", "start", "sendB", "sendA", "wait"}
  /\ s2mm \in {"idle", "running"}
  /\ Len(mem) <= RECV_BEATS

(* The result region fills with the header of the last block and then every *)
(* block's tile in block row-major order, TLAST on the last beat only; when *)
(* the host collects, all of it is there (unpack_C relies on both).         *)
RowMajorResult ==
  /\ InOrder(mem)
  /\ s2mm = "idle" /\ host.pc = "wait" => Len(mem) = RECV_BEATS

(* run_tiles waits for S2MM only: it never asks a block whether it is done.  *)
(* Yet when it goes on to the next tile every block is at rest, no start can *)
(* be lost, and no word of the old tile is left anywhere in the mesh.        *)
CleanHandover ==
  host.pc = "arm" =>
     /\ \A b \in Blocks : AtRest(b)
     /\ \A c \in Links : chan[c] = << >>

(* Every tile the host sends comes back, for ever: the mesh never deadlocks. *)
Progress == []<>(host.pc = "arm")
=============================================================================
