----------------------------- MODULE AuroraMesh -----------------------------
(***************************************************************************)
(* The mesh with one block per node (sa_aurora_4node_host.ipynb, cell      *)
(* "Run", and the block design sa_q4_top.tcl).  Every node has a DMA of    *)
(* its own.  The words of out_down pass a broadcaster: one copy goes over  *)
(* Aurora to the node below, one to the node's own S2MM channel, and the   *)
(* next word waits for both.  The block of the head takes its in_left from *)
(* the DMA, the others take it from Aurora.                                *)
(***************************************************************************)
EXTENDS SaTile

CONSTANT SLACK   \* words the stream input of a DMA takes before S2MM needs them

ASSUME AuroraAssumption ==
  TAP /\ SLACK \in Nat \ {0} /\ Blocks = Position /\ Blocks # {<<0, 0>>}

VARIABLES
  host,   \* where run_tile is: pc and the nodes left to arm
  mm2s,   \* the head's running MM2S transfer
  took,   \* which outputs of each broadcaster have taken its current word
  skid,   \* the words inside each DMA's stream input
  s2mm,   \* "idle", "running" or "error": the S2MM channel of each node
  mem     \* what each S2MM channel has written since it was armed

auroraVars == <<blockVars, host, mm2s, took, skid, s2mm, mem>>

HEAD == <<0, 0>>
TAIL == <<R - 1, S - 1>>
MID  == Blocks \ {HEAD, TAIL}
-----------------------------------------------------------------------------
(* Broadcaster and Aurora *)

(* One output takes the word on out_down; the second to do so consumes it.  *)
OutputTakes(b, output) ==
  /\ HasWord(OutDown(b)) /\ output \notin took[b]
  /\ took' = [took EXCEPT ![b] = IF @ = {} THEN {output} ELSE {}]

Consumed(b) == IF took[b] = {} THEN {} ELSE {OutDown(b)}

(* M00: the FIFO to Aurora and the link below it.  What the node in the     *)
(* last row sends down belongs to no block of the mesh.                     *)
DownLink(b) ==
  /\ OutputTakes(b, "link")
  /\ Fire(Consumed(b), IF IsLastRow(b) THEN Nothing
                       ELSE Put(InUp(Below(b)), Head(chan[OutDown(b)])))
  /\ UNCHANGED <<start, ld, cp, st, host, mm2s, skid, s2mm, mem>>

(* M01: the stream input of the node's DMA. *)
DownDma(b) ==
  /\ OutputTakes(b, "dma")
  /\ Len(skid[b]) < SLACK
  /\ skid' = [skid EXCEPT ![b] = Append(@, Head(chan[OutDown(b)]))]
  /\ Fire(Consumed(b), Nothing)
  /\ UNCHANGED <<start, ld, cp, st, host, mm2s, s2mm, mem>>
-----------------------------------------------------------------------------
(* DMA *)

Mm2sBeat ==
  /\ mm2s # << >>
  /\ Fire({}, Put(InLeft(HEAD), Head(mm2s)))
  /\ mm2s' = Tail(mm2s)
  /\ UNCHANGED <<start, ld, cp, st, host, took, skid, s2mm, mem>>

(* TLAST ends the transfer, whatever its size. *)
S2mmBeat(b) ==
  LET w == Head(skid[b]) IN
  /\ s2mm[b] = "running" /\ skid[b] # << >>
  /\ skid' = [skid EXCEPT ![b] = Tail(@)]
  /\ mem' = [mem EXCEPT ![b] = Append(@, w)]
  /\ s2mm' = [s2mm EXCEPT ![b] = IF w.last THEN "idle"
                                 ELSE IF Len(mem'[b]) = RECV_BEATS THEN "error" ELSE @]
  /\ UNCHANGED <<blockVars, host, mm2s, took>>
-----------------------------------------------------------------------------
(* run_tile *)

Armed == MID \cup {TAIL}

(* arm_recv on one engine after the other, the tail's last: the channel is  *)
(* armed, then the block started.                                           *)
ArmRecv ==
  /\ host.pc = "arm"
  /\ \E b \in host.todo :
       /\ b = TAIL => host.todo = {TAIL}
       /\ s2mm' = [s2mm EXCEPT ![b] = "running"]
       /\ mem' = [mem EXCEPT ![b] = << >>]
       /\ ApStart(b)
       /\ host' = [host EXCEPT !.todo = @ \ {b},
                               !.pc = IF host.todo = {b} THEN "pushB" ELSE @]
  /\ UNCHANGED <<ld, cp, st, chan, mm2s, took, skid>>

(* push_head: the block of the head, then the B transfer, *)
PushB ==
  /\ host.pc = "pushB"
  /\ ApStart(HEAD)
  /\ mm2s' = BTransfer
  /\ host' = [host EXCEPT !.pc = "pushA"]
  /\ UNCHANGED <<ld, cp, st, chan, took, skid, s2mm, mem>>

(* and when that is over the A transfer. *)
PushA ==
  /\ host.pc = "pushA" /\ mm2s = << >>
  /\ mm2s' = ATransfer
  /\ host' = [host EXCEPT !.pc = "read"]
  /\ UNCHANGED <<blockVars, took, skid, s2mm, mem>>

(* read_tail, then the next tile. *)
ReadTail ==
  /\ host.pc = "read" /\ mm2s = << >> /\ s2mm[TAIL] # "running"
  /\ host' = [pc |-> "arm", todo |-> Armed]
  /\ UNCHANGED <<blockVars, mm2s, took, skid, s2mm, mem>>

Init ==
  /\ BlockInit
  /\ host = [pc |-> "arm", todo |-> Armed]
  /\ mm2s = << >>
  /\ took = [b \in Blocks |-> {}]
  /\ skid = [b \in Blocks |-> << >>]
  /\ s2mm = [b \in Blocks |-> "idle"]
  /\ mem = [b \in Blocks |-> << >>]

Next ==
  \/ \E b \in Blocks : Block(b) /\ UNCHANGED <<host, mm2s, took, skid, s2mm, mem>>
  \/ \E b \in Blocks : DownLink(b) \/ DownDma(b) \/ S2mmBeat(b)
  \/ Mm2sBeat
  \/ ArmRecv \/ PushB \/ PushA \/ ReadTail

Spec == Init /\ [][Next]_auroraVars

(* As in SaMesh: what can move does. *)
FairSpec == Spec /\ WF_auroraVars(Next)
-----------------------------------------------------------------------------
TypeOK ==
  /\ host.pc \in {"arm", "pushB", "pushA", "read"} /\ host.todo \subseteq Armed
  /\ \A c \in Channels : Len(chan[c]) <= Depth(c)
  /\ \A b \in Blocks :
       /\ took[b] \in SUBSET {"link", "dma"} /\ Cardinality(took[b]) <= 1
       /\ Len(skid[b]) <= SLACK
       /\ s2mm[b] \in {"idle", "running", "error"}
       /\ Len(mem[b]) <= RECV_BEATS

(* A tile that comes back is right: the tail's memory only ever holds the   *)
(* beginning of the gathered result, and all of it when read_tail returns,  *)
(* even if other nodes stall or keep words of earlier tiles.                *)
TailResult ==
  /\ InOrder(mem[TAIL])
  /\ s2mm[TAIL] # "running" /\ host.pc = "read" => Len(mem[TAIL]) = RECV_BEATS

(* The Aurora cores have no flow control (Flow_Mode None, sa_q4_top.tcl:288):*)
(* a word that finds the receiving FIFO full is lost.  It never does, since *)
(* the host sends a tile only when the last one is back: no link ever holds *)
(* more than the words of one tile, so LINK - 1 is never exceeded.          *)
LinksHold ==
  \A b \in Blocks \ {HEAD} : Len(chan[InLeft(b)]) < LINK /\ Len(chan[InUp(b)]) < LINK

(* "The receive channel is armed on every node, not only on the tail,       *)
(* because the downward output of each block passes through a stream        *)
(* broadcaster whose second output feeds the local receive channel"         *)
(* (README.md:298): no downward output stalls for ever.                     *)
EveryOutputDrains == \A b \in Blocks : []<>(~HasWord(OutDown(b)))

(* "generous receive size so a non-tail node absorbs pass-through traffic"  *)
(* (arm_recv): while words of a tile pass a node in between, its channel is *)
(* running.                                                                 *)
MidAbsorbs == \A b \in MID : HasWord(OutDown(b)) => s2mm[b] = "running"
=============================================================================
