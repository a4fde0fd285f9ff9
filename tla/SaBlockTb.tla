------------------------------ MODULE SaBlockTb ------------------------------
(***************************************************************************)
(* One block between neighbours that keep to the order of traffic the      *)
(* header file promises for each link (sa_grid.hpp:17):                     *)
(*     out_right :  B frames  ->  A crossing  ->  C                         *)
(*     out_down  :  A frames  ->  B crossing  ->  C                         *)
(* as tb_sa_grid.cpp drives block (1,0), but for a block at any position    *)
(* and against neighbours that offer and take words at any moment.          *)
(***************************************************************************)
EXTENDS SaGrid

VARIABLES
  dut,    \* the position of the block under test
  feed,   \* the words each input port is still to be offered
  seen    \* the words each output port has delivered

tbVars == <<blockVars, dut, feed, seen>>
-----------------------------------------------------------------------------
(* The promised traffic of the links that leave position p. *)

(* One header, then count tiles, the first tile's block being number first  *)
(* in block row-major order.                                                *)
CTraffic(p, first, count) ==
  [n \in 1 .. 1 + count * CBEAT |->
     IF n = 1 THEN Header("C_DATA", p)
     ELSE LET m == first + (n - 2) \div CBEAT
          IN  Payload("C_DATA", <<m \div S, m % S>>, (n - 2) % CBEAT,
                      n = 1 + count * CBEAT)]

RightTraffic(p) ==
  IF IsLastCol(p) THEN << >>
  ELSE (IF IsRow0(p)
          THEN Group("B_FRAME", [f \in 1 .. S-1-p[2] |-> <<0, p[2] + f>>], K) ELSE << >>)
       \o Group("A_CROSS", <<RightOf(p)>>, STEPS)
       \o CTraffic(p, p[1] * S, p[2] + 1)

DownTraffic(p) ==
  (IF IsCol0(p)
     THEN Group("A_FRAME", [f \in 1 .. R-1-p[1] |-> <<p[1] + f, 0>>], K) ELSE << >>)
  \o (IF IsLastRow(p) THEN << >> ELSE Group("B_CROSS", <<Below(p)>>, STEPS))
  \o (IF IsLastCol(p) THEN CTraffic(p, 0, (p[1] + 1) * S) ELSE << >>)

(* What arrives at position p: block (0,0) is fed by the host's DMA. *)
LeftTraffic(p) ==
  IF ~IsCol0(p) THEN RightTraffic(<<p[1], p[2] - 1>>)
  ELSE IF IsRow0(p) THEN Group("B_FRAME", [f \in 1 .. S |-> <<0, f - 1>>], K)
                         \o Group("A_FRAME", [f \in 1 .. R |-> <<f - 1, 0>>], K)
  ELSE << >>

UpTraffic(p) == IF IsRow0(p) THEN << >> ELSE DownTraffic(<<p[1] - 1, p[2]>>)
-----------------------------------------------------------------------------
Offer(side) ==
  /\ feed[side] # << >>
  /\ Fire({}, Put(<<side, dut>>, Head(feed[side])))
  /\ feed' = [feed EXCEPT ![side] = Tail(@)]
  /\ UNCHANGED <<start, ld, cp, st, dut, seen>>

Take(side) ==
  LET c == IF side = "right" THEN OutRight(dut) ELSE OutDown(dut) IN
  /\ Fire({c}, Nothing)
  /\ seen' = [seen EXCEPT ![side] = Append(@, Head(chan[c]))]
  /\ UNCHANGED <<start, ld, cp, st, dut, feed>>

Quiet ==
  /\ \A side \in DOMAIN feed : feed[side] = << >>
  /\ AtRest(dut) /\ \A c \in Links : chan[c] = << >>

Finished == Quiet /\ UNCHANGED tbVars

Init ==
  /\ dut \in Blocks
  /\ start = [b \in Blocks |-> b = dut]
  /\ ld = [b \in Blocks |-> LoadIdle]
  /\ cp = [b \in Blocks |-> ComputeIdle]
  /\ st = [b \in Blocks |-> StoreIdle]
  /\ chan = [c \in Channels |-> << >>]
  /\ feed = [left |-> LeftTraffic(dut), up |-> UpTraffic(dut)]
  /\ seen = [right |-> << >>, down |-> << >>]

Next ==
  \/ Block(dut) /\ UNCHANGED <<dut, feed, seen>>
  \/ \E side \in {"left", "up"} : Offer(side)
  \/ \E side \in {"right", "down"} : Take(side)
  \/ Finished

Spec == Init /\ [][Next]_tbVars
-----------------------------------------------------------------------------
FairSpec == Spec /\ WF_tbVars(Next)
-----------------------------------------------------------------------------
IsPrefixOf(s, t) == Len(s) <= Len(t) /\ \A n \in 1 .. Len(s) : s[n] = t[n]

(* Fed with the promised traffic, the block sends nothing but the promised  *)
(* traffic, word for word and TLAST for TLAST, and by the time it has taken *)
(* in everything and come to rest it has sent all of it                     *)
(* (tb_sa_grid.cpp:71 checks the counts of one block in one schedule).      *)
KeepsPromise ==
  /\ IsPrefixOf(seen.right, RightTraffic(dut))
  /\ IsPrefixOf(seen.down, DownTraffic(dut))
  /\ Quiet => seen = [right |-> RightTraffic(dut), down |-> DownTraffic(dut)]

(* Whatever the rates at which its neighbours offer and take words, a run   *)
(* of the block ends with all its input consumed and every FIFO empty.      *)
RunEnds == <>Quiet
=============================================================================
