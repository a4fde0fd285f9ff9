------------------------------ MODULE MCSaLines ------------------------------
(***************************************************************************)
(* The meshes that are one block wide: a row and a column of three, in      *)
(* which the block in the middle forwards frames that are not for it. The   *)
(* initial state chooses one of the two.                                    *)
(***************************************************************************)
EXTENDS Integers

VARIABLES shape, start, ld, cp, st, chan, host, mm2s, s2mm, mem

Row ==
  INSTANCE SaMesh WITH R <- 1, S <- 3, K <- 2, STEPS <- 2, ACCS <- 1, APB <- 1,
    CROSS <- 1, LINK <- 1, TAP <- FALSE, Blocks <- {0} \X (0 .. 2)

Column ==                              \* two accumulators to a beat
  INSTANCE SaMesh WITH R <- 3, S <- 1, K <- 2, STEPS <- 2, ACCS <- 2, APB <- 2,
    CROSS <- 1, LINK <- 1, TAP <- FALSE, Blocks <- (0 .. 2) \X {0}

Init ==
  \/ shape = "row" /\ Row!Init
  \/ shape = "column" /\ Column!Init

Next ==
  /\ UNCHANGED shape
  /\ \/ shape = "row" /\ Row!Next
     \/ shape = "column" /\ Column!Next

vars == <<shape, Row!meshVars>>
FairSpec == Init /\ [][Next]_vars /\ WF_vars(Next)
-----------------------------------------------------------------------------
(* A block that forwards what came before the frame that is its own still   *)
(* finds its own place (load, sa_grid.cpp:120).                             *)
SelfLocation ==
  /\ shape = "row" => Row!SelfLocation
  /\ shape = "column" => Column!SelfLocation

(* Forwarded twice, every beat is still read as what it is (frame_group,    *)
(* sa_grid.cpp:43).                                                         *)
Framing ==
  /\ shape = "row" => Row!Framing
  /\ shape = "column" => Column!Framing

(* Every tile the host sends comes back, for ever (run_tiles,               *)
(* sa_grid_host.ipynb:320).                                                 *)
Progress == Row!Progress
=============================================================================
