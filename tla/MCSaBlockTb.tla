----------------------------- MODULE MCSaBlockTb -----------------------------
(***************************************************************************)
(* The bench at two geometries, the initial state choosing one: the 2 x 2   *)
(* grid of the bitstream, and a 3 x 3 grid, which has every kind of         *)
(* position. Every position takes its turn as the block under test.         *)
(***************************************************************************)
EXTENDS Integers

VARIABLES size, start, ld, cp, st, chan, dut, feed, seen

Two ==
  INSTANCE SaBlockTb WITH R <- 2, S <- 2, K <- 4, STEPS <- 11, ACCS <- 4, APB <- 1,
    CROSS <- 4, LINK <- 2, TAP <- FALSE, Blocks <- (0 .. 1) \X (0 .. 1)

Three ==
  INSTANCE SaBlockTb WITH R <- 3, S <- 3, K <- 2, STEPS <- 3, ACCS <- 2, APB <- 1,
    CROSS <- 2, LINK <- 2, TAP <- FALSE, Blocks <- (0 .. 2) \X (0 .. 2)

Init ==
  \/ size = 2 /\ Two!Init
  \/ size = 3 /\ Three!Init

Next ==
  /\ UNCHANGED size
  /\ \/ size = 2 /\ Two!Next
     \/ size = 3 /\ Three!Next

vars == <<size, Two!tbVars>>

(* Progress is asked at the geometry of the bitstream only. *)
FairSpec == Init /\ [][Next]_vars /\ WF_vars(size = 2 /\ Next)
-----------------------------------------------------------------------------
(* At both geometries the block sends nothing but the traffic promised for  *)
(* each of its links, and all of it (sa_grid.hpp:17).                       *)
KeepsPromise ==
  /\ size = 2 => Two!KeepsPromise
  /\ size = 3 => Three!KeepsPromise

(* At the geometry of the bitstream every run of the block ends, whatever   *)
(* the rates of its neighbours (sa_grid, sa_grid.cpp:421).                  *)
RunEnds == <>(size = 3 \/ Two!Quiet)
=============================================================================
