------------------------------ MODULE MCCpuGpu ------------------------------
(* Either a cell of the notebook on a cluster of two engines or main() by    *)
(* itself. Products leave ragged tiles in every direction, and the last      *)
(* batch is a short one.                                                     *)
EXTENDS Experiment, GlMain

MCSized(rows, cols, step) == Sized(rows, cols, LAMBDA i, j : ((i * 5 + j * 3 + 1) * step) % 7)

MCJob(kind, rows, inner, cols) ==
  [kind |-> kind, A |-> MCSized(rows, inner, 1), B |-> MCSized(inner, cols, 3),
   arr_M |-> 2, arr_K |-> 2, arr_N |-> 2, batch_size |-> 3]

MCCellJobs ==
  [cpu1 |-> <<MCJob("cpu1", 3, 3, 2), MCJob("cpu1", 1, 1, 1)>>,
   cpu4 |-> <<MCJob("cpu4", 1, 1, 1), MCJob("cpu4", 2, 3, 3)>>,
   gpu  |-> <<MCJob("gpu", 3, 3, 3), MCJob("gpu", 1, 2, 1)>>]

(* Spread over all values, the highest included. *)
MCSpread(n, step) ==
  Sized(n, n, LAMBDA i, j : (SCALE * FINE - 1) - (((i * 307 + j * 191) * step) % (SCALE * FINE)))
MCA(n) == MCSpread(n, 1)
MCB(n) == MCSpread(n, 3)

Idle == [MainStart(1, "nearest") EXCEPT !.pc = "idle"]

NoGlMain == gl.pc = "idle"
CellKeeps == UNCHANGED <<job, run, queue, buffers, answers, cell, cluster, results>>

MCInit ==
  /\ EglInit /\ CellInit
  /\ gl = Idle \/ (MainInit /\ job.kind = "cpu1")

MCNext ==
  \/ NoGlMain /\ CellNext /\ UNCHANGED gl
  \/ ~NoGlMain /\ MainNext /\ CellKeeps

MCvars == <<cellVars, gl>>

(* The kernel runs the cell and every process its own program; nothing       *)
(* obliges a call to succeed, and nothing to get lost.                       *)
MCFairSpec ==
  /\ MCInit /\ [][MCNext]_MCvars
  /\ WF_MCvars(NoGlMain /\ Client /\ UNCHANGED gl)
  /\ \A e \in Engine : WF_MCvars(NoGlMain /\ Serve(e) /\ UNCHANGED gl)
  /\ WF_MCvars(~NoGlMain /\ MainNext /\ CellKeeps)
-----------------------------------------------------------------------------
(* Cell and main() come to an end whatever is raised: no wait of the client  *)
(* is for an answer to something it never asked, nor for an engine that has  *)
(* raised (ex:1332). That the answer of a lost engine raises in the client,  *)
(* and is not waited for, is the library's part and assumed.                 *)
CellEndsToo == <>(CellOver \/ MainOver)
=============================================================================
