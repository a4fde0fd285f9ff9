----------------------------- MODULE Experiment -----------------------------
(***************************************************************************)
(* One measuring cell of full_experiments.ipynb around TilePipeline: for    *)
(* each matrix size a cluster is configured, started, used and released,    *)
(* and whatever is raised on the way must not keep the nodes or a GL        *)
(* context.  The three kinds of cell differ in their set-up (ex:624-694,    *)
(* 1117-1182, 1702-1806 and 2344-2445).  The cluster library is external:   *)
(* each of its calls may raise.                                             *)
(***************************************************************************)
EXTENDS TilePipeline

CONSTANT CellJobs     \* for each kind of cell, its jobs in order

(* A job: two factors that go together, the shape of a tile, and how many   *)
(* tiles make a batch. Its numbers are whole: rounding is left out.         *)
ASSUME CellJobsAssumption ==
  \A kind \in DOMAIN CellJobs :
    /\ Len(CellJobs[kind]) \in Nat \ {0}
    /\ \A n \in 1 .. Len(CellJobs[kind]) :
         LET j == CellJobs[kind][n] IN
         /\ j.kind = kind
         /\ IsMatrix(j.A) /\ IsMatrix(j.B) /\ j.A.cols = j.B.rows
         /\ {j.arr_M, j.arr_K, j.arr_N, j.batch_size} \subseteq Nat \ {0}

VARIABLES
  cell,    \* pc, size (the job's number), rc, dview, lost (the teardown's answer)
  cluster, \* the nodes held, the engines running
  results  \* the list that the cell fills

cellVars == <<pipeVars, cell, cluster, results>>

Kinds == DOMAIN CellJobs
-----------------------------------------------------------------------------
CellAt(pc) == cell.pc = pc
CellGoto(pc) == cell' = [cell EXCEPT !.pc = pc]

(* A call of the library that may raise before it has done anything. *)
MayRaise(pc, next, handler) ==
  /\ CellAt(pc)
  /\ CellGoto(next) \/ CellGoto(handler)

AfterTryAlike == "shutdown"
AfterTry == IF OnGpu THEN "teardown" ELSE "shutdown"

(* cpu1 only: outside the try, so an exception ends the cell. *)
ClearFirst ==
  /\ MayRaise("clear", "configure", "aborted")
  /\ UNCHANGED <<pipeVars, cluster, results>>

Configure ==
  /\ CellAt("configure")
  /\ \/ /\ CellGoto("start")
        /\ cluster' = [cluster EXCEPT !.nodes = TRUE]
     \/ /\ CellGoto(AfterTry)
        /\ UNCHANGED cluster
  /\ UNCHANGED <<pipeVars, results>>

(* start_and_connect may fail with its engines already running. *)
StartAndConnect ==
  /\ CellAt("start")
  /\ \/ /\ cell' = [cell EXCEPT !.pc = "view", !.rc = TRUE]
        /\ cluster' = [cluster EXCEPT !.engines = TRUE]
     \/ /\ CellGoto(AfterTry)
        /\ \E up \in BOOLEAN : cluster' = [cluster EXCEPT !.engines = up]
  /\ UNCHANGED <<pipeVars, results>>

(* rc[:] raises when no engine has registered.  In the finally block dview  *)
(* is then unbound, or the one of an earlier size; neither reaches an engine. *)
View ==
  /\ CellAt("view")
  /\ \/ cell' = [cell EXCEPT !.pc = IF OnGpu THEN "install" ELSE "begin", !.dview = TRUE]
     \/ CellGoto(AfterTry)
  /\ UNCHANGED <<pipeVars, cluster, results>>

(* A blocking call on all engines: sent, then answered, failed or lost.     *)
Remote(pc, waiting, what) ==
  /\ CellAt(pc)
  /\ Send(LAMBDA e : [what |-> what, id |-> <<what, 0>>])
  /\ CellGoto(waiting)
  /\ UNCHANGED <<job, run, buffers, answers, egl, cluster, results>>

RemoteDone(waiting, what, next, handler) ==
  /\ CellAt(waiting) /\ Answered(<<what, 0>>)
  /\ CellGoto(IF Failed(<<what, 0>>) THEN handler ELSE next)
  /\ UNCHANGED <<pipeVars, cluster, results>>

RemoteLost ==
  /\ cell.pc \in {"installing", "eglWait", "tearing"}
  /\ cell' = IF CellAt("tearing") THEN [cell EXCEPT !.pc = "shutdown", !.lost = TRUE]
             ELSE [cell EXCEPT !.pc = AfterTry]
  /\ UNCHANGED <<pipeVars, cluster, results>>

Install == Remote("install", "installing", "install")
Installed == RemoteDone("installing", "install", "egl", AfterTry)
InitEgl == Remote("egl", "eglWait", "init")
InitEglDoneAnyway == RemoteDone("eglWait", "init", "begin", "begin")
InitEglDone == RemoteDone("eglWait", "init", "begin", AfterTry)

BeginRun ==
  /\ CellAt("begin")
  /\ run' = Running
  /\ CellGoto("run")
  /\ UNCHANGED <<job, queue, buffers, answers, egl, cluster, results>>

(* The function returned: its result is recorded; or it raised. *)
EndRun ==
  /\ CellAt("run") /\ run.pc \in {"returned", "raised"}
  /\ CellGoto(AfterTry)
  /\ results' = IF run.pc = "returned"
                THEN Append(results, [size |-> cell.size, C |-> StackedC]) ELSE results
  /\ UNCHANGED <<pipeVars, cluster>>

(* finally: *)
SkipTeardown ==
  /\ CellAt("teardown") /\ ~(cell.rc /\ cell.dview)
  /\ CellGoto("shutdown")
  /\ UNCHANGED <<pipeVars, cluster, results>>

Teardown ==
  /\ cell.rc /\ cell.dview
  /\ Remote("teardown", "tearing", "teardown")

(* Whatever the teardown raises is only printed. *)
TeardownDoneClean == RemoteDone("tearing", "teardown", "shutdown", "tearing")
TeardownDone == RemoteDone("tearing", "teardown", "shutdown", "shutdown")

(* rc.shutdown() ends the engines, busy or not. *)
Shutdown ==
  /\ CellAt("shutdown")
  /\ IF ~cell.rc
     THEN /\ CellGoto("release")
          /\ UNCHANGED <<pipeVars, cluster>>
     ELSE \/ /\ CellGoto("stop")
             /\ cluster' = [cluster EXCEPT !.engines = FALSE]
             /\ queue' = [e \in Engine |-> << >>]
             /\ egl' = [p \in Process |-> IF p \in Engine THEN NoContext ELSE egl[p]]
             /\ UNCHANGED <<job, run, buffers, answers>>
          \/ /\ CellGoto("aborted")
             /\ UNCHANGED <<pipeVars, cluster>>
  /\ UNCHANGED results

StopCluster ==
  /\ MayRaise("stop", "release", "aborted")
  /\ UNCHANGED <<pipeVars, cluster, results>>

ReleaseCluster ==
  /\ CellAt("release")
  /\ \/ /\ CellGoto("next")
        /\ cluster' = [cluster EXCEPT !.nodes = FALSE]
     \/ /\ CellGoto("aborted")
        /\ UNCHANGED cluster
  /\ UNCHANGED <<pipeVars, results>>

Begin(kind, n) ==
  [pc |-> IF n > Len(CellJobs[kind]) THEN "ended"
          ELSE IF kind = "cpu1" THEN "clear" ELSE "configure",
   size |-> n, rc |-> FALSE, dview |-> FALSE, lost |-> FALSE]

(* The next size, with a cluster object and engines of its own. *)
NextSize ==
  LET n == cell.size + 1 IN
  /\ CellAt("next")
  /\ cell' = Begin(job.kind, n)
  /\ job' = IF n > Len(CellJobs[job.kind]) THEN job ELSE CellJobs[job.kind][n]
  /\ run' = NotRunning /\ queue' = [e \in Engine |-> << >>]
  /\ buffers' = NoBuffers /\ answers' = {}
  /\ cluster' = [cluster EXCEPT !.engines = FALSE]
  /\ egl' = [p \in Process |-> IF p \in Engine THEN NoContext ELSE egl[p]]
  /\ UNCHANGED results

Notebook ==
  \/ ClearFirst \/ Configure \/ StartAndConnect \/ View
  \/ Install \/ Installed \/ InitEgl \/ InitEglDone
  \/ BeginRun \/ EndRun
  \/ SkipTeardown \/ Teardown \/ TeardownDone
  \/ Shutdown \/ StopCluster \/ ReleaseCluster \/ NextSize

Client == Notebook \/ (RunStep /\ UNCHANGED <<cell, cluster, results>>)
Lost == RemoteLost \/ (RunLost /\ UNCHANGED <<cell, cluster, results>>)

Serve(e) == EngineStep(e) /\ UNCHANGED <<cell, cluster, results>>

CellNext == Client \/ Lost \/ \E e \in Engine : Serve(e)

CellInit ==
  /\ \E kind \in Kinds : job = CellJobs[kind][1] /\ cell = Begin(kind, 1)
  /\ run = NotRunning /\ queue = [e \in Engine |-> << >>]
  /\ buffers = NoBuffers /\ answers = {}
  /\ cluster = [nodes |-> FALSE, engines |-> FALSE]
  /\ results = << >>

CellSpec == EglInit /\ CellInit /\ [][CellNext]_cellVars

CellOver == CellAt("ended") \/ CellAt("aborted")
-----------------------------------------------------------------------------
(* A result that is recorded is the whole product of its own size: no tile  *)
(* lost, doubled or added to a neighbour's block, however the rows or tiles *)
(* are shared, with the next piece already under way (ex:182-228,           *)
(* 1309-1358).                                                              *)
ProductComplete ==
  \A n \in DOMAIN results :
    LET j == CellJobs[job.kind][results[n].size] IN results[n].C = Product(j.A, j.B)

(* No engine comes to a batch without its context: not when the set-up has  *)
(* failed on another engine or its answer was lost, nor when the run has    *)
(* failed with a batch already dispatched and the context is to be torn     *)
(* down (ex:1329, 1748, 1793).                                              *)
NeverWithoutContext ==
  OnGpu => \A e \in Engine : HasRequest(e, "task") => egl[e].pc = "ready"

(* Whatever is raised, and wherever, a size ends with the nodes released    *)
(* and, if the client ever had its engines, with these stopped; before that *)
(* every context is torn down that an answer could be had for.  Only an     *)
(* exception of the release itself may skip this (ex:687-691, 1789-1801).   *)
Released ==
  /\ CellAt("next") => ~cluster.nodes /\ (cluster.engines => ~cell.rc)
  /\ CellAt("shutdown") /\ ~cell.lost =>
       \A e \in Engine : egl[e].pc \notin {"ready", "init", "undoing", "teardown"}
=============================================================================
