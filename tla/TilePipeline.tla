---------------------------- MODULE TilePipeline ----------------------------
(***************************************************************************)
(* run_systolic_streaming_2_stages and run_systolic_gpu_batched_2_stages of *)
(* full_experiments.ipynb: the client of an ipyparallel cluster cuts a      *)
(* product into tiles and has engines compute them, dispatching one piece   *)
(* of work ahead of the one it waits for.  On CPUs a piece is a tile, whose *)
(* rows the engines share; on GPUs it is a batch of tiles.                  *)
(*                                                                         *)
(* An engine (ipyparallel, external) serves its requests in the order they  *)
(* were sent and answers each with a value or an error.                     *)
(***************************************************************************)
EXTENDS Matrices, EglContext, SequencesExt

CONSTANT ENGINES

Engine == 1 .. ENGINES

(* rc[:] raises when no engine has registered. *)
ASSUME EnginesAssumption == ENGINES \in Nat \ {0} /\ Engine \subseteq Process

VARIABLES
  job,     \* the cell's product: its kind, factors, tile shape and batch size
  run,     \* where the function is: pc, the pieces dispatched and awaited, C_blocks
  queue,   \* for each engine: requests sent to it and not yet served
  buffers, \* for each engine: its variables A_rows_ping and A_rows_pong
  answers  \* answers the client has not yet taken

pipeVars == <<job, run, queue, buffers, answers, egl>>
-----------------------------------------------------------------------------
(* Tiles *)

CeilTiles(size, tile) == (size + tile - 1) \div tile

n_row_tiles == CeilTiles(job.A.rows, job.arr_M)
n_col_tiles == CeilTiles(job.B.cols, job.arr_N)
n_k_tiles == CeilTiles(job.A.cols, job.arr_K)

Lower(x, y) == IF x < y THEN x ELSE y

CutFrom(M, row, col, rows, cols) ==
  Sized(Lower(rows, M.rows - row), Lower(cols, M.cols - col), LAMBDA i, j : M.cell[row + i, col + j])

Tile(m, c, k) ==
  [m |-> m, c |-> c,
   A |-> CutFrom(job.A, m * job.arr_M, k * job.arr_K, job.arr_M, job.arr_K),
   B |-> CutFrom(job.B, k * job.arr_K, c * job.arr_N, job.arr_K, job.arr_N)]

n_tiles == n_row_tiles * n_col_tiles * n_k_tiles
tile(n) == Tile(n \div (n_col_tiles * n_k_tiles), (n \div n_k_tiles) % n_col_tiles, n % n_k_tiles)
-----------------------------------------------------------------------------
(* Pieces of work: what is scattered over the engines. *)

OnGpu == job.kind = "gpu"

n_pieces == IF OnGpu THEN CeilTiles(n_tiles, job.batch_size) ELSE n_tiles

Row(t, r) == [t EXCEPT !.A = CutFrom(t.A, r, 0, 1, t.A.cols)]

batch(i) ==
  [x \in 1 .. Lower(job.batch_size, n_tiles - i * job.batch_size) |->
     tile(i * job.batch_size + x - 1)]

Piece(i) ==
  IF OnGpu THEN batch(i)
  ELSE [r \in 1 .. tile(i).A.rows |-> Row(tile(i), r - 1)]

(* scatter: as even as it can be, the longer parts first. *)
PartEnd(len, e) == e * (len \div ENGINES) + Lower(e, len % ENGINES)
Part(piece, e) == SubSeq(piece, PartEnd(Len(piece), e - 1) + 1, PartEnd(Len(piece), e))
-----------------------------------------------------------------------------
(* What an engine makes of one item. *)

CyclesUnskewed(K, N) == K
TOTAL_CYCLES(K, N) == K + N - 1

(* one_row: a row of A runs along N processing elements, one each cycle.    *)
one_row(a, B) ==
  LET K == B.rows
      N == B.cols
      a_in(a_reg, t, j) == IF j > 0 THEN a_reg[j - 1] ELSE IF t < K THEN a.cell[0, t] ELSE 0
      b_val(t, j) == IF t - j \in Upto(K) THEN B.cell[t - j, j] ELSE 0
      cycle(s, t) == [a_reg |-> [j \in Upto(N) |-> a_in(s.a_reg, t, j)],
                      P |-> [j \in Upto(N) |-> s.P[j] + a_in(s.a_reg, t, j) * b_val(t, j)]]
      zeros == [j \in Upto(N) |-> 0]
      after[t \in 0 .. TOTAL_CYCLES(K, N)] ==
        IF t = 0 THEN [a_reg |-> zeros, P |-> zeros] ELSE cycle(after[t - 1], t - 1)
  IN  after[TOTAL_CYCLES(K, N)].P

Compute(item) == IF OnGpu THEN Product(item.A, item.B) ELSE one_row(item.A, item.B)
-----------------------------------------------------------------------------
(* Engines *)

Reply(e, ok, value) ==
  answers' = answers \cup {[engine |-> e, id |-> Head(queue[e]).id, ok |-> ok, value |-> value]}
Answer(e, value) == Reply(e, TRUE, value)
Error(e) == Reply(e, FALSE, << >>)
Request(e) == Head(queue[e])
Served(e) == queue' = [queue EXCEPT ![e] = Tail(@)]

HasRequest(e, what) == queue[e] # << >> /\ Request(e).what = what

ServePush(e) ==
  /\ HasRequest(e, "push")
  /\ buffers' = [buffers EXCEPT ![e][Request(e).buf] = Request(e).items]
  /\ Answer(e, << >>) /\ Served(e)
  /\ UNCHANGED <<job, run, egl>>

ServePull(e) ==
  /\ HasRequest(e, "pull")
  /\ Answer(e, buffers[e][Request(e).buf]) /\ Served(e)
  /\ UNCHANGED <<job, run, buffers, egl>>

(* row_worker or gpu_tile_batch_worker_bundled; the latter needs a context. *)
ServeTask(e) ==
  LET items == Request(e).items IN
  /\ HasRequest(e, "task")
  /\ OnGpu => egl[e].pc = "ready"
  /\ Answer(e, [x \in DOMAIN items |-> Compute(items[x])]) /\ Served(e)
  /\ UNCHANGED <<job, run, buffers, egl>>

(* An exception in the engine; after egl_init it may still come from the    *)
(* statements that follow it.                                               *)
ServeFails(e) ==
  /\ queue[e] # << >> /\ Request(e).what # "teardown"
  /\ egl[e].pc \notin {"init", "undoing"}
  /\ Error(e) /\ Served(e)
  /\ UNCHANGED <<job, run, buffers, egl>>

(* _install_matmul_mali400 *)
ServeInstall(e) ==
  /\ HasRequest(e, "install")
  /\ Answer(e, << >>) /\ Served(e)
  /\ UNCHANGED <<job, run, buffers, egl>>

(* _egl_state = gpu.egl_init(), call by call. *)
ServeInit(e) ==
  /\ HasRequest(e, "init")
  /\ IF egl[e].pc \in {"ready", "failed", "undone"}
     THEN /\ Reply(e, egl[e].pc = "ready", << >>)
          /\ Served(e)
          /\ UNCHANGED egl
     ELSE /\ BeginInit(e) \/ EglStep(e)
          /\ UNCHANGED <<queue, answers>>
  /\ UNCHANGED <<job, run, buffers>>

(* gpu.egl_teardown( *_egl_state), a NameError where there is no state. *)
ServeTeardown(e) ==
  /\ HasRequest(e, "teardown")
  /\ IF egl[e].pc \in {"ready", "teardown"}
     THEN /\ BeginTeardown(e) \/ EglStep(e)
          /\ UNCHANGED <<queue, answers>>
     ELSE /\ Reply(e, egl[e].pc = "gone", << >>)
          /\ Served(e)
          /\ UNCHANGED egl
  /\ UNCHANGED <<job, run, buffers>>

EngineStep(e) ==
  \/ ServePush(e) \/ ServePull(e) \/ ServeTask(e) \/ ServeFails(e)
  \/ ServeInstall(e) \/ ServeInit(e) \/ ServeTeardown(e)
-----------------------------------------------------------------------------
(* The client *)

Send(Req(_)) == queue' = [e \in Engine |-> Append(queue[e], Req(e))]

To(id) == {x \in answers : x.id = id}
Answered(id) == {x.engine : x \in To(id)} = Engine
Failed(id) == \E x \in To(id) : ~x.ok
ValueOf(id, e) == (CHOOSE x \in To(id) : x.engine = e).value

buf(i) == i % 2

RunAt(pc) == run.pc = pc

(* dispatch(d): a blocking scatter, a blocking pull, an asynchronous map.   *)
Scatter ==
  /\ RunAt("scatter")
  /\ Send(LAMBDA e : [what |-> "push", id |-> <<"push", run.d>>, buf |-> buf(run.d),
                      items |-> Part(Piece(run.d), e)])
  /\ run' = [run EXCEPT !.pc = "scattered"]
  /\ UNCHANGED <<job, buffers, answers, egl>>

Scattered ==
  /\ RunAt("scattered") /\ Answered(<<"push", run.d>>) /\ ~Failed(<<"push", run.d>>)
  /\ Send(LAMBDA e : [what |-> "pull", id |-> <<"pull", run.d>>, buf |-> buf(run.d)])
  /\ answers' = answers \ To(<<"push", run.d>>)
  /\ run' = [run EXCEPT !.pc = "pulled"]
  /\ UNCHANGED <<job, buffers, egl>>

(* The values go out again as arguments; then on to the next piece, or to   *)
(* the wait for this one's predecessor.                                     *)
MapAsync ==
  LET id == <<"pull", run.d>> IN
  /\ RunAt("pulled") /\ Answered(id) /\ ~Failed(id)
  /\ Send(LAMBDA e : [what |-> "task", id |-> <<"task", run.d>>, items |-> ValueOf(id, e)])
  /\ answers' = answers \ To(id)
  /\ run' = [run EXCEPT !.pc = IF run.d = 0 /\ n_pieces > 1 THEN "scatter" ELSE "get",
                        !.d = @ + 1]
  /\ UNCHANGED <<job, buffers, egl>>

(* ar_current.get(), and the results into C_blocks. *)
all_results == FlattenSeq([e \in Engine |-> ValueOf(<<"task", run.i>>, e)])

Contribution(key) ==
  IF OnGpu
  THEN LET b == batch(run.i)
           mine == {x \in DOMAIN all_results : <<b[x].m, b[x].c>> = key}
       IN  [rc \in DOMAIN run.C_blocks[key] |->
              SumFunction([x \in mine |-> all_results[x][rc]])]
  ELSE [rc \in DOMAIN run.C_blocks[key] |->
          IF key = <<tile(run.i).m, tile(run.i).c>> THEN all_results[rc[1] + 1][rc[2]] ELSE 0]

Get ==
  LET id == <<"task", run.i>> IN
  /\ RunAt("get") /\ Answered(id) /\ ~Failed(id)
  /\ answers' = answers \ To(id)
  /\ run' = [run EXCEPT
       !.C_blocks = [key \in DOMAIN @ |-> [rc \in DOMAIN @[key] |-> @[key][rc] + Contribution(key)[rc]]],
       !.i = @ + 1,
       !.pc = IF run.i + 1 = n_pieces THEN "returned"
              ELSE IF run.d < n_pieces THEN "scatter" ELSE "get"]
  /\ UNCHANGED <<job, queue, buffers, egl>>

(* get() waits for every engine, then raises what one of them raised.       *)
RunRaises ==
  /\ \/ RunAt("scattered") /\ Answered(<<"push", run.d>>) /\ Failed(<<"push", run.d>>)
     \/ RunAt("pulled") /\ Answered(<<"pull", run.d>>) /\ Failed(<<"pull", run.d>>)
     \/ RunAt("get") /\ Answered(<<"task", run.i>>) /\ Failed(<<"task", run.i>>)
  /\ run' = [run EXCEPT !.pc = "raised"]
  /\ UNCHANGED <<job, queue, buffers, answers, egl>>

(* The connection breaks, or an engine is gone, while the client waits.     *)
RunLost ==
  /\ run.pc \in {"scattered", "pulled", "get"}
  /\ run' = [run EXCEPT !.pc = "raised"]
  /\ UNCHANGED <<job, queue, buffers, answers, egl>>

RunStep == Scatter \/ Scattered \/ MapAsync \/ Get \/ RunRaises

NotRunning == [pc |-> "off", d |-> 0, i |-> 0, C_blocks |-> << >>]

Running ==
  [pc |-> "scatter", d |-> 0, i |-> 0,
   C_blocks |-> [key \in Upto(n_row_tiles) \X Upto(n_col_tiles) |->
     Matrix(Tile(key[1], key[2], 0).A.rows, Tile(key[1], key[2], 0).B.cols, LAMBDA i, j : 0)]]

(* np.hstack and np.vstack of the blocks. *)
StackedC ==
  Matrix(job.A.rows, job.B.cols,
         LAMBDA i, j : run.C_blocks[<<i \div job.arr_M, j \div job.arr_N>>]
                                   [i % job.arr_M, j % job.arr_N])

NoBuffers == [e \in Engine |-> [b \in {0, 1} |-> << >>]]
=============================================================================
