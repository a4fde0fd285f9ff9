# Systolic grid: TLA+ models, model checking and proofs

The program multiplies matrices on an `R x S` grid of identical `sa_grid` blocks,
each a `PE x PE` systolic array, that together behave as one `(R*PE) x (S*PE)`
array. The blocks are written in HLS C++ (`src/FPGA/hls_sources/.../sa_grid.cpp`,
`sa_grid.hpp`), synthesised to the Verilog beside it, wired into a mesh by block
designs, and driven through one DMA by Python notebooks
(`src/FPGA/sa_grid_host.ipynb` on one FPGA, `src/FPGA/sa_aurora_4node_host.ipynb`
on four). A separate part (`cpu_gpu`) runs the same products on the CPUs and GPUs of a
cluster (`full_experiments.ipynb`) and on one GPU (`matmul_mali400.py`).

Paths below are relative to `src/`; `sa_grid.cpp` stands for
`FPGA/hls_sources/sa_double_2by2/sa_double_2by2/sa_grid.cpp`. Comments in the modules
abbreviate `nb` for `sa_grid_host.ipynb`, `ex` for `full_experiments.ipynb`, `gm` for
`matmul_mali400.py`; the lines are those of the files as they are stored.

## 1. Inventory

| Part | State | Operations | Hard behaviour |
|---|---|---|---|
| `load` (`sa_grid.cpp:92`) | learned position, the header it has read ahead, loop counters | pick a port, frame groups, crossing, pass C on | reads two ports in an order that depends on what came first; must not read a header twice |
| `compute` (`:181`) | position, operand buffers, pipes, accumulators, step | receive operands, `STEP`, drain | steps when all four neighbours allow it; a beat in the wrong step is a wrong product |
| `store` (`:363`) | position, counters | forward frames, crossing, C of others, own C | one port, three kinds of traffic, TLAST only where the next reader expects it |
| internal FIFOs (`sa_grid.hpp:62-78`, `sa_grid_fifo_*_S.v`) | words, pointers, flags | push, pop | depth decides between progress and deadlock |
| `s_axi_control` (`sa_grid_control_s_axi.v`), driver `xsa_grid.c` | start, done, ready, idle, auto-restart, interrupt bits | register reads and writes | start on a busy block, clear on read, toggle on write |
| mesh wiring | links | move words | loops of waiting through reconvergent paths |
| host loop `run_tiles` (`sa_grid_host.ipynb:264`) and its cell (`:389`) | tile, chunk, pass, DMA channels, buffer regions in two views of memory | write, sync, arm, start, send B, send A, wait, read; run again | never asks the blocks whether they are done; chunks reuse the same regions; any wait may time out |
| tiling (`sa_grid_host.ipynb:74-202`) | none | split, pad, pack, unpack, accumulate | index arithmetic and word widths, ragged edges |
| Aurora host and design (`sa_aurora_4node_host.ipynb`, `sa_q4_top.tcl`) | four nodes, one DMA each, broadcasters | arm, start, push, read | a broadcaster waits for the slower of two readers |
| pipelined products (`full_experiments.ipynb:84`, `:1276`) | pieces dispatched, two buffers and a queue per engine, partial results | cut, scatter, pull, map, get, stack | the next piece is scattered while this one is computed; any call may raise or lose an engine |
| measuring cells (`:624`, `:1117`, `:1702`, `:2344`) | cluster, client, view, results | configure, start, install, set up GL, run, tear down, release | whatever fails, nodes and contexts must be released |
| EGL context (`matmul_mali400.py:349-495`) | seven resources of a process | ten calls to set up, seven to release | any call may fail half way |
| GL products (`matmul_mali400.py:265-856`) | textures, units, samplers, blending, framebuffer | upload, bind, draw, read; three ways in one context | each way inherits the state of the one before; bytes lose precision in every pass |

How they interact: the host writes the start bit of each block over AXI-Lite and
hands beats to the DMA; everything else is AXI-Stream. A frame enters block (0,0),
B frames travel right along row 0, A frames down along column 0, and the operands
cross the other way (A right, B down) one beat per step. C runs down and right to
the last block and leaves through the S2MM channel.

What makes each part correct:

* a block: it finds its own place, mistakes no beat for another, offers its
  neighbours exactly the traffic they expect in the order they expect it, and
  returns to rest without help;
* the array: every accumulator ends with its `K` products, each once;
* the mesh: no deadlock, results in row-major order of blocks, nothing left over
  between tiles, no start lost;
* the register file: one run for each start, done seen once;
* the host: no region of the buffer overlaps another, the grid sees what was written,
  tiling equals the product, and a failed attempt leaves no result behind;
* the experiments: the product is complete however it was shared out, no context is torn
  down under a running batch, and everything that was obtained is given back;
* the GL products: a draw samples its operands, and each product passes its own verification.

## 2. Modules

| Module | What it is |
|---|---|
| `SaGrid` | one action for each step of the three processes of every block, over named FIFOs and links |
| `SaTile` | one tile on any mesh: what the host sends, what comes back, position and framing properties |
| `SaMesh` | the blocks wired into a mesh on one FPGA, the DMA and `run_tiles` for ever |
| `SaMesh_proofs` | theorems about it, for every grid; the lemmas up to `OverRests` are about the blocks of `SaTile` alone |
| `AuroraMesh` | one block per node: broadcasters, Aurora links, a DMA per node, `run_tile` for ever |
| `SaBlockTb` | one block against neighbours that keep the promised order of traffic |
| `SystolicArray` | `STEP` of `compute` with symbolic operands, blocks stepping asynchronously |
| `MatMul` | the abstract product: each cell accumulates its `K` products in order, once |
| `SystolicArray_proofs` | theorems about `SystolicArray` |
| `StreamQueue` | the abstract stream, cycle by cycle: a bounded queue with a ready flag |
| `HlsFifo`, `RegSlice` | the FIFO and the AXI-Stream register slice of the Verilog, register by register |
| `HlsFifo_proofs`, `RegSlice_proofs` | theorems about them |
| `SaControl` | the control registers of a block, clock by clock, between the driver and the processes' start and done |
| `SaControl_proofs` | theorems about them, for start FIFOs of any depth |
| `Matrices` | matrices with their sizes, and the product |
| `HostTiles` | tiles, beats and words: what the host makes of matrices before and after the grid, and the grid's arithmetic |
| `HostRun` | `run_tiles` and the cell around it: buffer, caches, DMA channels, passes, timeouts, another attempt, the sweep |
| `SumTheorems` | lemmas for both parts: induction, sums, quotient and remainder, joined sequences |
| `HostRun_proofs` | theorems about `HostTiles` and `HostRun`, for every tile shape, buffer and problem |
| `EglContext` | `egl_init` and `egl_teardown`, call by call, for any number of processes |
| `TilePipeline` | the two pipelined functions of the experiments, their engines and requests |
| `Experiment` | a measuring cell: cluster, engines, contexts and results around `TilePipeline` |
| `Experiment_proofs` | theorems about `EglContext` and `Experiment`, for any number of processes and engines, any matrices and tiles |
| `GlMain` | `main()` of `matmul_mali400.py`: three products in one GL context |
| `MCSaMesh`, `MCAuroraMesh`, `MCHostRun` | constants of the runs |
| `MCStreams` | the FIFO or the slice, the initial state choosing; names the slice's properties `SliceInv`, `SliceIsQueue` and `Steady` |
| `MCSaBlockTb`, `MCSaLines` | one specification instantiated at two geometries, the initial state choosing |
| `MCCpuGpu` | a cell with its cluster, or `main()` by itself |

### SaGrid: processes, FIFOs, joint steps

`ld[b]`, `cp[b]` and `st[b]` are the three processes of block `b`: a program counter
named for the loop or statement it stands at, the learned position, and the loop
counters. `start[b]` is the pair of start bit and the block's own activity. `chan`
maps every FIFO inside a block and every link between blocks to the words in it.

A word is a header or a payload beat; the payload names what it is (kind of
traffic, owner, index) instead of carrying 32 bits. The model can therefore tell
every beat from every other, which is what `Framing` and `RowMajorResult` are
about. The processes never look at more of a beat than its header fields.

The C++ reads and writes streams one after the other. The synthesised pipelines do
not: all stream accesses of one iteration of a loop happen in one clock cycle or
not at all (`sa_grid_compute_Pipeline_STEP.v:1018`, `sa_grid_load.v:1225`). That
matters, since a joint step waits for *all* its ports. `Fire(reads, writes)` is that
rule, and every action of a loop body is one `Fire`. The two crossing loops, `CROSS`
and `XCROSS`, have two independent groups for each iteration and are two actions.

FIFO depths are those of the Verilog. A word moves between blocks through a link of
`LINK` words, which stands for the register slices at both ends and the AXI-Stream
wiring.

### SaMesh: the host loop

`HostArm`, `HostStart`, `HostSendB`, `HostSendA`, `HostCollect` are the statements of
the loop body at `sa_grid_host.ipynb:320-331`, in order, for ever. The starts are
written one block at a time, in any order. `Mm2sBeat` and `S2mmBeat` move one word; S2MM
ends at TLAST and reports an error if its buffer is full before. The DMA is external:
it is modelled from how the notebook uses it.

### AuroraMesh: one block per node

In `sa_q4_top.tcl` `out_down` of a block ends in an `axis_broadcaster`: one copy of each
word goes through a FIFO to Aurora (`DownLink`), one to the S2MM channel of the node's
own DMA (`DownDma`), and the next word waits until both have taken this one (`took`).
`out_right` goes to Aurora alone and stays a link as in `SaMesh`. With `TAP = TRUE`,
`SaGrid` gives `out_down` a channel of its own for this. A link stands for the sending
FIFO, the Aurora core and the receiving FIFO.

A DMA takes up to `SLACK` words into its stream input before S2MM needs them
(`skid`); how many is a matter of the vendor's core, so it is a constant. S2MM moves
words to memory only while it runs, and TLAST ends it. `ArmRecv`, `PushB`, `PushA` and
`ReadTail` are `arm_recv`, the two halves of `push_head`, and `read_tail` of the
notebook, in the order of `run_tile`, for ever. The words that the tail broadcasts to its
own downward link leave the mesh: where that link is cabled to is not in the repository.

### SaBlockTb: one block at the real geometry

The mesh at the real `K = 4`, `STEPS = 11` has too many interleavings to enumerate.
One block has not. The bench offers it, on each input, the sequence of beats that a
neighbour at that place sends, at any speed, and checks that the block offers on
each output exactly the sequence that *its* neighbours were assumed to send
(`KeepsPromise`), and that the run ends (`RunEnds`). It is the closed form of the
repository's own test bench `tb_sa_grid.cpp`, which does this for block (1,0) only.

Each process reads and writes blocking (except `PICK`, whose choice the position
fixes), so a block is a deterministic function of its input sequences; the promise
of each link follows from the promises on the links before it, from the corner
(0,0) outwards.

### SystolicArray: the arithmetic

The operands are symbols: `<<I, k>>` is `A[I][k]`. An accumulator is the *set* of
products added, each with the step of its addition, so that a product added twice
shows. `xa[b]` and `xb[b]` are the crossing beats on their way into block `b`, in
FIFOs of `PATH` words in all. `Step(b)` is one iteration of `STEP`: MAC, edges out,
shift, injection with the skew of the block's place. `TypeOK`, `Wavefront`,
`Accumulated`, `InFlight` are the invariant described in section 5.

### HlsFifo and RegSlice: what a stream is made of

`SaGrid` takes its FIFOs and links to be queues. These two modules show that the
Verilog behind them is one: each variable is a register, each conjunct of `Next` one
`always` block, and the inputs of a cycle (offered word, read, reset) are free. The
mapping to `StreamQueue` reads the words out of the registers: a shift register under
a moving address in `HlsFifo`, up to two words under a three-state machine in
`RegSlice`. In both, the flag that lets a producer write is a register, decided one
cycle before it is used. `ADDRS` is two to the width of `addr`, so a count can wrap.

### SaControl: the registers between driver and block

Each conjunct of `Next` is one `always` block of `sa_grid_control_s_axi.v`; a register is
the set of its bits that are 1, so that toggling is the symmetric difference. `Bus` has
the AXI-Lite handshakes, which matter: a call returns when its response is
taken, and only therefore is a bit that is a cycle old still recent enough. The
processes are their starts and ends: `load` starts on `ap_start`, puts a token into the
start FIFO of `compute` and of `store`, and a token stays until that process is done with
its run. When a process ends is free (`ends`), within what `SaGrid` shows of their
order (`MayEnd`). The depths of the two start FIFOs are constants, `COMPUTE_DEPTH` and
`STORE_DEPTH`. `Driver` is one thread that makes the calls of `xsa_grid.c`: mask,
read, write, return. The program around it is one of two kinds: `overlapping` waits for
"ready" before `Start` and may switch auto-restart on and off; `single` waits until the
block is idle and its interrupts are acknowledged. Both acknowledge only what they read.

The registers do *not* protect a program without these habits. `Start` over a start bit
that is still set is merged with it; a `done` of one of two overlapping runs is as good as
that of the other; and an interrupt raised again between the read of its status
and its acknowledgement is toggled away. `run_tiles` writes the start bits
without reading them, and is right only because of `CleanHandover`.

### HostTiles and HostRun: from matrices to transfers

`HostTiles` has the functions of the notebook under their names. A header keeps its
fields apart; operands and accumulators are packed into words of `PE * OPW` bits and taken
out again with their signs, as the code does it. `Accelerator` is what the grid makes of
a tile, wrap-around included: what it does in time is the matter of `SaMesh`.
`OverflowAssumption` at the end of the module says which operands are safe: its first half is
asserted by the notebook, its second is not. Sums are `SumFunction` of the community modules and
`pow2` is a recursive function, so that the module can be proved about.

`HostRun` takes its jobs as constants: the two factors (`IsFactor`: entries up to `AMAX`, the inner
sizes alike, as `tile_streams` asserts), and a buffer that holds a tile and its result
(`BufferAssumption`; it is 4 MB in the program, and below one tile `fit` would still be 1). It has a variable for each of the memory's two views (`cpu`, `dev`), and `Sync`
copies one region from one to the other. Nothing else does, which is the worst that a cache
can do. `mm2s` and `s2mm` are the transfers under way, `mesh` what the grid has been fed.
Each statement of the loop is an action. `Timeout` may strike at each of the three waits
and leaves channels and grid as they are; `Again` is the user who runs the cell again, which
loads the firmware and so empties both; `SweepSize` is the last cell, which does not.

### TilePipeline, Experiment, EglContext: the cluster

The client sends requests to engines; an engine serves them in order and answers each with
a value or an error. `run` is where the pipelined function is: `dispatch` is a scatter, a
pull and a `map_async`, so that the pieces' rows go to the engines, come back and go out
again as arguments. `queue[e]` and `buffers[e]` belong to the engine. `Get` waits for all
engines and adds their results to `C_blocks`. The two functions differ in what a piece is
(`Piece`), what an item of it is worth (`Compute`) and where a result goes
(`Contribution`). `one_row` is run cycle by cycle. `run_tile_gemm`, which the GPU worker
calls, is not in the repository's `matmul_mali400.py`; it is taken to multiply. Entries are
whole numbers: the program's are floating-point (`np.random.rand`, `:634`), and what the order of
its sums makes of their last bits is left out. `EnginesAssumption` asks for an engine, since `rc[:]`
raises without one, and `CellJobsAssumption` for what the cells do: at least one size, rectangular
factors that go together, and tiles and batches that are not empty.

`Experiment` is the cell around it. Each call of the cluster library may raise, before or
after its effect where both can be told apart; `RunLost` and `RemoteLost` are answers that
never come. `AfterTry` is where an exception leads: on the GPU the contexts are torn down
first. `EglContext` follows every process through the ten calls of the set-up; an engine
makes a step of it while it serves a request to initialise or to tear down.

### GlMain: three products in one context

`gl` holds the state of GL that one way leaves to the next: the active unit, what is bound
to each unit, the samplers of each program, blending, the framebuffer. A texel is addressed
by its coordinate as the shaders compute it. Textures and framebuffer hold bytes:
`stored_u8` truncates an operand, `Channel` turns an accumulator into a byte, and blending
adds bytes. Which way the GPU rounds is chosen in the initial state, for all channels
alike, which gives the smallest and the largest values it could produce. `glTexImage2D` is how GL
reads an array of bytes: row `i` from byte `i * Stride(cols)`, because `GL_UNPACK_ALIGNMENT` has
its default of 4 throughout (the program has no `glPixelStorei`), and a byte beyond the
array is a choice, the same value for all of them. At widths that are a multiple of four that is
the array. Results are read as RGBA, whose rows are always aligned. `ErrorOf` and
`verify_tolerance` count in exact fractions. The shader's own precision is not modelled.

## 3. Runs

| Run | What it shows | Bounds |
|---|---|---|
| `blocks` | every block of the 2 x 2 grid, at the geometry of the bitstream, and every kind of position of a 3 x 3 grid, interior and middle-edge blocks included, keeps the traffic its neighbours rely on; at the first geometry every run ends | `K=4`, `STEPS=11`, 4 accumulators, FIFO depths of the RTL, links of 2; `K=2`, `STEPS=3`, 2 accumulators for 3 x 3 |
| `mesh_2x2` | the whole mesh with host and DMA, tile after tile: position, framing, result order, clean hand-over | `K=1`, `STEPS=3`, crossing FIFOs and links of 1 |
| `lines` | a row and a column: frames forwarded through a block in the middle, and every tile comes back for ever | 3 blocks in a line, `K=2`, `STEPS=2`, one and two accumulators to a beat |
| `array_2x2` | every order of the blocks' steps gives exactly the product | `PE=2`, `K=4`, `PATH=4`, the bitstream's size |
| `aurora_2x1` | head and tail over Aurora: what comes back is right, links without flow control never fill | 2 x 1, which has vertical links only (`InLeft` of `LinksHold` is for wider meshes) and no node in between, so that no running channel is armed again; `K=1`, `STEPS=2`, links of one tile, `SLACK` of two tiles, after which the head stalls |
| `aurora_arm` | *violation*: the head's channel is never armed, the mesh halts | 2 x 1 with `K=4`, `STEPS=9`, FIFO depths of the program, `SLACK=4` |
| `aurora_absorb` | *violation*: a channel in between ends at the first TLAST | column of three, `K=2` |
| `streams` | the FIFO is a queue, shows its oldest word, never wraps; the slice is a queue of two words and keeps its offers | each by itself; depth 7, 3 address bits (the depth of `fwd_right`, `fwd_down`), two words; three words in the slice |
| `control` | one run for each start, idle means idle, every end of a run is reported; with one run at a time done is that of this run, and no interrupt event is lost | start FIFOs of 2 and 3, every timing of the bus and the processes, both kinds of program |
| `host` | what the cell ends with is the product or nothing; transfers stay in their regions; the grid is fed this tile's stream; the cell ends | `PE=2`, `2 x 1` blocks, 4-bit operands up to 7, 8-bit accumulators, ragged products of 5x3x2 and 3x3x3, buffers for one tile, for two and for all, two passes, one more attempt |
| `cpugpu` | a cell on two engines: the product is complete, contexts and nodes are released, nothing leaks, the cell ends, whatever is raised or lost; `main()`: each of the three ways passes its verification at sizes that are multiples of four | three kinds of cell with two sizes each, ragged tiles, a short last batch; `N` of 4, 12 and 24 with blocks of 3 and strips of 8: eight, four and, falling back, one pass of blocks, three of strips and, falling back, one |
| `gl_stride` | *violation*: at `MATMUL_N=6` a draw samples texels that are not its operands | `N=6`, limits 32 and 16 of the program |

Why the bounds are enough. The control of a block does not depend on values, only on
counts; `blocks` has the real counts. The small meshes have *shorter* FIFOs and
links than the hardware, one word in `mesh_2x2`. In a network of processes with
blocking reads and writes more room never removes a behaviour that progresses, so
this is the harder case for deadlock, and every loop still runs at least twice where
an index matters. `K` and `STEPS` are smaller than in the bitstream, which does not
change the order of traffic on a link. `host` needs a buffer of fewer tiles than the
product has, so that regions are used again, a last chunk that is shorter, and a tile that is
ragged on each side; its operands reach both ends of their range, so that each sign bit
matters. `cpugpu` needs more pieces than buffers on an engine, items that do not divide by the
number of engines, and an engine that gets none.

Two of the three violations are disagreements of the four-node notebook with what its comments
and the README say. `README.md:298` has the receive channel armed on every node, because
a broadcaster waits for it; `run_tile` arms `MID + [TAIL]`, never the head, whose block
sends A frames and B crossing down. And the "generous receive size" of `arm_recv` does
not let a node in between absorb what passes: the transfer ends with the first group,
at its TLAST. Both end with a broadcaster that stalls for ever once the DMA's stream
input is full. The deployment has not run (`README.md:323`), so no test would have shown it.

The third is about `MATMUL_N`. A comment has a texel equal to the byte of an entry
(`matmul_mali400.py:253`), and the limits of blocks and strips make room for sizes that divide neither
32 nor 16 (`:60`, `:68`). But GL takes each row of an image to begin at a multiple of four bytes, and
at a size like 6 shifts every row after the first and reads past the array. The sizes of `cpugpu` are
therefore multiples of four, as is the default of 64; a strip is 16 wide or as wide as `N`,
so no other width occurs.

Deadlock is checked in every run but six: the three of `AuroraMesh`, which does stop, and
`host`, `cpugpu` and `gl_stride`, where a cell and a program end. In `mesh_2x2` it is this
check that covers reconvergence, a block fed by two neighbours whose beats come from one corner:
nothing goes on for ever within a tile, so whatever stops the mesh is a deadlock. `Progress`
is checked on `lines`, where no block has both crossings; for the 2 x 2 mesh it takes too long.

Each property has a mutant of the code that breaks it (a FIFO one word short, a
header read twice, TLAST kept on a beat in the middle, frames sent in the other
order, one step too few, a skew without the block's offset, a sync of one tile instead of
the chunk, a strip bound to the wrong unit, a release that forgets a call). The mutated
operators stand beside the ones they replace.

## 4. Fairness

The blocks and the DMA are clocked circuits and the host is a loop that waits for the
DMA: a part that can move does. `FairSpec` asks less, weak fairness of the whole
next-state relation: the system does not rest while anything can move. It is
enough, because every part is finite within a tile.

`HostRun` asks less still: only the cell runs on (`WF(Cell)`). Transfers may stay
unfinished for ever, which is what the timeouts are for. In `cpugpu` the notebook's kernel,
every engine and `main()` each go on when they can; no call is obliged to succeed and no
answer to get lost. An engine that is asked does therefore answer, or the loss of it raises in the
client: that no wait is for a lost engine is assumed of ipyparallel, not checked.

## 5. Proofs

`SystolicArray_proofs`, for every `PE`, `R`, `S`, `K` and `PATH` greater than zero:

* `Invariance`: `IInv` is inductive. `Wavefront` says which operands each PE holds after
  the `t`-th step of its block: `A[I][t-1-I-J]` and `B[t-1-I-J][J]`, by *global* row and
  column. It is not inductive alone: what a block takes from its left neighbour depends
  on what is in the path. `InFlight` says that the path from the left holds as many
  beats as the neighbour is ahead, and that the `m`-th is the edge of the step in
  which it will be used. A step of the neighbour appends the next edge (by
  `Wavefront` of the neighbour), a step of the block takes the first.
* `DotProducts`: `ExactDotProduct` follows, because the farthest PE's last product is due
  in step `K + (N-1) + (NC-1)`, the last of `STEPS`.
* `CrossingConsumed`: no crossing beat is left when all blocks are done.
* `Refinement`: every step of a block is a step of `MatMul` or a stutter.

The lemmas on the way: arithmetic of the offsets (`Distribute`, `Scaled`, `Offsets`),
who is whose neighbour (`LeftNeighbour`, `UpperNeighbour`, `Neighbours`), the input of a
block (`LeftInput`, `UpperInput`), the pipes after the shift (`ShiftedWavefront`), the
one term a MAC adds (`MacTerm`), the paths after a step (`CrossingA`, `CrossingB`).

`SaMesh_proofs`, for every grid up to 16 x 16, every `K`,
`STEPS` and `ACCS`, and every depth of the crossing FIFOs and of the links, under the
assumptions `GeometryAssumption` and `MeshAssumption` (every place of the grid has a block, and
`out_down` goes to the block below): `MeshTypeOK`, `MeshSelfLocation`, `MeshFraming`,
`MeshRowMajorResult` and `MeshCleanHandover`, the invariants of `mesh_2x2`; `SelfLocation` and
`Framing` of `lines` are two of them at two geometries. The argument:

* *The words.* `Word(c, k)` is the `k`-th word of a tile on channel `c`: frames, then crossing,
  then C, with numbers that follow from the place of `c` in the grid (`FramesLeft`,
  `CUpBeats`, ...). What a block passes on at `k` is what its neighbour expects at `k`
  (`RightFrames`, `DownFrames`, `CNextUp`, `CNextLeft`, `EmittedBeat`).
* *The history.* `tk[c]` and `sn[c]` are how many words of this tile have been taken from `c` and
  sent to it. The specification does not keep them, so the invariant says that such counts
  exist (`Inv`), and every step has to give the next ones (`Past`). `AllHold`: a channel holds
  the words from `tk[c] + 1` to `sn[c]`, and no more than its depth.
* *The processes.* `LoadInv`, `ComputeInv` and `StoreInv` tell from where a process is how far its
  counts are. Each is `New`, `Busy` or `Over`: idle before a tile, idle after it, or
  somewhere between, and the two kinds of idle are told apart by the counts alone. For each
  action there is a lemma (`PickStep` ... `EmitCStep`) that its guard finds the word it expects
  and its step leads to a place where the counts fit; `LoadKept`, `ComputeKept` and
  `StoreKept` say that it touches no count of another process, and `BlockKeeps` that a
  step of a block therefore keeps `TileInv`.
* *The hand-over.* `TileInv` is inductive but does not say that blocks are done when the host has
  its result. `Upstream` does: a block that has sent its last word comes after all blocks
  whose results it gathered (`GatheredBy`), and the last block gathers all. So when
  the last word of the tail has reached memory every block is at rest, every
  count taken equals the count sent, and every channel is empty (`ArmedRests`); only then may
  the counts go back to zero, which is the one step of the host that is not an addition.
* *The host.* `HostInv` ties the transfers to the counts at the two ends of the mesh, and the start
  bits to the blocks. A start is lost if a block has not yet gone to rest; `Untouched` says
  it has.

`MeshFraming` is then read off: where a process is about to read, its counts tell the index of
the word at the port (`PickShows`, `FrameShows`, `CrossHeadersShow`, `CrossShows`, `CShows`,
`ComputeShows`).

`HlsFifo_proofs`, for every depth from 2, every address width that covers it and every
type of word: `Invariance` (the flags say exactly whether there is room and a word, the
address is the count minus one, no counter wraps), from it `Oldest`, and `Refinement`:
one clock edge takes the words read out of the shift register to the words of the
abstract queue (`WordsStep`), with a push, a pop, both, neither or a reset.
`RegSlice_proofs` has the same for the slice, and `Offer`: a word on offer stays.

`HostRun_proofs`, for every tile shape, operand width, problem, buffer, chunk, number of passes and
attempts, and whatever times out, under `TileAssumption`, `OverflowAssumption`, `JobsAssumption`
and `BufferAssumption`: `TilesRebuildProduct`, `CellComputesProduct` (`ResultIsProduct`),
`FedWhatWasWritten` (`ReadsWhatWasWritten`) and `BufferRespected` (`RegionsApart`), the three
invariants of `host`. The first half is about the operators of `HostTiles`:

* *Induction* (`SumTheorems`). No theorem of the library can be applied to a predicate here, so
  `LeastNat` gets a least number of every set of numbers from the well-foundedness of finite subsets, and
  `Induction` is about a set that has 0 and is closed under the successor. The recursive
  functions behind `SumFunction`, `FlattenSeq` and `pow2` are shown to exist in this way.
* *Sums*: one more term, equal terms, a sum in two parts or in `n` parts of `m` terms, zeros,
  bounds, other names for the indices.
* *Words*: a number has one quotient and one remainder; the `n`-th part of a word is what was put
  there (`pack`, `Joined`, `Bits`); two's complement and back.
* *A stream*: sequences of one length joined, so that beat `k` of frame `f` is at
  `f * (1 + K) + k + 1`; hence every operand the grid reads is the right entry of the right
  factor, no accumulator overflows, and what the host unpacks at `Place(i, j)` is
  accumulator `(i, j)`.
* *Tiles*: the tile products of one cell are `kt` neighbours in the order of the three loops,
  their terms are those of the padded product, and padding adds only zeros. This gives
  `TilesRebuildProduct`: what `assemble_C` makes of the results is the product.

The second half is the loop. `IInv` has four parts. `Placed`: where the cell is, with which job,
chunk and tile, and that the arguments are those of the job. `Phases`: which transfer may be
under way at each place and what the grid has been fed; a transfer belongs to tile `n` of the
chunk at `c0`, and neither moves while it may still be under way, timeouts and new attempts
included. `Data`: which streams and which results each of the two views of the buffer holds, from
`WriteChunk` through both syncs and every transfer of results. `Collected`: what has been read of the first
pass, and that a finished cell has the product and a raised one nothing. The bound on a
transfer needs `chunk <= fit` and, with room for one tile, `fit * per_tile <= size`; the result of
tile `n` must not touch the streams, nor the results of the tiles before it. There is one lemma
per action. That the read-back in the first pass is enough for all passes is part of what
`Collected` says. The candidate for `IInv` was model-checked on the instance of `host` first.

`Experiment_proofs` begins with the contexts (`EglContext`), for any number of processes:
`AlwaysGrounded` and `NeverLeaks`. What a process holds is told by where it is: before call `at` of the set-up exactly what the calls
before it obtain (`Got`), before step `at` of a release at most what is left to
release (`Left`). `CallStep` and `ReleaseStep` say that both are closed under `Needs`.

It goes on with the cell (`Experiment`), for any number of engines, sizes and matrices, under
`EnginesAssumption` alone: `BatchesHaveContexts` is
`NeverWithoutContext`, `NothingKept` is `Released`, and `CellsHoldGround` carries the two
results on contexts over to the cell, whose engines also end all at once. A batch finds its
context because of three things at once: what the client has sent so far, told by where the
cell is (`Sent`); that an engine serves in that order (`InOrder`: install, init, pieces,
teardown, and nothing after it); and what an answer tells of its engine when the client acts on
it later (`AnswerOK`: after a good answer to init the context stays ready until the teardown is
sent, after an answer to the teardown the queue is empty and the context is gone). `EngineOK`
and `AnswerOK` are about one engine apart from the state, so the lemmas `Replying`,
`ContextMoves`, `Sending` and `Moving` say what a step of an engine or of the client does to
one queue; `Quiet`, `SendStep` and `Restart` lift them to all engines, and every action of the
cell is one of these three.

The rest of it is `RecordedProducts`, which is `ProductComplete`, under `CellJobsAssumption` as well:
however many engines share a piece, whatever the shapes, the batch size and the matrices, and
whatever is raised or lost, a result that is recorded is the product. In four steps:

* *What an engine computes.* `OneRow`: in cycle `t` the element `j` of a row holds the products of
  the cycles before it, of which the one of cycle `s` is number `s - j` of the dot product; after
  `TOTAL_CYCLES` no product is missing.
* *What a piece comes back as.* `Gathered` and `PieceMade`: the parts that `scatter` makes, some of them
  empty, computed apart and joined in engine order, are the results of the whole piece.
* *What a piece adds.* `Adds` is what each tile has for one entry of `C`, in the order of the three loops,
  and `Done` the number of tiles in the pieces taken so far; `GainIs` says that the next piece
  adds the terms from `Done(i)` to `Done(i + 1)`, a short last batch included, and `AllTiles` that
  all of them are the entry. `StackedIs` puts the entries into place.
* *What is under way.* `RunInv` is the inductive invariant, on top of the one above. Each request and
  answer names the piece it is about, and its items or values are the part of that piece
  (`RequestFits`, `AnswerFits`). The buffer that is pulled from holds the part that was pushed,
  since a blocking call is with an engine or answered, not both, and only once
  (`OnlyOnce`, `Unasked`), whatever tasks are still queued; pieces are dispatched and taken in
  order (`PlanFits`), and the blocks hold what the pieces taken so far add (`BlocksFit`). None of this is
  kept once the run has raised, and nothing need be: no result is recorded then. The invariant was
  model-checked on the instance of `cpugpu` first.

`SaControl_proofs`, for start FIFOs of any depth, every timing of the bus and of the processes and
both kinds of program: the six invariants of `control`. None is inductive: what the program was
told says nothing of the block unless the answer still on its way is true as well. So the
invariant speaks of a bit from the moment the bus samples it (`Reading`), of a `Start` from
the read that precedes its write (`Unwritten`), and of the events known to the program or on
their way to it (`Known`). What keeps them true is that only a `Start` changes them for the
worse, and that it was waited for (`Waited`). The idle bit is a cycle late, and may be wrong
just while the response to the write of `Start` is out (`ToldInv`): the next call reads
after that. `DoneInv` has the two ways in which a run that ended is remembered, the done
bit and the restart status that has yet to become it. With one run at a time at most one token
is in the FIFO of `store`, none before `load` takes the start (`SingleInv`), so that an event
raised is never one still pending (`IsrNext`) and toggling only clears.

Liveness (`CompletesProduct`, `Progress`, `RunEnds`, `CellEnds`, `CellEndsToo`) is
model-checked only: the prover has no rule for fairness and ENABLED. So is `EveryWayPasses`, which
is about tolerances in fractions of bytes and is checked for a few sizes. The
mesh over Aurora (`TailResult`, `LinksHold`) and the bench of one block (`KeepsPromise`) stay
with TLC too: the bench shows by enumeration for one block what `BlockKeeps` shows for all, and
over Aurora a tile may start while words of the last are still under way, so that the
counts of one tile do not suffice.

## 6. Not modelled

* Single products in the arithmetic of `compute`: `SystolicArray` has symbols, and the
  wrap-around is in `HostTiles` for a whole tile.
* The floating-point format of the Mali shaders, whose accumulator loses more than the bytes
  do; the tolerances are checked against bytes only.
* `run_tile_gemm`, called at `full_experiments.ipynb:1266` and defined nowhere; what else the
  worker measures.
* The 5 s timeouts of `push_head` and `read_tail` (`sa_aurora_4node_host.ipynb:133`), which
  raise where `PushA` and `ReadTail` wait for ever, and running that cell again.
* Aurora link training, the status readout and the position register; where the tail's
  downward link is cabled to, whose words the model lets leave the mesh.
* The two `dview.pull` calls that print the renderers after `egl_init`
  (`full_experiments.ipynb:1756`); a failure there leads where one of the first scatter does.
* The DMA multiplexer of the Aurora design: its source is not in the repository.
* The `comutils` and `hyperfpga_cluster` libraries and ipyparallel: not in the repository,
  modelled from how the notebooks use them.
* Timing, memory statistics, plotting and printing. The count in "All runs complete"
  (`full_experiments.ipynb:1806`, `:2445`) is that of a list of another cell, and
  `sa_grid_host.ipynb:597` reuses the name `hdr`, so that `build_stream` fails if it is called
  after that cell: both are visible without a model.
* Generated VHDL (a second copy of the Verilog), simulation-only deadlock monitors,
  packaging and IP configuration.

## 7. Plan

1. Proofs: `TailResult` and `LinksHold` of `AuroraMesh` for every grid, on the lemmas of
   `SaMesh_proofs` about blocks, with counts that run on from tile to tile.
2. Composition of `HostRun` with `SaMesh`, in place of `Accelerator`.
