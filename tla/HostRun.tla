------------------------------- MODULE HostRun -------------------------------
(***************************************************************************)
(* run_tiles and the cell that calls it (sa_grid_host.ipynb:264-408): the   *)
(* tiles of one product go through the DMA buffer in chunks.  The processor *)
(* and the DMA do not see the same memory: what one writes reaches the      *)
(* other with the next sync of that region, and in the worst case not       *)
(* before.  Every wait may time out; the user then runs the cell again.     *)
(*                                                                         *)
(* The grid is taken whole: SaMesh is about how it gets from two transfers  *)
(* to one.  Addresses are byte offsets into the buffer.                     *)
(***************************************************************************)
EXTENDS HostTiles

CONSTANTS
  Jobs,         \* what the cell may be run with
  MAX_ATTEMPTS  \* how often the user runs it

(* A job: the factors, the size of the buffer, the caller's chunk (0 when   *)
(* not given), the number of passes, and how many uio nodes the FPGA has.   *)
ASSUME JobsAssumption ==
  /\ MAX_ATTEMPTS \in Nat
  /\ \A j \in Jobs :
       /\ {"A", "B", "size", "chunk", "runs", "found"} \subseteq DOMAIN j
       /\ j.size \in Nat /\ j.chunk \in Nat /\ j.runs \in Nat \ {0} /\ j.found \in Nat
       /\ IsFactor(j.A) /\ IsFactor(j.B) /\ j.A.cols = j.B.rows

VARIABLES
  call,       \* the job and the arguments made of it: nt, streams and index
  host,       \* where the cell is: pc, pass, c0, n, and the attempts made
  totals,     \* the number of passes timed
  collect,    \* collect of this pass, {} for None
  beats,      \* beats, {} for None
  C_hw,       \* the result, {} for None
  cpu, dev,   \* the buffer as the processor and as the DMA see it
  mm2s, s2mm, \* the running transfer of each channel: where, and how many beats
  mesh        \* the transfers the grid has received, and the blocks started

hostVars == <<call, host, totals, collect, beats, C_hw, cpu, dev, mm2s, s2mm, mesh>>
-----------------------------------------------------------------------------
wbytes == W \div 8
in_beats == B_BEATS + A_BEATS
per_tile == (in_beats + RECV_BEATS) * wbytes

(* The buffer, 4 MB in the program, holds a tile and its result.            *)
ASSUME BufferAssumption == \A j \in Jobs : j.size >= per_tile

AtLeastOne(n) == IF n < 1 THEN 1 ELSE n
Least(x, y) == IF x < y THEN x ELSE y

FitInput == AtLeastOne(((call.size * 9) \div 10) \div (in_beats * wbytes))
fit == AtLeastOne(((call.size * 9) \div 10) \div per_tile)
chunk == Least(IF call.chunk = 0 THEN fit ELSE call.chunk, Least(fit, call.nt))

OFF_IN == 0
OFF_CTile == in_beats * wbytes                  \* makes room for one tile
OFF_C == chunk * in_beats * wbytes

nc == Least(chunk, call.nt - host.c0)
p_in == OFF_IN + host.n * in_beats * wbytes
p_out == OFF_C  + host.n * RECV_BEATS * wbytes
-----------------------------------------------------------------------------
(* The buffer. *)

Region(off, n) == {off + i * wbytes : i \in Upto(n)}
ReadAt(mem, off, n) == [i \in 1 .. n |-> mem[off + (i - 1) * wbytes]]
WriteAt(mem, off, words) ==
  [a \in DOMAIN mem |-> IF a \in Region(off, Len(words))
                        THEN words[(a - off) \div wbytes + 1] ELSE mem[a]]
Sync(to, from, off, n) ==
  [a \in DOMAIN to |-> IF a \in Region(off, n) THEN from[a] ELSE to[a]]

Old(size) == [a \in Region(0, size \div wbytes) |-> [w |-> 0]]
NoTransfer == [at |-> 0, n |-> 0]
EmptyMesh  == [got |-> << >>, started |-> FALSE]
-----------------------------------------------------------------------------
(* The DMA and the grid. *)

Mm2sDone ==
  /\ mm2s.n > 0
  /\ mesh' = [mesh EXCEPT !.got = Append(@, ReadAt(dev, mm2s.at, mm2s.n))]
  /\ mm2s' = NoTransfer
  /\ UNCHANGED <<call, host, totals, collect, beats, C_hw, cpu, dev, s2mm>>

S2mmDone ==
  /\ s2mm.n > 0 /\ mesh.started /\ Len(mesh.got) = 2
  /\ dev' = WriteAt(dev, s2mm.at, Accelerator(mesh.got[1], mesh.got[2]))
  /\ s2mm' = NoTransfer
  /\ mesh' = EmptyMesh
  /\ UNCHANGED <<call, host, totals, collect, beats, C_hw, cpu, mm2s>>
-----------------------------------------------------------------------------
(* The cell *)

Call(j) ==
  LET ts == tile_streams(j.A, j.B)
  IN  [A |-> j.A, B |-> j.B, size |-> j.size, chunk |-> j.chunk, runs |-> j.runs,
       found |-> j.found, nt |-> Len(ts),
       streams |-> [n \in 1 .. Len(ts) |-> ts[n].stream],
       index   |-> [n \in 1 .. Len(ts) |-> ts[n].index]]

At(pc)   == host.pc = pc
Goto(pc) == host' = [host EXCEPT !.pc = pc]

(* The results are forgotten first; loading the firmware empties the grid   *)
(* and stops the DMA.                                                       *)
Configure ==
  /\ At("cell")
  /\ C_hw' = {} /\ beats' = {} /\ collect' = {} /\ totals' = 0
  /\ mm2s' = NoTransfer /\ s2mm' = NoTransfer /\ mesh' = EmptyMesh
  /\ Goto("detect")
  /\ UNCHANGED <<call, cpu, dev>>

Detect ==
  /\ At("detect")
  /\ Goto(IF call.found = R * S THEN "pass" ELSE "raised")
  /\ UNCHANGED <<call, totals, collect, beats, C_hw, cpu, dev, mm2s, s2mm, mesh>>

BeginPass ==
  /\ At("pass")
  /\ IF totals < call.runs
     THEN /\ collect' = IF beats = {} THEN {<< >>} ELSE {}
          /\ host' = [host EXCEPT !.pc = "write", !.c0 = 0]
          /\ UNCHANGED C_hw
     ELSE /\ C_hw' = {assemble_C(CHOOSE b \in beats : TRUE, call.index, call.A.rows, call.B.cols)}
          /\ Goto("done")
          /\ UNCHANGED collect
  /\ UNCHANGED <<call, totals, beats, cpu, dev, mm2s, s2mm, mesh>>

WriteChunk ==
  /\ At("write")
  /\ cpu' = WriteAt(cpu, OFF_IN, FlattenSeq(SubSeq(call.streams, host.c0 + 1, host.c0 + nc)))
  /\ Goto("sync")
  /\ UNCHANGED <<call, totals, collect, beats, C_hw, dev, mm2s, s2mm, mesh>>

SyncInputTile == Sync(dev, cpu, OFF_IN, in_beats)
SyncInput == Sync(dev, cpu, OFF_IN, nc * in_beats)

SyncForDevice ==
  /\ At("sync")
  /\ dev' = SyncInput
  /\ host' = [host EXCEPT !.pc = "arm", !.n = 0]
  /\ UNCHANGED <<call, totals, collect, beats, C_hw, cpu, mm2s, s2mm, mesh>>

StartS2mm ==
  /\ At("arm")
  /\ s2mm' = [at |-> p_out, n |-> RECV_BEATS]
  /\ Goto("start")
  /\ UNCHANGED <<call, totals, collect, beats, C_hw, cpu, dev, mm2s, mesh>>

StartBlocks ==
  /\ At("start")
  /\ mesh' = [mesh EXCEPT !.started = TRUE]
  /\ Goto("sendB")
  /\ UNCHANGED <<call, totals, collect, beats, C_hw, cpu, dev, mm2s, s2mm>>

StartMm2s(from, to, at, n) ==
  /\ At(from)
  /\ mm2s' = [at |-> at, n |-> n]
  /\ Goto(to)
  /\ UNCHANGED <<call, totals, collect, beats, C_hw, cpu, dev, s2mm, mesh>>

SendB == StartMm2s("sendB", "waitB", p_in, B_BEATS)
SendA == StartMm2s("sendA", "waitA", p_in + B_BEATS * wbytes, A_BEATS)

Awaited == [waitB |-> mm2s, waitA |-> mm2s, waitC |-> s2mm]

WaitMm2s(from, to) ==
  /\ At(from) /\ mm2s.n = 0
  /\ Goto(to)
  /\ UNCHANGED <<call, totals, collect, beats, C_hw, cpu, dev, mm2s, s2mm, mesh>>

(* The end of a tile, and the next. *)
WaitS2mm ==
  /\ At("waitC") /\ s2mm.n = 0
  /\ host' = [host EXCEPT !.pc = IF host.n + 1 < nc THEN "arm" ELSE "read", !.n = @ + 1]
  /\ UNCHANGED <<call, totals, collect, beats, C_hw, cpu, dev, mm2s, s2mm, mesh>>

TimeoutS2mm(pc) == pc = "waitC"           \* wait_mm2s without a limit
MayTimeOut(pc) == pc \in DOMAIN Awaited

(* The exception leaves run_tiles; the transfer stays where it is. *)
Timeout ==
  /\ MayTimeOut(host.pc) /\ Awaited[host.pc].n > 0
  /\ Goto("raised")
  /\ UNCHANGED <<call, totals, collect, beats, C_hw, cpu, dev, mm2s, s2mm, mesh>>

SyncResult == Sync(cpu, dev, OFF_C, nc * RECV_BEATS)

(* The chunk's results are read in the first pass only. *)
ReadChunk ==
  LET fo == ReadAt(SyncResult, OFF_C, nc * RECV_BEATS)
      tiles == [i \in 1 .. nc |-> SubSeq(fo, (i - 1) * RECV_BEATS + 1, i * RECV_BEATS)]
      last == host.c0 + chunk >= call.nt
  IN
  /\ At("read")
  /\ cpu' = IF collect = {} THEN cpu ELSE SyncResult
  /\ collect' = {c \o tiles : c \in collect}
  /\ beats' = IF last /\ collect # {} THEN collect' ELSE beats
  /\ totals' = IF last THEN totals + 1 ELSE totals
  /\ host' = [host EXCEPT !.pc = IF last THEN "pass" ELSE "write",
                          !.c0 = IF last THEN @ ELSE @ + chunk]
  /\ UNCHANGED <<call, C_hw, dev, mm2s, s2mm, mesh>>

(* The user runs the cell again. *)
Again ==
  /\ At("raised") /\ host.attempt < MAX_ATTEMPTS
  /\ host' = [host EXCEPT !.pc = "cell", !.attempt = @ + 1]
  /\ UNCHANGED <<call, totals, collect, beats, C_hw, cpu, dev, mm2s, s2mm, mesh>>

(* The sweep runs other factors on the same firmware and buffer, whatever   *)
(* the run before has left there. Its Ch is assigned before it is read.     *)
SweepSize ==
  /\ At("done")
  /\ \E j \in Jobs : j.size = call.size /\ j.found = call.found /\ call' = Call(j)
  /\ totals' = 0 /\ collect' = {} /\ beats' = {} /\ C_hw' = {}
  /\ host' = [host EXCEPT !.pc = "detect", !.c0 = 0]
  /\ UNCHANGED <<cpu, dev, mm2s, s2mm, mesh>>

-----------------------------------------------------------------------------
Init ==
  /\ \E j \in Jobs : call = Call(j) /\ cpu = Old(j.size) /\ dev = Old(j.size)
  /\ host = [pc |-> "cell", c0 |-> 0, n |-> 0, attempt |-> 0]
  /\ totals = 0 /\ collect = {} /\ beats = {} /\ C_hw = {}
  /\ mm2s = NoTransfer /\ s2mm = NoTransfer /\ mesh = EmptyMesh

Cell ==
  \/ Configure \/ Detect \/ BeginPass \/ WriteChunk \/ SyncForDevice
  \/ StartS2mm \/ StartBlocks \/ SendB \/ WaitMm2s("waitB", "sendA")
  \/ SendA \/ WaitMm2s("waitA", "waitC") \/ WaitS2mm \/ Timeout \/ ReadChunk

Next == Cell \/ Mm2sDone \/ S2mmDone \/ Again \/ SweepSize

Spec == Init /\ [][Next]_hostVars

(* The cell runs on; the hardware owes nothing, which is what the timeouts  *)
(* are for.                                                                 *)
FairSpec == Spec /\ WF_hostVars(Cell)
-----------------------------------------------------------------------------
(* What the cell ends with is the product of its own factors, whatever the  *)
(* ragged edges, the chunks, the passes and the caches; a cell that has     *)
(* raised leaves no result of an earlier one (nb:396).                      *)
ResultIsProduct ==
  /\ At("done") => C_hw = {Product(call.A, call.B)}
  /\ At("raised") => C_hw = {}

(* Every transfer stays inside the buffer, and the results never reach back *)
(* into the chunk's streams, which later passes and tiles still read        *)
(* (nb:300-304).                                                            *)
RegionsApart ==
  LET inputEnd == OFF_IN + nc * in_beats * wbytes IN
  /\ mm2s.n > 0 => mm2s.at >= OFF_IN /\ mm2s.at + mm2s.n * wbytes <= inputEnd
  /\ s2mm.n > 0 => s2mm.at >= inputEnd /\ s2mm.at + s2mm.n * wbytes <= call.size

(* The grid is never fed anything but this tile's stream, transfer by       *)
(* transfer: not a stream the processor still has in its cache, nor one of  *)
(* an earlier chunk (nb:315-317, 321).                                      *)
ReadsWhatWasWritten ==
  LET stream == call.streams[host.c0 + host.n + 1]
  IN  \A t \in 1 .. Len(mesh.got) :
        mesh.got[t] = IF t = 1 THEN SubSeq(stream, 1, B_BEATS)
                      ELSE SubSeq(stream, B_BEATS + 1, in_beats)

(* However the hardware behaves, the cell comes to an end: no wait is for   *)
(* ever (nb:328-331).                                                       *)
CellEnds == []<>(At("done") \/ At("raised"))
=============================================================================
