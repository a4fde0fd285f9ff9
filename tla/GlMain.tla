------------------------------- MODULE GlMain -------------------------------
(***************************************************************************)
(* main() of matmul_mali400.py: a product on the GPU in three ways, in one  *)
(* GL context whose state each way inherits from the one before.  A shader  *)
(* samples its operands out of textures; two of the three ways add up       *)
(* partial products in the framebuffer.                                     *)
(*                                                                         *)
(* Textures and framebuffer hold bytes.  A factor is a whole number of      *)
(* steps of 1 / (SCALE * FINE), so that storing it loses something.  The    *)
(* GPU may round a channel either way; error grows with the rounding, so    *)
(* rounding all channels down, or all up, are the worst of its choices.     *)
(* GL unpacks an uploaded image with its own idea of where a row begins,    *)
(* which is that of the array only if rows are a multiple of four bytes.    *)
(***************************************************************************)
EXTENDS Matrices, EglContext

CONSTANTS
  Sizes,                    \* MATMUL_N
  BLOCK_LIMIT, STREAM_LIMIT, \* 32 and 16 in the program
  SCALE, FINE,              \* 200 in the program; steps to a stored unit
  AnA(_), AnB(_)            \* the factors of a size, from 0 to below 1

VARIABLE gl

main == 0                   \* the process
Standard == "standard"
Block == "block"
Stream == "stream"
Programs == {Standard, Block, Stream}

N == gl.N
A == AnA(N)
B == AnB(N)

Fitting(limit) ==
  LET size == IF limit < N THEN limit ELSE N IN IF N % size = 0 THEN size ELSE N
BLOCK_SIZE == Fitting(BLOCK_LIMIT)
STREAM_TILE == Fitting(STREAM_LIMIT)

(* Tolerances and errors, in steps of 1 / (255 * (SCALE * FINE)^2).         *)
LSB == N * (SCALE * FINE)^2                   \* a step of a channel, N / 255
Greater(x, y) == IF x > y THEN x ELSE y
VERIFY_TOL == Greater((255 * (SCALE * FINE)^2) \div 20, 2 * LSB)
verify_tolerance(num_passes) == VERIFY_TOL + (num_passes - 1) * LSB
-----------------------------------------------------------------------------
(* Textures and shaders. The texel of a coordinate num/den is the nearest.  *)

NoTexture == "none"
Textures == {"A", "B", "stripA", "stripB"}

Texel(num, den, size) == IF (num * size) \div den < size THEN (num * size) \div den ELSE size - 1

texture2D(tex, s, t) ==
  gl.image[tex].cell[Texel(t[1], t[2], gl.image[tex].rows), Texel(s[1], s[2], gl.image[tex].cols)]

(* np.clip(mat * SCALE, 0, 255).astype(np.uint8) *)
LowerOf(x, y) == IF x < y THEN x ELSE y
stored_u8(M) == Sized(M.rows, M.cols, LAMBDA i, j : LowerOf(M.cell[i, j] \div FINE, 255))

(* GL takes a row to begin at the next multiple of UNPACK_ALIGNMENT, which  *)
(* no call of the program changes; the array has its rows without a gap.    *)
(* What GL reads past its end is whatever memory holds there.               *)
UNPACK_ALIGNMENT == 4
Stride(cols) == ((cols + UNPACK_ALIGNMENT - 1) \div UNPACK_ALIGNMENT) * UNPACK_ALIGNMENT
PastBytes == {0, 255}

glTexImage2D(pixels, past) ==
  LET Byte(at) == IF at < pixels.rows * pixels.cols
                  THEN pixels.cell[at \div pixels.cols, at % pixels.cols] ELSE past
  IN  Sized(pixels.rows, pixels.cols, LAMBDA i, j : Byte(i * Stride(pixels.cols) + j))

Centre(i, n) == <<2 * i + 1, 2 * n>>          \* (i + 0.5) / n

(* What the current program reads for its sampler u_A or u_B, times SCALE.  *)
(* A texel is a byte over 255, and u_scale is 255 / SCALE once it is set.   *)
Sampled(u, s, t) == texture2D(gl.bound[gl.sampler[gl.program][u]], s, t) * gl.scale[gl.program]

FRAG_SRC(row, col) ==
  MapThenSumSet(LAMBDA k : Sampled("u_A", Centre(k, N), Centre(row, N))
                           * Sampled("u_B", Centre(col, N), Centre(k, N)), Upto(N))

FRAG_SRC_BLOCK(row, col) ==
  MapThenSumSet(LAMBDA k : Sampled("u_A", Centre(gl.k + k, N), Centre(row, N))
                           * Sampled("u_B", Centre(col, N), Centre(gl.k + k, N)), Upto(BLOCK_SIZE))

FRAG_SRC_STREAM(row, col) ==
  MapThenSumSet(LAMBDA k : Sampled("u_A", Centre(k, STREAM_TILE), Centre(row, N))
                           * Sampled("u_B", Centre(col, N), Centre(k, STREAM_TILE)), Upto(STREAM_TILE))

FragColor(row, col) ==
  CASE gl.program = Standard -> FRAG_SRC(row, col)
    [] gl.program = Block    -> FRAG_SRC_BLOCK(row, col)
    [] gl.program = Stream   -> FRAG_SRC_STREAM(row, col)

(* acc / N as a byte. *)
Rounded(num, den) ==
  CASE gl.rounding = "down" -> num \div den
    [] gl.rounding = "nearest" -> (2 * num + den) \div (2 * den)
    [] gl.rounding = "up" -> -((-num) \div den)

Channel(acc) == LowerOf(Rounded(255 * acc, N * SCALE^2), 255)

(* glDrawArrays over the whole framebuffer, blended or not. *)
Drawn == Matrix(N, N, LAMBDA row, col :
           LowerOf(Channel(FragColor(row, col)) + (IF gl.blend THEN gl.fb[row, col] ELSE 0), 255))
-----------------------------------------------------------------------------
MainAt(pc) == gl.pc = pc
GlKeeps == UNCHANGED egl

(* check_gl, a compile or a link error: nobody catches it, the process ends. *)
MainRaises ==
  /\ gl.pc \in {"build", "uploadA", "uploadB", "read", "buildBlock", "readBlock", "buildStream",
                "newStrips", "stripA", "stripB", "readStream"}
  /\ gl' = [gl EXCEPT !.pc = "raised"]
  /\ ProcessEnds(main)

MainEgl ==
  /\ MainAt("egl")
  /\ IF egl[main].pc \in {"ready", "failed", "undone"}
     THEN /\ gl' = [gl EXCEPT !.pc = IF egl[main].pc = "ready" THEN "build" ELSE "raised"]
          /\ GlKeeps
     ELSE (BeginInit(main) \/ EglStep(main)) /\ UNCHANGED gl

(* build_program and glUseProgram; a new program's uniforms are zero. *)
BuildAndUse(from, prog, to) ==
  /\ MainAt(from)
  /\ gl' = [gl EXCEPT !.pc = to, !.program = prog]
  /\ GlKeeps

BindTo(unit, tex) == [gl EXCEPT !.active = unit, !.bound[unit] = tex]

(* upload_matrix_texture binds to the unit that is active. *)
Upload(from, tex, M, to) ==
  /\ MainAt(from)
  /\ \E past \in PastBytes :
       gl' = [gl EXCEPT !.pc = to, !.image[tex] = glTexImage2D(stored_u8(M), past), !.bound[gl.active] = tex]
  /\ GlKeeps

BindStandard ==
  /\ MainAt("bind")
  /\ gl' = [gl EXCEPT !.pc = "draw", !.active = 1, !.bound = [u \in {0, 1} |-> IF u = 0 THEN "A" ELSE "B"],
                      !.sampler[Standard] = [u_A |-> 0, u_B |-> 1], !.scale[Standard] = 1]
  /\ GlKeeps

Draw ==
  /\ MainAt("draw")
  /\ gl' = [gl EXCEPT !.pc = "read", !.fb = Drawn]
  /\ GlKeeps

(* read_gpu_result, after BLEND is off again; what the way made is deleted. *)
Read(from, prog, gone, to) ==
  /\ MainAt(from)
  /\ gl' = [gl EXCEPT !.pc = to, !.out[prog] = {gl.fb}, !.blend = FALSE,
                      !.bound = [u \in {0, 1} |-> IF gl.bound[u] \in gone THEN NoTexture ELSE gl.bound[u]]]
  /\ GlKeeps

NotCleared == gl.fb
Cleared == Matrix(N, N, LAMBDA row, col : 0)

BindBlock ==
  /\ MainAt("bindBlock")
  /\ gl' = [gl EXCEPT !.pc = "drawBlock", !.active = 1, !.bound = [u \in {0, 1} |-> IF u = 0 THEN "A" ELSE "B"],
                      !.sampler[Block] = [u_A |-> 0, u_B |-> 1], !.scale[Block] = 1,
                      !.fb = Cleared, !.blend = TRUE, !.k = 0]
  /\ GlKeeps

DrawBlock ==
  /\ MainAt("drawBlock")
  /\ gl' = [gl EXCEPT !.fb = Drawn, !.k = @ + BLOCK_SIZE,
                      !.pc = IF gl.k + BLOCK_SIZE < N THEN "drawBlock" ELSE "readBlock"]
  /\ GlKeeps

StripA(k) == Sized(N, STREAM_TILE, LAMBDA i, j : A.cell[i, k + j])
StripB(k) == Sized(STREAM_TILE, N, LAMBDA i, j : B.cell[k + i, j])

(* The first strips, both on the unit the block passes left active. *)
NewStrips ==
  /\ MainAt("newStrips")
  /\ \E pastA, pastB \in PastBytes :
       gl' = [gl EXCEPT !.pc = "stripA", !.image["stripA"] = glTexImage2D(stored_u8(StripA(0)), pastA),
                        !.image["stripB"] = glTexImage2D(stored_u8(StripB(0)), pastB),
                        !.bound[gl.active] = "stripB",
                        !.sampler[Stream] = [u_A |-> 0, u_B |-> 1], !.scale[Stream] = 1,
                        !.fb = Cleared, !.blend = TRUE, !.k = 0]
  /\ GlKeeps

UnitAlwaysFirst(tex) == 0
UnitOf(tex) == IF tex = "stripA" THEN 0 ELSE 1

UploadStrip(from, tex, M, to) ==
  /\ MainAt(from)
  /\ \E past \in PastBytes :
       gl' = [BindTo(UnitOf(tex), tex) EXCEPT !.pc = to, !.image[tex] = glTexImage2D(stored_u8(M), past)]
  /\ GlKeeps

DrawStream ==
  /\ MainAt("drawStream")
  /\ gl' = [gl EXCEPT !.fb = Drawn, !.k = @ + STREAM_TILE,
                      !.pc = IF gl.k + STREAM_TILE < N THEN "stripA" ELSE "readStream"]
  /\ GlKeeps

MainTeardown ==
  /\ MainAt("cleanup")
  /\ IF egl[main].pc = "gone"
     THEN gl' = [gl EXCEPT !.pc = "returned"] /\ GlKeeps
     ELSE (BeginTeardown(main) \/ EglStep(main)) /\ UNCHANGED gl

MainNext ==
  \/ MainRaises \/ MainEgl
  \/ BuildAndUse("build", Standard, "uploadA")
  \/ Upload("uploadA", "A", A, "uploadB") \/ Upload("uploadB", "B", B, "bind")
  \/ BindStandard \/ Draw \/ Read("read", Standard, {}, "buildBlock")
  \/ BuildAndUse("buildBlock", Block, "bindBlock")
  \/ BindBlock \/ DrawBlock \/ Read("readBlock", Block, {}, "buildStream")
  \/ BuildAndUse("buildStream", Stream, "newStrips") \/ NewStrips
  \/ UploadStrip("stripA", "stripA", StripA(gl.k), "stripB")
  \/ UploadStrip("stripB", "stripB", StripB(gl.k), "drawStream")
  \/ DrawStream \/ Read("readStream", Stream, {"stripA", "stripB"}, "cleanup")
  \/ MainTeardown

NoImage == [rows |-> 0, cols |-> 0, cell |-> << >>]

(* The window surface starts with whatever memory it was given. *)
MainStart(n, rounding) ==
  [pc |-> "egl", N |-> n, rounding |-> rounding, program |-> "", active |-> 0, bound |-> [u \in {0, 1} |-> NoTexture],
   image |-> [t \in Textures |-> NoImage],
   sampler |-> [p \in Programs |-> [u_A |-> 0, u_B |-> 0]], scale |-> [p \in Programs |-> 0],
   blend |-> FALSE, k |-> 0, fb |-> Matrix(n, n, LAMBDA i, j : 7),
   out |-> [p \in Programs |-> {}]]

MainInit == \E n \in Sizes, rounding \in {"down", "nearest", "up"} : gl = MainStart(n, rounding)

MainOver == MainAt("returned") \/ MainAt("raised")
-----------------------------------------------------------------------------
(* The inner indices a draw adds up, each with where it samples them. *)
SampledInner ==
  CASE MainAt("draw")       -> {<<k, Centre(k, N)>> : k \in Upto(N)}
    [] MainAt("drawBlock")  -> {<<gl.k + k, Centre(gl.k + k, N)>> : k \in Upto(BLOCK_SIZE)}
    [] MainAt("drawStream") -> {<<gl.k + k, Centre(k, STREAM_TILE)>> : k \in Upto(STREAM_TILE)}
    [] OTHER -> {}

(* "texture2D(...).r ... equals mat_val*SCALE/255" (gm:253): what a draw    *)
(* samples are the bytes of the entries it multiplies, for full textures as *)
(* for strips, and whatever N is (upload_matrix_texture, gm:587).           *)
SamplesAreOperands ==
  \A x \in SampledInner, i \in Upto(N) :
    /\ Sampled("u_A", x[2], Centre(i, N)) = A.cell[i, x[1]] \div FINE
    /\ Sampled("u_B", Centre(i, N), x[2]) = B.cell[x[1], i] \div FINE

Passes(prog) ==
  CASE prog = Standard -> 1 [] prog = Block -> N \div BLOCK_SIZE [] prog = Stream -> N \div STREAM_TILE

(* read_gpu_result decodes a byte to byte / 255 * N. *)
ErrorOf(C, row, col) ==
  LET diff == C[row, col] * LSB - 255 * Product(A, B)[row, col]
  IN  IF diff < 0 THEN -diff ELSE diff

(* Each of the three ways reads back the product, as near to it as the      *)
(* program tolerates, whatever units, samplers, blending and framebuffer    *)
(* the one before has left, and however the GPU rounds (gm:38-53, 624-706,  *)
(* 781-805).                                                                *)
EveryWayPasses ==
  /\ \A p \in Programs : \A C \in gl.out[p] :
       \A rc \in DOMAIN C : ErrorOf(C, rc[1], rc[2]) <= verify_tolerance(Passes(p))
  /\ MainAt("returned") => \A p \in Programs : gl.out[p] # {}
=============================================================================
