------------------------------ MODULE HostTiles ------------------------------
(***************************************************************************)
(* What the host does to matrices before and after the accelerator          *)
(* (sa_grid_host.ipynb:74-202): frames packed into beats, a product split   *)
(* into tile products, beats unpacked and accumulated into C. Accelerator   *)
(* is what the grid makes of one tile, values and word widths included.     *)
(*                                                                         *)
(* OPW is the width of an operand, 16 bits in the program; an accumulator   *)
(* has twice that.                                                          *)
(***************************************************************************)
EXTENDS Matrices, Sequences, SequencesExt

CONSTANTS PE, R, S, K, OPW,
          AMAX      \* bound of the operands, 1000 in the program

ASSUME TileAssumption ==
  /\ PE \in Nat /\ PE > 0 /\ PE % 2 = 0
  /\ R \in 1 .. 16 /\ S \in 1 .. 16
  /\ K \in Nat \ {0} /\ OPW \in Nat \ {0} /\ AMAX \in Nat
  /\ (PE * OPW) % 8 = 0                                 \* a beat is whole bytes

N == R * PE
NC == S * PE
W == PE * OPW                       \* bits of a beat
ACCW == 2 * OPW                     \* bits of an accumulator
APB == W \div ACCW
CBEAT == (PE * PE) \div APB

B_BEATS == S * (1 + K)
A_BEATS == R * (1 + K)
RECV_BEATS == 1 + R * S * CBEAT

TM == N
TP == NC
TK == K
-----------------------------------------------------------------------------
(* Beats *)

(* 2 to the n, for the shifts. *)
pow2[n \in Nat] == IF n = 0 THEN 1 ELSE 2 * pow2[n - 1]

Bits(word, low, width) == (word \div pow2[low]) % pow2[width]

Signed(word, width) == IF word >= pow2[width - 1] THEN word - pow2[width] ELSE word

(* Parts of one width in a word, the low part first. *)
Joined(parts, width) == SumFunction([n \in DOMAIN parts |-> parts[n] * pow2[width * n]])

hdr(type, dst_r, dst_s, ln) == [type |-> type, dst |-> <<dst_r, dst_s>>, len |-> ln]

pack(vals) == [w |-> Joined([n \in DOMAIN vals |-> vals[n] % pow2[OPW]], OPW)]

(* A frame: a header and one beat for each k. *)
Frame(header, vals) == <<header>> \o [k \in 1 .. K |-> pack(vals[k - 1])]

bFrame(B, col) == Frame(hdr("B_FRAME", 0, col, K),
                        [k \in Upto(K) |-> [j \in Upto(PE) |-> B[k, col * PE + j]]])
aFrame(A, row) == Frame(hdr("A_FRAME", row, 0, K),
                        [k \in Upto(K) |-> [i \in Upto(PE) |-> A[row * PE + i, k]]])

build_stream(A, B) ==
  FlattenSeq([f \in 1 .. S |-> bFrame(B, f - 1)] \o [f \in 1 .. R |-> aFrame(A, f - 1)])

(* The grid: transfer 1 holds the B frames, transfer 2 the A frames; every  *)
(* PE multiplies signed operands into an accumulator of ACCW bits; C leaves *)
(* in row-major order of blocks, APB accumulators to a beat.                *)
Operand(beats, row, k) ==
  Signed(Bits(beats[(row \div PE) * (1 + K) + k + 2].w, OPW * (row % PE), OPW), OPW)

Accumulator(bBeats, aBeats, i, j) ==
  SumFunction([k \in Upto(K) |-> Operand(aBeats, i, k) * Operand(bBeats, j, k)]) % pow2[ACCW]

(* The n-th accumulator of a block. *)
OfBlock(bBeats, aBeats, block, n) ==
  Accumulator(bBeats, aBeats, (block \div S) * PE + n \div PE, (block % S) * PE + (n % PE))

CBeat(bBeats, aBeats, block, m) ==
  [w |-> Joined([x \in Upto(APB) |-> OfBlock(bBeats, aBeats, block, m * APB + x)], ACCW)]

Accelerator(bBeats, aBeats) ==
  <<hdr("C_DATA", R - 1, S - 1, 0)>>
  \o [n \in 1 .. R * S * CBEAT |-> CBeat(bBeats, aBeats, (n - 1) \div CBEAT, (n - 1) % CBEAT)]

UnpackUnsigned(word, m) == Bits(word, ACCW * m, ACCW)          \* no sign
UnpackWord(word, m) == Signed(Bits(word, ACCW * m, ACCW), ACCW)

(* The p-th value of the beats after the header. *)
Unpacked(beats, p) == UnpackWord(beats[2 + p \div APB].w, p % APB)

(* Where unpack_C finds cell (i, j): blocks row by row, each row by row. *)
Place(i, j) ==
  LET block == (i \div PE) * S + (j \div PE)
  IN  block * PE * PE + (i % PE) * PE + (j % PE)

unpack_C(beats) == Matrix(N, NC, LAMBDA i, j : Unpacked(beats, Place(i, j)))
-----------------------------------------------------------------------------
(* Tiles. A problem is its sizes and matrices. *)

IsFactor(M) ==
  /\ M.rows \in Nat \ {0} /\ M.cols \in Nat \ {0}
  /\ M.cell \in [Upto(M.rows) \X Upto(M.cols) -> -AMAX .. AMAX]

CeilDivFloor(x, y) == x \div y         \* forgets the ragged rest
CeilDiv(x, y) == -((-x) \div y)

Padded(M, rows, cols) == Matrix(rows, cols, LAMBDA i, j : IF i < M.rows /\ j < M.cols
                                                          THEN M.cell[i, j] ELSE 0)

Cut(M, row, col, rows, cols) == Matrix(rows, cols, LAMBDA i, j : M[row + i, col + j])

mt(A) == CeilDiv(A.rows, TM)
pt(B) == CeilDiv(B.cols, TP)
kt(A) == CeilDiv(A.cols, TK)

(* The tile products in the order of the three loops. *)
TileStream(A, B, i, j, k) ==
  LET Ap == Padded(A, mt(A) * TM, kt(A) * TK)
      Bp == Padded(B, kt(A) * TK, pt(B) * TP)
  IN  build_stream(Cut(Ap, i * TM, k * TK, TM, TK), Cut(Bp, k * TK, j * TP, TK, TP))

tile_streams(A, B) ==
  [n \in 1 .. mt(A) * pt(B) * kt(A) |->
     LET i == (n - 1) \div (pt(B) * kt(A))
         j == ((n - 1) \div kt(A)) % pt(B)
     IN  [stream |-> TileStream(A, B, i, j, (n - 1) % kt(A)), index |-> <<i, j>>]]

AssembleLast(all_beats, index, i, j) ==      \* assigns instead of adding
  LET mine == {n \in 1 .. Len(all_beats) : index[n] = <<i \div TM, j \div TP>>}
  IN  unpack_C(all_beats[Max(mine)])[i % TM, j % TP]

AssembleCell(all_beats, index, i, j) ==
  LET mine == {n \in 1 .. Len(all_beats) : index[n] = <<i \div TM, j \div TP>>}
  IN  SumFunction([n \in mine |-> unpack_C(all_beats[n])[i % TM, j % TP]])

assemble_C(all_beats, index, m, p) ==
  Matrix(m, p, LAMBDA i, j : AssembleCell(all_beats, index, i, j))
-----------------------------------------------------------------------------
(* An accumulator is wide enough for one tile, which the host asserts, and  *)
(* an operand for its value, which it does not.                             *)
ASSUME OverflowAssumption ==
  /\ TK * AMAX * AMAX < pow2[ACCW - 1]
  /\ AMAX < pow2[OPW - 1]
=============================================================================
