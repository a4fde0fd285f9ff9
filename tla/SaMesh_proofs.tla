--------------------------- MODULE SaMesh_proofs ---------------------------
(***************************************************************************)
(* The mesh of SaMesh for every grid.                                      *)
(*                                                                         *)
(* First where every word of a tile is: the k-th word of a tile on a       *)
(* channel is a function of the channel and of k (Word), and the state of  *)
(* a process fixes how many words it has taken from and sent to each of    *)
(* its channels.  tk[c] and sn[c] are those numbers for the tile that is   *)
(* under way: a history that the specification does not keep, and that the *)
(* invariant says exists.  Up to OverRests this is about blocks and        *)
(* channels only.                                                          *)
(*                                                                         *)
(* Then what ties the blocks, the DMA and the host together: a block that  *)
(* has sent its result on comes after the blocks whose results it gathered *)
(* (Upstream), and the host comes after the last.                          *)
(***************************************************************************)
EXTENDS SaMesh, TLAPS

FrameWords(f) == f * (1 + K)      \* words of f frames
CBeats(m)     == m * CBEAT        \* beats of m blocks' tiles

-----------------------------------------------------------------------------
(* The words of a tile, channel by channel *)

Transfer(type) == IF type = "B_FRAME" THEN BTransfer ELSE ATransfer
Count(type)    == IF type = "B_FRAME" THEN S ELSE R
Own(type, p)   == IF type = "B_FRAME" THEN p[2] ELSE p[1]
Dest(type, q)  == IF type = "B_FRAME" THEN <<0, q>> ELSE <<q, 0>>

(* The k-th beat of C in block row-major order. *)
CWord(k, last) ==
  LET m == (k - 1) \div CBEAT
  IN  Payload("C_DATA", <<m \div S, m % S>>, (k - 1) % CBEAT, last)

(* What comes into position p: frames, crossing, C. *)
FramesLeft(p) ==
  IF ~IsRow0(p) THEN 0
  ELSE IF IsCol0(p) THEN FrameWords(S) + FrameWords(R)
  ELSE FrameWords(S) - FrameWords(p[2])

FramesUp(p) == IF IsCol0(p) /\ ~IsRow0(p) THEN FrameWords(R) - FrameWords(p[1]) ELSE 0

CrossLeftWords(p) == IF IsCol0(p) THEN 0 ELSE 1 + STEPS
CrossUpWords(p) == IF IsRow0(p) \/ p[1] = R THEN 0 ELSE 1 + STEPS

CLeftBeats(p) == CBeats(p[1] * S + p[2]) - CBeats(p[1] * S)
CUpBeats(p)   == IF IsLastCol(p) THEN CBeats(p[1] * S) ELSE 0

CLeftWords(p) == IF FromLeftC(p) THEN 1 + CLeftBeats(p) ELSE 0
CUpWords(p)   == IF FromUpC(p) THEN 1 + CUpBeats(p) ELSE 0

TotalLeft(p) == FramesLeft(p) + CrossLeftWords(p) + CLeftWords(p)
TotalUp(p)   == FramesUp(p) + CrossUpWords(p) + CUpWords(p)

LeftWord(p, k) ==
  LET f == FramesLeft(p) IN
  IF IsCol0(p) THEN (IF k <= FrameWords(S) THEN BTransfer[k] ELSE ATransfer[k - FrameWords(S)])
  ELSE IF k <= f THEN BTransfer[FrameWords(p[2]) + k]
  ELSE IF k = f + 1 THEN Header("A_CROSS", p)
  ELSE IF k <= f + 1 + STEPS THEN Payload("A_CROSS", p, k - f - 2, k = f + 1 + STEPS)
  ELSE IF k = f + 2 + STEPS THEN Header("C_DATA", <<p[1], p[2] - 1>>)
  ELSE CWord(CBeats(p[1] * S) + k - (f + 2 + STEPS), k = f + 2 + STEPS + CLeftBeats(p))

UpWord(p, k) ==
  LET f == FramesUp(p)
      x == CrossUpWords(p)
  IN  IF k <= f THEN ATransfer[FrameWords(p[1]) + k]
      ELSE IF x # 0 /\ k = f + 1 THEN Header("B_CROSS", p)
      ELSE IF k <= f + x THEN Payload("B_CROSS", p, k - f - 2, k = f + x)
      ELSE IF k = f + x + 1 THEN Header("C_DATA", <<p[1] - 1, p[2]>>)
      ELSE CWord(k - (f + x + 1), k = f + x + 1 + CUpBeats(p))

(* What C a block passes on before its own. *)
CFirst(p)  == IF IsLastCol(p) THEN 0 ELSE CBeats(p[1] * S)
CPassed(p) == CBeats(p[1] * S + p[2]) - CFirst(p)

FifoWord(f, p, k) ==
  CASE f = "bufA"     -> Payload("A_FRAME", p, k - 1, FALSE)
    [] f = "bufB"     -> Payload("B_FRAME", p, k - 1, FALSE)
    [] f = "fwdRight" -> BTransfer[FrameWords(p[2] + 1) + k]
    [] f = "fwdDown"  -> ATransfer[FrameWords(p[1] + 1) + k]
    [] f = "xaIn"     -> Payload("A_CROSS", p, k - 1, FALSE)
    [] f = "xbIn"     -> Payload("B_CROSS", p, k - 1, FALSE)
    [] f = "xaOut"    -> Payload("A_CROSS", RightOf(p), k - 1, FALSE)
    [] f = "xbOut"    -> Payload("B_CROSS", Below(p), k - 1, FALSE)
    [] f = "cMine"    -> Payload("C_DATA", p, k - 1, FALSE)
    [] f = "cPass"    -> CWord(CFirst(p) + k, k = CPassed(p))
    [] OTHER          -> p

Word(c, k) ==
  CASE c[1] = "left" -> LeftWord(c[2], k)
    [] c[1] = "up"   -> UpWord(c[2], k)
    [] OTHER         -> FifoWord(c[1], c[2], k)

Words == {Word(c, k) : c \in Channels, k \in Nat \ {0}}
-----------------------------------------------------------------------------
(* load: what it has taken and sent, by where it is *)

(* What the frames leave behind in the FIFOs of block b. *)
NoFrames(type, b, sn) ==
  IF type = "B_FRAME" THEN sn[<<"bufB", b>>] = 0 /\ sn[<<"fwdRight", b>>] = 0
                      ELSE sn[<<"bufA", b>>] = 0 /\ sn[<<"fwdDown", b>>] = 0

AllFrames(type, b, sn) ==
  IF type = "B_FRAME"
    THEN sn[<<"bufB", b>>] = K /\ sn[<<"fwdRight", b>>] = FrameWords(S) - FrameWords(b[2] + 1)
    ELSE sn[<<"bufA", b>>] = K /\ sn[<<"fwdDown", b>>] = FrameWords(R) - FrameWords(b[1] + 1)

FramesOver(b, sn) ==
  /\ IF IsRow0(b) THEN AllFrames("B_FRAME", b, sn) ELSE NoFrames("B_FRAME", b, sn)
  /\ IF IsCol0(b) THEN AllFrames("A_FRAME", b, sn) ELSE NoFrames("A_FRAME", b, sn)

NoCrossing(b, sn) == sn[<<"xaIn", b>>] = 0 /\ sn[<<"xbIn", b>>] = 0

CrossingOver(b, sn) ==
  /\ sn[<<"xaIn", b>>] = IF IsCol0(b) THEN 0 ELSE STEPS
  /\ sn[<<"xbIn", b>>] = IF IsRow0(b) THEN 0 ELSE STEPS

NothingSent(b, sn) ==
  /\ NoFrames("B_FRAME", b, sn) /\ NoFrames("A_FRAME", b, sn) /\ NoCrossing(b, sn)
  /\ sn[<<"cPass", b>>] = 0

(* In a group of frames: g words of the transfer are past, frame q is at hand. *)
InGroup(type, b, l, g, buf, fwd) ==
  \E q \in Own(type, b) .. Count(type) - 1 :
    LET own == Own(type, b) IN
    \/ /\ l.pc = "groupHeader" /\ l.fresh
       /\ q = own /\ l.h = Header(type, b) /\ g = FrameWords(q) + 1 /\ buf = 0 /\ fwd = 0
    \/ /\ l.pc = "groupHeader" /\ ~l.fresh
       /\ g = FrameWords(q)
       /\ buf = (IF q = own THEN 0 ELSE K)
       /\ fwd = (IF q = own THEN 0 ELSE FrameWords(q) - FrameWords(own + 1))
    \/ /\ l.pc = "forwardHeader" /\ ~l.fresh
       /\ q # own /\ l.h = Header(type, Dest(type, q)) /\ l.n = 0
       /\ g = FrameWords(q) + 1
       /\ buf = K /\ fwd = FrameWords(q) - FrameWords(own + 1)
    \/ /\ l.pc = "payload" /\ ~l.fresh
       /\ l.h = Header(type, Dest(type, q)) /\ l.n < K
       /\ g = FrameWords(q) + 1 + l.n
       /\ buf = (IF q = own THEN l.n ELSE K)
       /\ fwd = (IF q = own THEN 0 ELSE FrameWords(q) - FrameWords(own + 1) + 1 + l.n)

(* Of the words that the two transfers bring to b, how many of one's are past. *)
FrameLink(b) == IF IsRow0(b) THEN InLeft(b) ELSE InUp(b)

GroupWords(type, b, tk) ==
  IF type = "B_FRAME" THEN tk[InLeft(b)] + FrameWords(b[2])
  ELSE IF IsRow0(b) THEN tk[InLeft(b)] - FrameWords(S)
  ELSE tk[InUp(b)] + FrameWords(b[1])

Buf(type, b) == <<IF type = "A_FRAME" THEN "bufA" ELSE "bufB", b>>
Fwd(type, b) == <<IF type = "A_FRAME" THEN "fwdDown" ELSE "fwdRight", b>>

HasGroup(type, b) == IF type = "B_FRAME" THEN IsRow0(b) ELSE IsCol0(b)

(* While the group of one type passes: the frames of the other, the other port. *)
OtherFrames(type, b, tk, sn) ==
  IF type = "B_FRAME" THEN tk[InUp(b)] = 0 /\ NoFrames("A_FRAME", b, sn)
  ELSE IF IsRow0(b) THEN tk[InUp(b)] = 0 /\ AllFrames("B_FRAME", b, sn)
  ELSE tk[InLeft(b)] = 0 /\ NoFrames("B_FRAME", b, sn)

GroupsLeft(type, b) == IF type = "B_FRAME" /\ IsCol0(b) THEN 2 ELSE 1

LoadFrames(b, l, tk, sn) ==
  /\ l.picked /\ l.from = (IF IsRow0(b) THEN "left" ELSE "up") /\ l.nLeft = 0 /\ l.nUp = 0
  /\ NoCrossing(b, sn) /\ sn[<<"cPass", b>>] = 0
  /\ \E type \in {"A_FRAME", "B_FRAME"} :
       /\ HasGroup(type, b) /\ l.groups = GroupsLeft(type, b) /\ OtherFrames(type, b, tk, sn)
       /\ InGroup(type, b, l, GroupWords(type, b, tk), sn[Buf(type, b)], sn[Fwd(type, b)])

LoadCross(b, l, tk, sn) ==
  LET had(side) == IF ~l.picked /\ l.from = side THEN 1 ELSE 0 IN
  /\ (l.picked <=> (IsRow0(b) \/ IsCol0(b))) /\ l.from \in {"left", "up"}
  /\ ~(IsRow0(b) /\ IsCol0(b))
  /\ FramesOver(b, sn) /\ sn[<<"cPass", b>>] = 0
  /\ \/ /\ l.pc = "crossHeaders" /\ l.nLeft = 0 /\ l.nUp = 0
        /\ tk[InLeft(b)] = FramesLeft(b) + had("left")
        /\ tk[InUp(b)] = FramesUp(b) + had("up")
        /\ NoCrossing(b, sn)
     \/ /\ l.pc = "cross" /\ l.nLeft <= STEPS /\ l.nUp <= STEPS /\ ~CrossDone(b, l.nLeft, l.nUp)
        /\ tk[InLeft(b)] = FramesLeft(b) + (IF IsCol0(b) THEN 0 ELSE 1 + l.nLeft)
        /\ tk[InUp(b)] = FramesUp(b) + (IF IsRow0(b) THEN 0 ELSE 1 + l.nUp)
        /\ sn[<<"xaIn", b>>] = (IF IsCol0(b) THEN 0 ELSE l.nLeft)
        /\ sn[<<"xbIn", b>>] = (IF IsRow0(b) THEN 0 ELSE l.nUp)

LoadC(b, l, tk, sn) ==
  LET c     == sn[<<"cPass", b>>]
      left  == tk[InLeft(b)] - (FramesLeft(b) + CrossLeftWords(b))
      up    == tk[InUp(b)] - (FramesUp(b) + CrossUpWords(b))
  IN
  /\ FramesOver(b, sn) /\ CrossingOver(b, sn)
  /\ \/ l.pc = "cUpHeader" /\ FromUpC(b) /\ left = 0 /\ up = 0 /\ c = 0
     \/ l.pc = "cUp" /\ FromUpC(b) /\ left = 0 /\ up = 1 + c /\ c < CUpBeats(b)
     \/ l.pc = "cLeftHeader" /\ FromLeftC(b) /\ left = 0 /\ up = CUpWords(b) /\ c = CUpBeats(b)
     \/ /\ l.pc = "cLeft" /\ FromLeftC(b) /\ left = 1 + c - CUpBeats(b) /\ up = CUpWords(b)
        /\ CUpBeats(b) <= c /\ c < CPassed(b)

LoadNew(b, l, tk, sn) ==
  /\ NothingSent(b, sn) /\ sn[<<"posC", b>>] = 0 /\ sn[<<"posS", b>>] = 0
  /\ \/ l = LoadIdle /\ tk[InLeft(b)] = 0 /\ tk[InUp(b)] = 0
     \/ l = [LoadIdle EXCEPT !.pc = "pick"] /\ tk[InLeft(b)] = 0 /\ tk[InUp(b)] = 0
     \/ /\ l.pc = "sendPos" /\ l.at = b
        /\ (l.picked <=> (IsRow0(b) \/ IsCol0(b))) /\ l.nLeft = 0 /\ l.nUp = 0 /\ l.n = 0
        /\ \/ /\ l.from = "left" /\ tk[InLeft(b)] = 1 /\ tk[InUp(b)] = 0
              /\ ~IsCol0(b) \/ IsRow0(b)
              /\ l.h = IF IsRow0(b) THEN Header("B_FRAME", b) ELSE Header("A_CROSS", b)
           \/ /\ l.from = "up" /\ tk[InLeft(b)] = 0 /\ tk[InUp(b)] = 1
              /\ ~IsRow0(b)
              /\ l.h = IF IsCol0(b) THEN Header("A_FRAME", b) ELSE Header("B_CROSS", b)

LoadBusy(b, l, tk, sn) ==
  /\ l.at = b /\ sn[<<"posC", b>>] = 1 /\ sn[<<"posS", b>>] = 1
  /\ LoadFrames(b, l, tk, sn) \/ LoadCross(b, l, tk, sn) \/ LoadC(b, l, tk, sn)

LoadOver(b, l, tk, sn) ==
  /\ l = LoadIdle /\ sn[<<"posC", b>>] = 1 /\ sn[<<"posS", b>>] = 1
  /\ FramesOver(b, sn) /\ CrossingOver(b, sn) /\ sn[<<"cPass", b>>] = CPassed(b)
  /\ tk[InLeft(b)] = TotalLeft(b) /\ tk[InUp(b)] = TotalUp(b)

Headers == {Header(type, p) : type \in Types, p \in Position}

LoadStates ==
  [pc : {"idle", "pick", "sendPos", "groupHeader", "forwardHeader", "payload", "crossHeaders",
         "cross", "cUpHeader", "cUp", "cLeftHeader", "cLeft"},
   at : {NoPosition} \cup Position, h : {NoHeader} \cup Headers,
   from : {"none", "left", "up"}, picked : BOOLEAN, fresh : BOOLEAN, groups : 0 .. 2,
   n : Nat, nLeft : Nat, nUp : Nat]

LoadInv(b, l, tk, sn) ==
  /\ l \in LoadStates
  /\ LoadNew(b, l, tk, sn) \/ LoadBusy(b, l, tk, sn) \/ LoadOver(b, l, tk, sn)
-----------------------------------------------------------------------------
(* compute *)

Received(b, tk) ==
  /\ tk[<<"bufA", b>>] = IF IsCol0(b) THEN K ELSE 0
  /\ tk[<<"bufB", b>>] = IF IsRow0(b) THEN K ELSE 0

Stepped(b, n, tk, sn) ==
  /\ tk[<<"xaIn", b>>] = IF IsCol0(b) THEN 0 ELSE n
  /\ tk[<<"xbIn", b>>] = IF IsRow0(b) THEN 0 ELSE n
  /\ sn[<<"xaOut", b>>] = IF IsLastCol(b) THEN 0 ELSE n
  /\ sn[<<"xbOut", b>>] = IF IsLastRow(b) THEN 0 ELSE n

ComputeStates ==
  [pc : {"pos", "recvA", "recvB", "step", "drain"}, at : {NoPosition} \cup Position, n : Nat]

ComputeNew(b, l, tk, sn) ==
  /\ l = ComputeIdle /\ tk[<<"posC", b>>] = 0
  /\ tk[<<"bufA", b>>] = 0 /\ tk[<<"bufB", b>>] = 0 /\ Stepped(b, 0, tk, sn) /\ sn[<<"cMine", b>>] = 0

ComputeBusy(b, l, tk, sn) ==
  /\ l.at = b /\ tk[<<"posC", b>>] = 1
  /\ \/ /\ l.pc = "recvA" /\ IsCol0(b) /\ l.n < K
        /\ tk[<<"bufA", b>>] = l.n /\ tk[<<"bufB", b>>] = 0
        /\ Stepped(b, 0, tk, sn) /\ sn[<<"cMine", b>>] = 0
     \/ /\ l.pc = "recvB" /\ IsRow0(b) /\ l.n < K
        /\ tk[<<"bufA", b>>] = (IF IsCol0(b) THEN K ELSE 0) /\ tk[<<"bufB", b>>] = l.n
        /\ Stepped(b, 0, tk, sn) /\ sn[<<"cMine", b>>] = 0
     \/ /\ l.pc = "step" /\ l.n < STEPS
        /\ Received(b, tk) /\ Stepped(b, l.n, tk, sn) /\ sn[<<"cMine", b>>] = 0
     \/ /\ l.pc = "drain" /\ l.n < ACCS
        /\ Received(b, tk) /\ Stepped(b, STEPS, tk, sn) /\ sn[<<"cMine", b>>] = l.n

ComputeOver(b, l, tk, sn) ==
  /\ l = ComputeIdle /\ tk[<<"posC", b>>] = 1
  /\ Received(b, tk) /\ Stepped(b, STEPS, tk, sn) /\ sn[<<"cMine", b>>] = ACCS

ComputeInv(b, l, tk, sn) ==
  /\ l \in ComputeStates
  /\ ComputeNew(b, l, tk, sn) \/ ComputeBusy(b, l, tk, sn) \/ ComputeOver(b, l, tk, sn)
-----------------------------------------------------------------------------
(* store *)

FramesRight(b) == IF IsRow0(b) THEN FrameWords(S) - FrameWords(b[2] + 1) ELSE 0
FramesDown(b)  == IF IsCol0(b) THEN FrameWords(R) - FrameWords(b[1] + 1) ELSE 0

StoreStates ==
  [pc : {"pos", "frameRight", "frameDown", "headerRight", "headerDown", "cross", "cHeader",
         "cPass", "emit"},
   at : {NoPosition} \cup Position, n : Nat, nRight : Nat, nDown : Nat]

(* Frames and crossing: what is taken, and what is on the links. *)
Forwarded(b, right, down, tk) == tk[<<"fwdRight", b>>] = right /\ tk[<<"fwdDown", b>>] = down

Crossed(b, right, down, tk) ==
  /\ tk[<<"xaOut", b>>] = IF IsLastCol(b) THEN 0 ELSE right
  /\ tk[<<"xbOut", b>>] = IF IsLastRow(b) THEN 0 ELSE down

SentRight(b, x, c, sn) ==
  sn[OutRight(b)] = FramesRight(b) + (IF IsLastCol(b) THEN 0 ELSE x + c)
SentDown(b, x, c, sn) ==
  sn[OutDown(b)] = FramesDown(b) + (IF IsLastRow(b) THEN 0 ELSE x) + (IF IsLastCol(b) THEN c ELSE 0)

Gathering(b, pass, mine, tk) == tk[<<"cPass", b>>] = pass /\ tk[<<"cMine", b>>] = mine

StoreFrameInv(b, l, tk, sn) ==
  /\ Crossed(b, 0, 0, tk) /\ Gathering(b, 0, 0, tk) /\ l.nRight = 0 /\ l.nDown = 0
  /\ \/ /\ l.pc = "frameRight" /\ IsRow0(b) /\ tk[<<"fwdRight", b>>] < FramesRight(b)
        /\ tk[<<"fwdDown", b>>] = 0
        /\ sn[OutRight(b)] = tk[<<"fwdRight", b>>] /\ sn[OutDown(b)] = 0
     \/ /\ l.pc = "frameDown" /\ IsCol0(b) /\ tk[<<"fwdDown", b>>] < FramesDown(b)
        /\ tk[<<"fwdRight", b>>] = FramesRight(b)
        /\ sn[OutRight(b)] = FramesRight(b) /\ sn[OutDown(b)] = tk[<<"fwdDown", b>>]
     \/ /\ l.pc = "headerRight" /\ ~IsLastCol(b) /\ Forwarded(b, FramesRight(b), FramesDown(b), tk)
        /\ SentRight(b, 0, 0, sn) /\ SentDown(b, 0, 0, sn)
     \/ /\ l.pc = "headerDown" /\ ~IsLastRow(b) /\ Forwarded(b, FramesRight(b), FramesDown(b), tk)
        /\ SentRight(b, 1, 0, sn) /\ SentDown(b, 0, 0, sn)

StoreCrossInv(b, l, tk, sn) ==
  /\ l.pc = "cross" /\ l.nRight <= STEPS /\ l.nDown <= STEPS /\ ~StoreCrossDone(b, l.nRight, l.nDown)
  /\ Forwarded(b, FramesRight(b), FramesDown(b), tk)
  /\ Crossed(b, l.nRight, l.nDown, tk) /\ Gathering(b, 0, 0, tk)
  /\ SentRight(b, 1 + l.nRight, 0, sn) /\ SentDown(b, 1 + l.nDown, 0, sn)

StoreCInv(b, l, tk, sn) ==
  LET sent(c) == SentRight(b, 1 + STEPS, c, sn) /\ SentDown(b, 1 + STEPS, c, sn) IN
  /\ Forwarded(b, FramesRight(b), FramesDown(b), tk) /\ Crossed(b, STEPS, STEPS, tk)
  /\ \/ l.pc = "cHeader" /\ Gathering(b, 0, 0, tk) /\ sent(0)
     \/ /\ l.pc = "cPass" /\ tk[<<"cPass", b>>] < CPassed(b) /\ tk[<<"cMine", b>>] = 0
        /\ sent(1 + tk[<<"cPass", b>>])
     \/ /\ l.pc = "emit" /\ l.n < ACCS /\ Gathering(b, CPassed(b), l.n, tk)
        /\ sent(1 + CPassed(b) + l.n \div APB)

StoreNew(b, l, tk, sn) ==
  /\ l = StoreIdle /\ tk[<<"posS", b>>] = 0
  /\ Forwarded(b, 0, 0, tk) /\ Crossed(b, 0, 0, tk) /\ Gathering(b, 0, 0, tk)
  /\ sn[OutRight(b)] = 0 /\ sn[OutDown(b)] = 0

StoreBusy(b, l, tk, sn) ==
  /\ l.at = b /\ tk[<<"posS", b>>] = 1
  /\ StoreFrameInv(b, l, tk, sn) \/ StoreCrossInv(b, l, tk, sn) \/ StoreCInv(b, l, tk, sn)

StoreOver(b, l, tk, sn) ==
  /\ l = StoreIdle /\ tk[<<"posS", b>>] = 1
  /\ Forwarded(b, FramesRight(b), FramesDown(b), tk) /\ Crossed(b, STEPS, STEPS, tk)
  /\ Gathering(b, CPassed(b), ACCS, tk)
  /\ SentRight(b, 1 + STEPS, 1 + CPassed(b) + CBEAT, sn)
  /\ SentDown(b, 1 + STEPS, 1 + CPassed(b) + CBEAT, sn)

StoreInv(b, l, tk, sn) ==
  /\ l \in StoreStates
  /\ StoreNew(b, l, tk, sn) \/ StoreBusy(b, l, tk, sn) \/ StoreOver(b, l, tk, sn)
-----------------------------------------------------------------------------
(* The words that are in a channel are the ones sent and not yet taken. *)
Holds(ch, c, tk, sn) ==
  /\ ch \in Seq(Words) /\ Len(ch) = sn[c] - tk[c] /\ Len(ch) <= Depth(c)
  /\ \A i \in 1 .. Len(ch) : ch[i] = Word(c, tk[c] + i)
-----------------------------------------------------------------------------
(* Arithmetic.  The sizes of frames, of groups of frames and of C groups.  *)

LEMMA Constants ==
  /\ R \in Nat \ {0} /\ S \in Nat \ {0} /\ K \in Nat \ {0} /\ STEPS \in Nat \ {0}
  /\ ACCS \in Nat \ {0} /\ APB \in Nat \ {0} /\ ACCS % APB = 0
  /\ CROSS \in Nat \ {0} /\ LINK \in Nat \ {0} /\ TAP \in BOOLEAN
  /\ Blocks \subseteq Position
BY GeometryAssumption, SMT DEF Position

LEMMA Places ==
  ASSUME NEW p \in Position
  PROVE  p[1] \in 0 .. R - 1 /\ p[2] \in 0 .. S - 1 /\ p = <<p[1], p[2]>>
BY DEF Position

(* The quotient and the remainder of a number that is written as one. *)
LEMMA Divided ==
  ASSUME NEW q \in Nat, NEW d \in Nat \ {0}, NEW r \in 0 .. d - 1
  PROVE  (q * d + r) \div d = q /\ (q * d + r) % d = r
<1>1. q * d \in Nat
  BY SMT
<1>2. PICK x \in Nat : x = q * d + r
  BY <1>1
<1>3. PICK y \in Nat, m \in 0 .. d - 1 : y = x \div d /\ m = x % d /\ x = d * y + m
  BY <1>2, SMT
<1>4. d * y + m = d * q + r
  BY <1>2, <1>3, <1>1, SMT
<1>5. CASE y < q
  <2>1. PICK e \in Nat : q = y + 1 + e
    <3>1. q - y - 1 \in Nat /\ q = y + 1 + (q - y - 1)
      BY <1>5
    <3> QED
      BY <3>1
  <2>2. d * q = d * y + d + d * e /\ d * e >= 0
    BY <2>1, SMT
  <2> QED
    BY <2>2, <1>4, <1>3, SMT
<1>6. CASE q < y
  <2>1. PICK e \in Nat : y = q + 1 + e
    <3>1. y - q - 1 \in Nat /\ y = q + 1 + (y - q - 1)
      BY <1>6
    <3> QED
      BY <3>1
  <2>2. d * y = d * q + d + d * e /\ d * e >= 0
    BY <2>1, SMT
  <2> QED
    BY <2>2, <1>4, <1>3, SMT
<1>7. CASE y = q
  BY <1>7, <1>2, <1>3, <1>4, SMT
<1> QED
  BY <1>5, <1>6, <1>7

LEMMA Products ==
  ASSUME NEW d \in Nat, NEW m \in Nat, NEW n \in Nat
  PROVE  /\ m * d \in Nat /\ (m + 1) * d = m * d + d
         /\ m < n => m * d + d <= n * d
         /\ m <= n => m * d <= n * d
<1>1. m * d \in Nat /\ (m + 1) * d = m * d + d
  BY SMT
<1>2. ASSUME m < n
      PROVE  m * d + d <= n * d
  <2>1. PICK e \in Nat : n = m + 1 + e
    <3>1. n - m - 1 \in Nat /\ n = m + 1 + (n - m - 1)
      BY <1>2
    <3> QED
      BY <3>1
  <2>2. n * d = m * d + d + e * d /\ e * d \in Nat
    BY <2>1, SMT
  <2> QED
    BY <2>2, <1>1
<1> QED
  BY <1>1, <1>2

LEMMA Frames ==
  ASSUME NEW m \in Nat, NEW n \in Nat
  PROVE  /\ FrameWords(m) \in Nat /\ FrameWords(0) = 0
         /\ FrameWords(m + 1) = FrameWords(m) + 1 + K
         /\ m < n => FrameWords(m + 1) <= FrameWords(n)
         /\ m <= n => FrameWords(m) <= FrameWords(n)
<1>1. 1 + K \in Nat /\ 0 * (1 + K) = 0
  BY Constants
<1>2. /\ m * (1 + K) \in Nat /\ (m + 1) * (1 + K) = m * (1 + K) + (1 + K)
      /\ m < n => m * (1 + K) + (1 + K) <= n * (1 + K)
      /\ m <= n => m * (1 + K) <= n * (1 + K)
  BY <1>1, Products
<1> QED
  BY <1>1, <1>2, Constants DEF FrameWords

LEMMA Beats ==
  /\ CBEAT \in Nat \ {0} /\ ACCS = CBEAT * APB
  /\ \A m \in Nat, n \in Nat :
       /\ CBeats(m) \in Nat /\ CBeats(0) = 0 /\ CBeats(m + 1) = CBeats(m) + CBEAT
       /\ m < n => CBeats(m) + CBEAT <= CBeats(n)
       /\ m <= n => CBeats(m) <= CBeats(n)
<1>1. CBEAT \in Nat \ {0} /\ ACCS = CBEAT * APB
  <2>1. PICK y \in Nat : y = ACCS \div APB /\ ACCS = APB * y
    BY Constants, SMT
  <2>2. y # 0
    BY <2>1, Constants, SMT
  <2> QED
    BY <2>1, <2>2, Constants, SMT DEF CBEAT
<1>2. ASSUME NEW m \in Nat, NEW n \in Nat
      PROVE  /\ CBeats(m) \in Nat /\ CBeats(0) = 0 /\ CBeats(m + 1) = CBeats(m) + CBEAT
             /\ m < n => CBeats(m) + CBEAT <= CBeats(n)
             /\ m <= n => CBeats(m) <= CBeats(n)
  BY <1>1, Products DEF CBeats
<1> QED
  BY <1>1, <1>2

-----------------------------------------------------------------------------
(* The words of the two transfers *)

FrameTypes == {"A_FRAME", "B_FRAME"}

LEMMA TransferIsGroup ==
  ASSUME NEW type \in FrameTypes
  PROVE  /\ Count(type) \in Nat \ {0}
         /\ Transfer(type) =
              [n \in 1 .. FrameWords(Count(type)) |->
                 LET at == Dest(type, (n - 1) \div (1 + K))
                     i  == ((n - 1) % (1 + K)) - 1
                 IN  IF i < 0 THEN Header(type, at)
                     ELSE Payload(type, at, i, n = FrameWords(Count(type)))]
         /\ Len(Transfer(type)) = FrameWords(Count(type))
<1> DEFINE dests == IF type = "B_FRAME" THEN [f \in 1 .. S |-> <<0, f - 1>>]
                                        ELSE [f \in 1 .. R |-> <<f - 1, 0>>]
<1>1. Count(type) \in Nat \ {0} /\ FrameWords(Count(type)) \in Nat
  BY Constants, Frames DEF Count
<1>2. Len(dests) = Count(type)
  BY Constants DEF Count
<1>3. Transfer(type) = Group(type, dests, K)
  BY DEF Transfer, BTransfer, ATransfer, FrameTypes
<1>4. ASSUME NEW n \in 1 .. FrameWords(Count(type))
      PROVE  dests[1 + (n - 1) \div (1 + K)] = Dest(type, (n - 1) \div (1 + K))
  <2>1. PICK x \in Nat : x = n - 1 /\ x < FrameWords(Count(type))
    <3>1. n - 1 \in Nat /\ n - 1 < FrameWords(Count(type))
      BY <1>1
    <3> QED
      BY <3>1
  <2>2. PICK y \in Nat : y = x \div (1 + K) /\ x >= FrameWords(y)
    <3>1. PICK d \in Nat \ {0} : d = 1 + K
      BY Constants
    <3>2. x \div d \in Nat /\ x >= (x \div d) * d
      BY <3>1, SMT
    <3> QED
      BY <3>1, <3>2 DEF FrameWords
  <2>3. y < Count(type)
    <3>1. Count(type) <= y => FrameWords(Count(type)) <= FrameWords(y)
      BY <1>1, <2>2, Frames
    <3>2. FrameWords(y) \in Nat
      BY <2>2, Frames
    <3> QED
      BY <3>1, <3>2, <2>1, <2>2, <1>1
  <2>4. dests[1 + y] = Dest(type, y)
    <3>1. 1 + y \in 1 .. Count(type) /\ 1 + y - 1 = y
      BY <2>2, <2>3, <1>1
    <3> QED
      BY <3>1 DEF Dest, Count
  <2> QED
    BY <2>1, <2>2, <2>4
<1>5. Transfer(type) =
        [n \in 1 .. FrameWords(Count(type)) |->
           LET at == Dest(type, (n - 1) \div (1 + K))
               i  == ((n - 1) % (1 + K)) - 1
           IN  IF i < 0 THEN Header(type, at)
               ELSE Payload(type, at, i, n = FrameWords(Count(type)))]
  <2>1. PICK top : top = FrameWords(Count(type))
    OBVIOUS
  <2>2. Len(dests) * (1 + K) = top
    BY <1>2, <2>1 DEF FrameWords
  <2>3. \A n \in 1 .. top : dests[1 + (n - 1) \div (1 + K)] = Dest(type, (n - 1) \div (1 + K))
    BY <1>4, <2>1
  <2> HIDE DEF dests
  <2>4. Transfer(type) =
          [n \in 1 .. top |->
             LET at == dests[1 + (n - 1) \div (1 + K)]
                 i  == ((n - 1) % (1 + K)) - 1
             IN  IF i < 0 THEN Header(type, at) ELSE Payload(type, at, i, n = top)]
    BY <1>3, <2>2 DEF Group
  <2>5. Transfer(type) =
          [n \in 1 .. top |->
             LET at == Dest(type, (n - 1) \div (1 + K))
                 i  == ((n - 1) % (1 + K)) - 1
             IN  IF i < 0 THEN Header(type, at) ELSE Payload(type, at, i, n = top)]
    BY <2>3, <2>4
  <2> QED
    BY <2>1, <2>5, Zenon
<1>6. Len(Transfer(type)) = FrameWords(Count(type))
  BY <1>5, <1>1
<1> QED
  BY <1>1, <1>5, <1>6, Zenon

LEMMA TransferWords ==
  ASSUME NEW type \in FrameTypes, NEW q \in 0 .. Count(type) - 1
  PROVE  /\ FrameWords(q) + 1 \in 1 .. FrameWords(Count(type))
         /\ Transfer(type)[FrameWords(q) + 1] = Header(type, Dest(type, q))
         /\ \A n \in 0 .. K - 1 :
              /\ FrameWords(q) + 2 + n \in 1 .. FrameWords(Count(type))
              /\ Transfer(type)[FrameWords(q) + 2 + n] =
                   Payload(type, Dest(type, q), n, q = Count(type) - 1 /\ n = K - 1)
<1>1. /\ q \in Nat /\ Count(type) \in Nat \ {0} /\ K \in Nat \ {0}
      /\ FrameWords(q) \in Nat /\ FrameWords(Count(type)) \in Nat
      /\ FrameWords(q + 1) = FrameWords(q) + 1 + K
      /\ FrameWords(q + 1) <= FrameWords(Count(type))
      /\ q < Count(type) - 1 => FrameWords(q + 1) + 1 + K <= FrameWords(Count(type))
  <2>1. q \in Nat /\ Count(type) \in Nat \ {0} /\ q < Count(type)
    BY TransferIsGroup
  <2>2. q + 1 \in Nat /\ (q < Count(type) - 1 => q + 1 < Count(type))
    BY <2>1
  <2>3. FrameWords(q + 1) \in Nat /\ FrameWords(q + 1 + 1) = FrameWords(q + 1) + 1 + K
        /\ (q + 1 < Count(type) => FrameWords(q + 1 + 1) <= FrameWords(Count(type)))
    BY <2>1, <2>2, Frames
  <2> QED
    BY <2>1, <2>2, <2>3, Frames, Constants
<1>2. ASSUME NEW r \in 0 .. K
      PROVE  /\ FrameWords(q) + 1 + r \in 1 .. FrameWords(Count(type))
             /\ Transfer(type)[FrameWords(q) + 1 + r] =
                  IF r = 0 THEN Header(type, Dest(type, q))
                  ELSE Payload(type, Dest(type, q), r - 1,
                               FrameWords(q) + 1 + r = FrameWords(Count(type)))
  <2>1. FrameWords(q) + 1 + r \in 1 .. FrameWords(Count(type))
    BY <1>1
  <2>2. (FrameWords(q) + r) \div (1 + K) = q /\ (FrameWords(q) + r) % (1 + K) = r
    <3>1. 1 + K \in Nat \ {0} /\ r \in 0 .. (1 + K) - 1
      BY <1>1
    <3> QED
      BY <1>1, <3>1, Divided DEF FrameWords
  <2>3. FrameWords(q) + 1 + r - 1 = FrameWords(q) + r
    BY <1>1
  <2>4. r - 1 < 0 <=> r = 0
    BY <1>1
  <2>5. PICK k \in 1 .. FrameWords(Count(type)) : k = FrameWords(q) + 1 + r
    BY <2>1
  <2>6. (k - 1) \div (1 + K) = q /\ ((k - 1) % (1 + K)) - 1 = r - 1
    <3>1. k - 1 = FrameWords(q) + r
      BY <1>1, <2>5
    <3> QED
      BY <3>1, <2>2
  <2> QED
    BY <2>4, <2>5, <2>6, TransferIsGroup
<1>3. Transfer(type)[FrameWords(q) + 1] = Header(type, Dest(type, q))
  BY <1>1, <1>2, FrameWords(q) + 1 + 0 = FrameWords(q) + 1
<1>4. ASSUME NEW n \in 0 .. K - 1
      PROVE  /\ FrameWords(q) + 2 + n \in 1 .. FrameWords(Count(type))
             /\ Transfer(type)[FrameWords(q) + 2 + n] =
                  Payload(type, Dest(type, q), n, q = Count(type) - 1 /\ n = K - 1)
  <2>1. n + 1 \in 0 .. K /\ FrameWords(q) + 1 + (n + 1) = FrameWords(q) + 2 + n /\ n + 1 - 1 = n
        /\ n + 1 # 0
    BY <1>1
  <2>2. FrameWords(q) + 2 + n = FrameWords(Count(type)) <=> q = Count(type) - 1 /\ n = K - 1
    <3>1. CASE q = Count(type) - 1
      BY <3>1, <1>1
    <3>2. CASE q # Count(type) - 1
      BY <3>2, <1>1
    <3> QED
      BY <3>1, <3>2
  <2> QED
    BY <2>1, <2>2, <1>2 DEF Payload
<1> QED
  BY <1>1, <1>3, <1>4

(* TLAST is on the last word of a transfer and on no other. *)
LEMMA TransferLast ==
  ASSUME NEW type \in FrameTypes, NEW k \in 1 .. FrameWords(Count(type))
  PROVE  Transfer(type)[k].last = (k = FrameWords(Count(type)))
<1> DEFINE i == ((k - 1) % (1 + K)) - 1
<1>1. CASE i < 0
  <2>1. Transfer(type)[k].last = FALSE
    BY <1>1, TransferIsGroup DEF Header
  <2>2. k # FrameWords(Count(type))
    <3>1. PICK q \in Nat : q = Count(type) - 1 /\ Count(type) = q + 1 /\ q \in 0 .. Count(type) - 1
      BY TransferIsGroup
    <3>2. FrameWords(Count(type)) - 1 = FrameWords(q) + K
      BY <3>1, Frames, Constants
    <3>3. (q * (1 + K) + K) % (1 + K) = K
      BY <3>1, Constants, Divided
    <3> QED
      BY <3>1, <3>2, <3>3, <1>1, Constants DEF FrameWords
  <2> QED
    BY <2>1, <2>2
<1>2. CASE ~(i < 0)
  BY <1>2, TransferIsGroup DEF Payload
<1> QED
  BY <1>1, <1>2

-----------------------------------------------------------------------------
(* The words on the links.  A link may lead out of the mesh. *)

Place == (0 .. R) \X (0 .. S)

LEMMA LinkCounts ==
  ASSUME NEW p \in Place
  PROVE  /\ FramesLeft(p) \in Nat /\ FramesUp(p) \in Nat
         /\ CrossLeftWords(p) \in Nat /\ CrossUpWords(p) \in Nat
         /\ CLeftBeats(p) \in Nat /\ CUpBeats(p) \in Nat
         /\ p[1] * S \in Nat
<1>1. p[1] \in 0 .. R /\ p[2] \in 0 .. S
  BY DEF Place
<1>2. p[1] \in Nat /\ p[2] \in Nat /\ R \in Nat /\ S \in Nat /\ STEPS \in Nat
      /\ p[1] <= R /\ p[2] <= S
  BY <1>1, Constants
<1>3. /\ FrameWords(S) \in Nat /\ FrameWords(R) \in Nat
      /\ FrameWords(p[1]) \in Nat /\ FrameWords(p[1]) <= FrameWords(R)
      /\ FrameWords(p[2]) \in Nat /\ FrameWords(p[2]) <= FrameWords(S)
  BY <1>2, Frames
<1>4. p[1] * S \in Nat /\ p[1] * S + p[2] \in Nat /\ p[1] * S <= p[1] * S + p[2]
  BY <1>2, Products
<1>5. /\ CBeats(p[1] * S) \in Nat /\ CBeats(p[1] * S + p[2]) \in Nat
      /\ CBeats(p[1] * S) <= CBeats(p[1] * S + p[2])
  BY <1>4, Beats
<1>6. FramesLeft(p) \in Nat /\ FramesUp(p) \in Nat
  BY <1>2, <1>3 DEF FramesLeft, FramesUp
<1>7. CrossLeftWords(p) \in Nat /\ CrossUpWords(p) \in Nat
  BY <1>2 DEF CrossLeftWords, CrossUpWords
<1>8. CLeftBeats(p) \in Nat /\ CUpBeats(p) \in Nat
  BY <1>5 DEF CLeftBeats, CUpBeats
<1> QED
  BY <1>4, <1>6, <1>7, <1>8

LEMMA LeftFrameWords ==
  ASSUME NEW p \in Place, IsRow0(p), NEW k \in Nat \ {0}
  PROVE  /\ ~IsCol0(p) /\ k <= FramesLeft(p) =>
              LeftWord(p, k) = Transfer("B_FRAME")[FrameWords(p[2]) + k]
         /\ IsCol0(p) /\ k <= FrameWords(S) => LeftWord(p, k) = Transfer("B_FRAME")[k]
         /\ IsCol0(p) => LeftWord(p, FrameWords(S) + k) = Transfer("A_FRAME")[k]
<1>1. FrameWords(S) \in Nat /\ FramesLeft(p) \in Nat
  BY Constants, Frames, LinkCounts
<1>2. FrameWords(S) + k - FrameWords(S) = k /\ ~(FrameWords(S) + k <= FrameWords(S))
  BY <1>1
<1> QED
  BY <1>1, <1>2 DEF LeftWord, Transfer

LEMMA LeftCrossWords ==
  ASSUME NEW p \in Place, ~IsCol0(p), NEW f, f = FramesLeft(p)
  PROVE  /\ LeftWord(p, f + 1) = Header("A_CROSS", p)
         /\ \A n \in 0 .. STEPS - 1 :
              LeftWord(p, f + 2 + n) = Payload("A_CROSS", p, n, n = STEPS - 1)
         /\ LeftWord(p, f + 2 + STEPS) = Header("C_DATA", <<p[1], p[2] - 1>>)
<1>1. f \in Nat /\ STEPS \in Nat \ {0}
  BY LinkCounts, Constants
<1>2. LeftWord(p, f + 1) = Header("A_CROSS", p)
  BY <1>1 DEF LeftWord
<1>3. ASSUME NEW n \in 0 .. STEPS - 1
      PROVE  LeftWord(p, f + 2 + n) = Payload("A_CROSS", p, n, n = STEPS - 1)
  <2>1. PICK k : k = f + 2 + n
    OBVIOUS
  <2>2. /\ ~(k <= f) /\ k # f + 1 /\ k <= f + 1 + STEPS
        /\ k - f - 2 = n /\ (k = f + 1 + STEPS) = (n = STEPS - 1)
    BY <1>1, <2>1
  <2> QED
    BY <2>1, <2>2 DEF LeftWord
<1>4. LeftWord(p, f + 2 + STEPS) = Header("C_DATA", <<p[1], p[2] - 1>>)
  <2>1. /\ ~(f + 2 + STEPS <= f) /\ f + 2 + STEPS # f + 1 /\ ~(f + 2 + STEPS <= f + 1 + STEPS)
    BY <1>1
  <2> QED
    BY <2>1 DEF LeftWord
<1> QED
  BY <1>2, <1>3, <1>4

LEMMA LeftCWords ==
  ASSUME NEW p \in Place, ~IsCol0(p), NEW f, f = FramesLeft(p)
  PROVE  \A n \in Nat \ {0} :
           LeftWord(p, f + 2 + STEPS + n) = CWord(CBeats(p[1] * S) + n, n = CLeftBeats(p))
<1>1. f \in Nat /\ STEPS \in Nat \ {0}
  BY LinkCounts, Constants
<1>2. ASSUME NEW n \in Nat \ {0}
      PROVE  LeftWord(p, f + 2 + STEPS + n) = CWord(CBeats(p[1] * S) + n, n = CLeftBeats(p))
  <2>1. CBeats(p[1] * S) \in Nat /\ CLeftBeats(p) \in Nat
    BY LinkCounts, Beats
  <2>2. PICK k : k = f + 2 + STEPS + n
    OBVIOUS
  <2>3. /\ ~(k <= f) /\ k # f + 1 /\ ~(k <= f + 1 + STEPS) /\ k # f + 2 + STEPS
        /\ CBeats(p[1] * S) + k - (f + 2 + STEPS) = CBeats(p[1] * S) + n
        /\ (k = f + 2 + STEPS + CLeftBeats(p)) = (n = CLeftBeats(p))
    BY <1>1, <2>1, <2>2
  <2> QED
    BY <2>2, <2>3 DEF LeftWord
<1> QED
  BY <1>2

LEMMA UpFrameWords ==
  ASSUME NEW p \in Place, NEW k \in 1 .. FramesUp(p)
  PROVE  UpWord(p, k) = Transfer("A_FRAME")[FrameWords(p[1]) + k]
BY LinkCounts DEF UpWord, Transfer

LEMMA UpCrossWords ==
  ASSUME NEW p \in Place, NEW f, f = FramesUp(p), NEW x, x = CrossUpWords(p)
  PROVE  /\ ~IsRow0(p) /\ p[1] # R =>
              /\ UpWord(p, f + 1) = Header("B_CROSS", p)
              /\ \A n \in 0 .. STEPS - 1 :
                   UpWord(p, f + 2 + n) = Payload("B_CROSS", p, n, n = STEPS - 1)
         /\ UpWord(p, f + x + 1) = Header("C_DATA", <<p[1] - 1, p[2]>>)
<1>1. f \in Nat /\ x \in Nat /\ STEPS \in Nat \ {0}
  BY LinkCounts, Constants
<1>2. ASSUME ~IsRow0(p), p[1] # R
      PROVE  /\ UpWord(p, f + 1) = Header("B_CROSS", p)
             /\ \A n \in 0 .. STEPS - 1 :
                  UpWord(p, f + 2 + n) = Payload("B_CROSS", p, n, n = STEPS - 1)
  <2>1. x = 1 + STEPS
    BY <1>2 DEF CrossUpWords
  <2>2. UpWord(p, f + 1) = Header("B_CROSS", p)
    BY <1>1, <2>1 DEF UpWord
  <2>3. ASSUME NEW n \in 0 .. STEPS - 1
        PROVE  UpWord(p, f + 2 + n) = Payload("B_CROSS", p, n, n = STEPS - 1)
    <3>1. PICK k : k = f + 2 + n
      OBVIOUS
    <3>2. /\ ~(k <= f) /\ k # f + 1 /\ k <= f + x
          /\ k - f - 2 = n /\ (k = f + x) = (n = STEPS - 1)
      BY <1>1, <2>1, <3>1
    <3> QED
      BY <3>1, <3>2 DEF UpWord
  <2> QED
    BY <2>2, <2>3
<1>3. UpWord(p, f + x + 1) = Header("C_DATA", <<p[1] - 1, p[2]>>)
  <2>1. /\ ~(f + x + 1 <= f) /\ ~(x # 0 /\ f + x + 1 = f + 1) /\ ~(f + x + 1 <= f + x)
    BY <1>1
  <2> QED
    BY <2>1 DEF UpWord
<1> QED
  BY <1>2, <1>3

LEMMA UpCWords ==
  ASSUME NEW p \in Place, NEW f, f = FramesUp(p), NEW x, x = CrossUpWords(p)
  PROVE  \A n \in Nat \ {0} : UpWord(p, f + x + 1 + n) = CWord(n, n = CUpBeats(p))
<1>1. f \in Nat /\ x \in Nat
  BY LinkCounts
<1>2. ASSUME NEW n \in Nat \ {0}
      PROVE  UpWord(p, f + x + 1 + n) = CWord(n, n = CUpBeats(p))
  <2>1. CUpBeats(p) \in Nat
    BY LinkCounts
  <2>2. PICK k : k = f + x + 1 + n
    OBVIOUS
  <2>3. /\ ~(k <= f) /\ k # f + 1 /\ ~(k <= f + x) /\ k # f + x + 1
        /\ k - (f + x + 1) = n
        /\ (k = f + x + 1 + CUpBeats(p)) = (n = CUpBeats(p))
    BY <1>1, <2>1, <2>2
  <2> QED
    BY <2>2, <2>3 DEF UpWord
<1> QED
  BY <1>2

-----------------------------------------------------------------------------
(* What a block sends is what its neighbour is to get. *)

LEMMA Neighbours ==
  ASSUME NEW b \in Position
  PROVE  /\ b \in Place /\ RightOf(b) \in Place /\ Below(b) \in Place
         /\ RightOf(b)[1] = b[1] /\ RightOf(b)[2] = b[2] + 1
         /\ Below(b)[1] = b[1] + 1 /\ Below(b)[2] = b[2]
         /\ <<RightOf(b)[1], RightOf(b)[2] - 1>> = b
         /\ <<Below(b)[1] - 1, Below(b)[2]>> = b
         /\ ~IsCol0(RightOf(b)) /\ ~IsRow0(Below(b))
         /\ IsRow0(RightOf(b)) = IsRow0(b) /\ IsCol0(Below(b)) = IsCol0(b)
         /\ ~IsLastCol(b) => RightOf(b) \in Position
         /\ ~IsLastRow(b) => Below(b) \in Position /\ Below(b)[1] # R
         /\ IsLastRow(b) => Below(b)[1] = R
         /\ IsLastCol(b) = IsLastCol(Below(b))
<1>1. b[1] \in 0 .. R - 1 /\ b[2] \in 0 .. S - 1 /\ b = <<b[1], b[2]>>
  BY Places
<1>2. R \in Nat /\ S \in Nat
  BY Constants
<1>3. /\ b[1] \in 0 .. R /\ b[2] \in 0 .. S
      /\ b[1] + 1 \in 0 .. R /\ b[2] + 1 \in 0 .. S
      /\ b[2] + 1 - 1 = b[2] /\ b[1] + 1 - 1 = b[1] /\ b[1] + 1 # 0 /\ b[2] + 1 # 0
      /\ b[2] # S - 1 => b[2] + 1 \in 0 .. S - 1
      /\ b[1] # R - 1 => b[1] + 1 \in 0 .. R - 1 /\ b[1] + 1 # R
      /\ b[1] = R - 1 => b[1] + 1 = R
  BY <1>1, <1>2
<1>4. b \in Place /\ RightOf(b) \in Place /\ Below(b) \in Place
  BY <1>1, <1>3 DEF Place, RightOf, Below
<1>5. /\ ~IsLastCol(b) => RightOf(b) \in Position
      /\ ~IsLastRow(b) => Below(b) \in Position
  BY <1>1, <1>3 DEF Position, RightOf, Below, IsLastCol, IsLastRow
<1> QED
  BY <1>1, <1>3, <1>4, <1>5 DEF RightOf, Below, IsRow0, IsCol0, IsLastRow, IsLastCol

LEMMA FrameCounts ==
  ASSUME NEW b \in Position
  PROVE  /\ FramesRight(b) \in Nat /\ FramesDown(b) \in Nat
         /\ FramesRight(b) = FramesLeft(RightOf(b)) /\ FramesDown(b) = FramesUp(Below(b))
         /\ IsLastCol(b) \/ ~IsRow0(b) => FramesRight(b) = 0
         /\ IsLastRow(b) \/ ~IsCol0(b) => FramesDown(b) = 0
         /\ IsRow0(b) /\ ~IsLastCol(b) => FramesRight(b) > 0
         /\ IsCol0(b) /\ ~IsLastRow(b) => FramesDown(b) > 0
         /\ IsRow0(b) /\ ~IsCol0(b) => FramesLeft(b) = FramesRight(b) + 1 + K
         /\ IsCol0(b) /\ ~IsRow0(b) => FramesUp(b) = FramesDown(b) + 1 + K
         /\ IsRow0(b) => FrameWords(b[2]) + FramesRight(b) + 1 + K = FrameWords(S)
         /\ IsCol0(b) => FrameWords(b[1]) + FramesDown(b) + 1 + K = FrameWords(R)
<1>1. b[1] \in 0 .. R - 1 /\ b[2] \in 0 .. S - 1 /\ b = <<b[1], b[2]>>
  BY Places
<1>2. R \in Nat /\ S \in Nat /\ K \in Nat \ {0}
  BY Constants
<1>3. /\ b[1] \in Nat /\ b[2] \in Nat /\ b[1] + 1 \in Nat /\ b[2] + 1 \in Nat
      /\ b[1] + 1 <= R /\ b[2] + 1 <= S
      /\ b[2] # S - 1 => b[2] + 1 < S
      /\ b[1] # R - 1 => b[1] + 1 < R
      /\ b[2] = S - 1 => b[2] + 1 = S
      /\ b[1] = R - 1 => b[1] + 1 = R
  BY <1>1, <1>2
<1>4. /\ FrameWords(b[1]) \in Nat /\ FrameWords(b[1] + 1) = FrameWords(b[1]) + 1 + K
      /\ FrameWords(b[2]) \in Nat /\ FrameWords(b[2] + 1) = FrameWords(b[2]) + 1 + K
      /\ FrameWords(R) \in Nat /\ FrameWords(S) \in Nat
      /\ FrameWords(b[1] + 1) <= FrameWords(R) /\ FrameWords(b[2] + 1) <= FrameWords(S)
  BY <1>2, <1>3, Frames
<1>5. /\ b[2] # S - 1 => FrameWords(b[2] + 1) + 1 + K <= FrameWords(S)
      /\ b[1] # R - 1 => FrameWords(b[1] + 1) + 1 + K <= FrameWords(R)
  <2>1. /\ FrameWords(b[1] + 1 + 1) = FrameWords(b[1] + 1) + 1 + K
        /\ FrameWords(b[2] + 1 + 1) = FrameWords(b[2] + 1) + 1 + K
        /\ b[2] + 1 < S => FrameWords(b[2] + 1 + 1) <= FrameWords(S)
        /\ b[1] + 1 < R => FrameWords(b[1] + 1 + 1) <= FrameWords(R)
    BY <1>2, <1>3, Frames
  <2> QED
    BY <2>1, <1>3
<1>6. /\ FramesRight(b) = FramesLeft(RightOf(b)) /\ FramesDown(b) = FramesUp(Below(b))
  BY Neighbours DEF FramesRight, FramesDown, FramesLeft, FramesUp
<1>7. FramesRight(b) \in Nat /\ FramesDown(b) \in Nat
  BY <1>4, <1>2 DEF FramesRight, FramesDown
<1>8. /\ IsLastCol(b) \/ ~IsRow0(b) => FramesRight(b) = 0
      /\ IsLastRow(b) \/ ~IsCol0(b) => FramesDown(b) = 0
      /\ IsRow0(b) /\ ~IsLastCol(b) => FramesRight(b) > 0
      /\ IsCol0(b) /\ ~IsLastRow(b) => FramesDown(b) > 0
  BY <1>2, <1>3, <1>4, <1>5 DEF FramesRight, FramesDown, IsLastRow, IsLastCol, IsRow0, IsCol0
<1>9. /\ IsRow0(b) /\ ~IsCol0(b) => FramesLeft(b) = FramesRight(b) + 1 + K
      /\ IsCol0(b) /\ ~IsRow0(b) => FramesUp(b) = FramesDown(b) + 1 + K
      /\ IsRow0(b) => FrameWords(b[2]) + FramesRight(b) + 1 + K = FrameWords(S)
      /\ IsCol0(b) => FrameWords(b[1]) + FramesDown(b) + 1 + K = FrameWords(R)
  BY <1>2, <1>4 DEF FramesRight, FramesDown, FramesLeft, FramesUp
<1> QED
  BY <1>6, <1>7, <1>8, <1>9

LEMMA CCounts ==
  ASSUME NEW b \in Position
  PROVE  /\ CPassed(b) \in Nat /\ CFirst(b) \in Nat
         /\ CLeftBeats(b) \in Nat /\ CUpBeats(b) \in Nat
         /\ CPassed(b) = CUpBeats(b) + CLeftBeats(b)
         /\ CFirst(b) + CUpBeats(b) = CBeats(b[1] * S)
         /\ CFirst(b) + CPassed(b) = CBeats(b[1] * S + b[2])
         /\ FromLeftC(b) => CLeftBeats(b) > 0
         /\ ~FromLeftC(b) => CLeftBeats(b) = 0
         /\ FromUpC(b) => CUpBeats(b) > 0
         /\ ~FromUpC(b) => CUpBeats(b) = 0
         /\ ~IsLastCol(b) => CFirst(b) = CBeats(b[1] * S)
         /\ IsLastCol(b) => CFirst(b) = 0
         /\ ~IsLastCol(b) => CLeftBeats(RightOf(b)) = CPassed(b) + CBEAT
         /\ IsLastCol(b) => CUpBeats(Below(b)) = CPassed(b) + CBEAT
<1>1. b[1] \in 0 .. R - 1 /\ b[2] \in 0 .. S - 1 /\ b = <<b[1], b[2]>>
  BY Places
<1>2. R \in Nat \ {0} /\ S \in Nat \ {0} /\ CBEAT \in Nat \ {0}
  BY Constants, Beats
<1>3. PICK m \in Nat : m = b[1] * S
  BY <1>1, <1>2, Products
<1>4. (b[1] + 1) * S = m + S
  BY <1>1, <1>2, <1>3, Products
<1>5. b[1] # 0 => m > 0
  <2>1. b[1] # 0 => 0 < b[1]
    BY <1>1
  <2>2. 0 * S = 0
    BY <1>2
  <2>3. 0 < b[1] => 0 * S + S <= b[1] * S
    BY <1>1, <1>2, Products
  <2> QED
    BY <2>1, <2>2, <2>3, <1>2, <1>3
<1>6. b[1] = 0 => m = 0
  BY <1>2, <1>3
<1>7. PICK n \in Nat : n = m + b[2]
  BY <1>1, <1>3, <1>2
<1>8. /\ n >= m /\ (b[2] # 0 => m < n) /\ (b[2] = 0 => m = n)
      /\ b[2] = S - 1 => n + 1 = m + S
      /\ m + (b[2] + 1) = n + 1
  BY <1>1, <1>2, <1>3, <1>7
<1>9. /\ CBeats(m) \in Nat /\ CBeats(n) \in Nat /\ CBeats(m) <= CBeats(n)
      /\ CBeats(n + 1) = CBeats(n) + CBEAT /\ CBeats(0) = 0
      /\ m < n => CBeats(m) + CBEAT <= CBeats(n)
      /\ m > 0 => CBeats(0) + CBEAT <= CBeats(m)
  BY <1>3, <1>7, <1>8, Beats
<1>10. /\ CLeftBeats(b) = CBeats(n) - CBeats(m)
       /\ CUpBeats(b) = IF IsLastCol(b) THEN CBeats(m) ELSE 0
       /\ CFirst(b) = IF IsLastCol(b) THEN 0 ELSE CBeats(m)
       /\ CPassed(b) = CBeats(n) - CFirst(b)
  BY <1>3, <1>7 DEF CLeftBeats, CUpBeats, CFirst, CPassed
<1>11. /\ CPassed(b) \in Nat /\ CFirst(b) \in Nat
       /\ CLeftBeats(b) \in Nat /\ CUpBeats(b) \in Nat
       /\ CPassed(b) = CUpBeats(b) + CLeftBeats(b)
       /\ CFirst(b) + CUpBeats(b) = CBeats(b[1] * S)
       /\ CFirst(b) + CPassed(b) = CBeats(b[1] * S + b[2])
  <2>1. PICK x, y : x = CBeats(m) /\ y = CBeats(n)
    OBVIOUS
  <2>2. x \in Nat /\ y \in Nat /\ x <= y
    BY <1>9, <2>1
  <2>3. CLeftBeats(b) = y - x /\ CBeats(b[1] * S) = x /\ CBeats(b[1] * S + b[2]) = y
    BY <1>3, <1>7, <1>10, <2>1
  <2>4. CASE IsLastCol(b)
    <3>1. CUpBeats(b) = x /\ CFirst(b) = 0 /\ CPassed(b) = y - 0
      BY <1>10, <2>1, <2>4
    <3> QED
      BY <2>2, <2>3, <3>1
  <2>5. CASE ~IsLastCol(b)
    <3>1. CUpBeats(b) = 0 /\ CFirst(b) = x /\ CPassed(b) = y - x
      BY <1>10, <2>1, <2>5
    <3> QED
      BY <2>2, <2>3, <3>1
  <2> QED
    BY <2>4, <2>5
<1>12. /\ FromLeftC(b) => CLeftBeats(b) > 0
       /\ ~FromLeftC(b) => CLeftBeats(b) = 0
  BY <1>8, <1>9, <1>10, <1>2 DEF FromLeftC, IsCol0
<1>13. /\ FromUpC(b) => CUpBeats(b) > 0
       /\ ~FromUpC(b) => CUpBeats(b) = 0
  BY <1>5, <1>6, <1>9, <1>10, <1>2 DEF FromUpC, IsRow0
<1>14. /\ ~IsLastCol(b) => CFirst(b) = CBeats(b[1] * S)
       /\ IsLastCol(b) => CFirst(b) = 0
  BY <1>10, <1>3
<1>15. ~IsLastCol(b) => CLeftBeats(RightOf(b)) = CPassed(b) + CBEAT
  <2>1. CLeftBeats(RightOf(b)) = CBeats(n + 1) - CBeats(m)
    BY <1>3, <1>8, Neighbours DEF CLeftBeats
  <2> QED
    BY <2>1, <1>9, <1>10, <1>2
<1>16. IsLastCol(b) => CUpBeats(Below(b)) = CPassed(b) + CBEAT
  <2>1. IsLastCol(b) => CUpBeats(Below(b)) = CBeats(n + 1)
    BY <1>4, <1>8, Neighbours DEF CUpBeats, IsLastCol
  <2> QED
    BY <2>1, <1>9, <1>10, <1>2
<1> QED
  BY <1>11, <1>12, <1>13, <1>14, <1>15, <1>16

(* The beats of a block's own tile come where its turn is. *)
LEMMA OwnBeats ==
  ASSUME NEW b \in Position, NEW e \in 0 .. CBEAT - 1, NEW last
  PROVE  CWord(CBeats(b[1] * S + b[2]) + e + 1, last) = Payload("C_DATA", b, e, last)
<1>1. b[1] \in 0 .. R - 1 /\ b[2] \in 0 .. S - 1 /\ b = <<b[1], b[2]>>
  BY Places
<1>2. R \in Nat \ {0} /\ S \in Nat \ {0} /\ CBEAT \in Nat \ {0}
  BY Constants, Beats
<1>3. PICK m \in Nat : m = b[1] * S + b[2]
  <2>1. b[1] * S \in Nat
    BY <1>1, <1>2, Products
  <2> QED
    BY <2>1, <1>1, <1>2
<1>4. m \div S = b[1] /\ m % S = b[2]
  BY <1>1, <1>2, <1>3, Divided
<1>5. (CBeats(m) + e) \div CBEAT = m /\ (CBeats(m) + e) % CBEAT = e
  BY <1>2, <1>3, Divided DEF CBeats
<1>6. PICK k : k = CBeats(m) + e + 1
  OBVIOUS
<1>7. k - 1 = CBeats(m) + e
  <2>1. CBeats(m) \in Nat
    BY <1>3, Beats
  <2> QED
    BY <2>1, <1>2, <1>6
<1>8. CWord(k, last) = Payload("C_DATA", <<m \div S, m % S>>, e, last)
  BY <1>5, <1>7 DEF CWord
<1> QED
  BY <1>1, <1>3, <1>4, <1>6, <1>8

(* emit_c: APB accumulators to a beat. *)
LEMMA EmitBeats ==
  /\ 0 \div APB = 0
  /\ \A n \in 0 .. ACCS - 1 :
       /\ n \div APB \in 0 .. CBEAT - 1
       /\ BeatFull(n) => /\ (n + 1) \div APB = n \div APB + 1
                         /\ n = ACCS - 1 <=> n \div APB = CBEAT - 1
       /\ ~BeatFull(n) => (n + 1) \div APB = n \div APB /\ n # ACCS - 1
<1>1. APB \in Nat \ {0} /\ CBEAT \in Nat \ {0} /\ ACCS = CBEAT * APB /\ ACCS \in Nat
  BY Constants, Beats
<1>2. 0 \div APB = 0
  BY <1>1, Divided, 0 * APB + 0 = 0
<1>3. ASSUME NEW n \in 0 .. ACCS - 1
      PROVE  /\ n \div APB \in 0 .. CBEAT - 1
             /\ BeatFull(n) => /\ (n + 1) \div APB = n \div APB + 1
                               /\ n = ACCS - 1 <=> n \div APB = CBEAT - 1
             /\ ~BeatFull(n) => (n + 1) \div APB = n \div APB /\ n # ACCS - 1
  <2>1. PICK q \in Nat, r \in 0 .. APB - 1 : n = q * APB + r
    <3>1. /\ n \div APB \in Nat /\ n % APB \in 0 .. APB - 1
          /\ n = (n \div APB) * APB + (n % APB)
      BY <1>1, SMT
    <3> QED
      BY <3>1
  <2>2. n \div APB = q /\ n % APB = r
    BY <1>1, <2>1, Divided
  <2>3. q * APB \in Nat /\ (q + 1) * APB = q * APB + APB
        /\ (q < CBEAT => q * APB + APB <= CBEAT * APB)
        /\ (CBEAT <= q => CBEAT * APB <= q * APB)
        /\ (q + 1 < CBEAT => (q + 1) * APB + APB <= CBEAT * APB)
    BY <1>1, <2>1, Products, q + 1 \in Nat
  <2>4. q < CBEAT
    BY <1>1, <2>1, <2>3
  <2>5. CASE r = APB - 1
    <3>1. (n + 1) \div APB = q + 1
      <4>1. n + 1 = (q + 1) * APB + 0
        BY <1>1, <2>1, <2>3, <2>5
      <4> QED
        BY <4>1, <1>1, <2>1, Divided
    <3>2. n = ACCS - 1 <=> q = CBEAT - 1
      BY <1>1, <2>1, <2>3, <2>4, <2>5
    <3> QED
      BY <3>1, <3>2, <2>2, <2>4, <2>5, <1>1 DEF BeatFull
  <2>6. CASE r # APB - 1
    <3>1. r + 1 \in 0 .. APB - 1
      BY <1>1, <2>1, <2>6
    <3>2. n + 1 = q * APB + (r + 1)
      BY <1>1, <2>1, <2>3
    <3>3. (n + 1) \div APB = q
      BY <3>1, <3>2, <1>1, <2>1, Divided
    <3>4. n # ACCS - 1
      BY <1>1, <2>1, <2>3, <2>4, <2>6
    <3> QED
      BY <3>3, <3>4, <2>2, <2>4, <2>6, <1>1 DEF BeatFull
  <2> QED
    BY <2>5, <2>6
<1> QED
  BY <1>2, <1>3
-----------------------------------------------------------------------------
(* The phases of the three processes, by position. *)

LEMMA Least ==
  ASSUME NEW T \in SUBSET Int, NEW x \in T, \A m \in T : x <= m
  PROVE  (CHOOSE j \in T : \A m \in T : j <= m) = x
<1>1. \A j \in T : (\A m \in T : j <= m) => j = x
  OBVIOUS
<1> QED
  BY <1>1

LEMMA LoadFrom ==
  ASSUME NEW p, NEW i \in 1 .. 8
  PROVE  /\ LoadHas(p, LoadOrder[i]) => FirstFrom(LoadOrder, LoadHas, p, i) = LoadOrder[i]
         /\ ~LoadHas(p, LoadOrder[i]) => FirstFrom(LoadOrder, LoadHas, p, i) =
                                         FirstFrom(LoadOrder, LoadHas, p, i + 1)
<1> DEFINE kept(k) == {m \in k .. Len(LoadOrder) : LoadHas(p, LoadOrder[m])}
<1>1. Len(LoadOrder) = 8
  BY DEF LoadOrder
<1>2. ASSUME LoadHas(p, LoadOrder[i])
      PROVE  FirstFrom(LoadOrder, LoadHas, p, i) = LoadOrder[i]
  <2>1. kept(i) \in SUBSET Int /\ i \in kept(i) /\ \A m \in kept(i) : i <= m
    BY <1>1, <1>2
  <2>2. (CHOOSE k \in kept(i) : \A m \in kept(i) : k <= m) = i
    <3> HIDE DEF kept
    <3> QED
      BY <2>1, Least
  <2> QED
    BY <2>2 DEF FirstFrom
<1>3. ASSUME ~LoadHas(p, LoadOrder[i])
      PROVE  FirstFrom(LoadOrder, LoadHas, p, i) = FirstFrom(LoadOrder, LoadHas, p, i + 1)
  <2>1. ASSUME NEW m
        PROVE  m \in kept(i) <=> m \in kept(i + 1)
    <3>1. m \in i .. 8 /\ m # i <=> m \in i + 1 .. 8
      OBVIOUS
    <3> QED
      BY <3>1, <1>1, <1>3
  <2>2. kept(i) = kept(i + 1)
    <3> HIDE DEF kept
    <3> QED
      BY <2>1
  <2> QED
    BY <2>2 DEF FirstFrom
<1> QED
  BY <1>2, <1>3

LEMMA LoadAt ==
  ASSUME NEW i \in 1 .. 8
  PROVE  (CHOOSE k \in DOMAIN LoadOrder : LoadOrder[k] = LoadOrder[i]) = i
<1>1. DOMAIN LoadOrder = 1 .. 8
  BY DEF LoadOrder
<1>2. \A k \in 1 .. 8 : LoadOrder[k] = LoadOrder[i] => k = i
  BY SMT DEF LoadOrder
<1> QED
  BY <1>1, <1>2

LEMMA ComputeFrom ==
  ASSUME NEW p, NEW i \in 1 .. 5
  PROVE  /\ ComputeHas(p, ComputeOrder[i]) => FirstFrom(ComputeOrder, ComputeHas, p, i) = ComputeOrder[i]
         /\ ~ComputeHas(p, ComputeOrder[i]) => FirstFrom(ComputeOrder, ComputeHas, p, i) =
                                         FirstFrom(ComputeOrder, ComputeHas, p, i + 1)
<1> DEFINE kept(k) == {m \in k .. Len(ComputeOrder) : ComputeHas(p, ComputeOrder[m])}
<1>1. Len(ComputeOrder) = 5
  BY DEF ComputeOrder
<1>2. ASSUME ComputeHas(p, ComputeOrder[i])
      PROVE  FirstFrom(ComputeOrder, ComputeHas, p, i) = ComputeOrder[i]
  <2>1. kept(i) \in SUBSET Int /\ i \in kept(i) /\ \A m \in kept(i) : i <= m
    BY <1>1, <1>2
  <2>2. (CHOOSE k \in kept(i) : \A m \in kept(i) : k <= m) = i
    <3> HIDE DEF kept
    <3> QED
      BY <2>1, Least
  <2> QED
    BY <2>2 DEF FirstFrom
<1>3. ASSUME ~ComputeHas(p, ComputeOrder[i])
      PROVE  FirstFrom(ComputeOrder, ComputeHas, p, i) = FirstFrom(ComputeOrder, ComputeHas, p, i + 1)
  <2>1. ASSUME NEW m
        PROVE  m \in kept(i) <=> m \in kept(i + 1)
    <3>1. m \in i .. 5 /\ m # i <=> m \in i + 1 .. 5
      OBVIOUS
    <3> QED
      BY <3>1, <1>1, <1>3
  <2>2. kept(i) = kept(i + 1)
    <3> HIDE DEF kept
    <3> QED
      BY <2>1
  <2> QED
    BY <2>2 DEF FirstFrom
<1> QED
  BY <1>2, <1>3

LEMMA ComputeAt ==
  ASSUME NEW i \in 1 .. 5
  PROVE  (CHOOSE k \in DOMAIN ComputeOrder : ComputeOrder[k] = ComputeOrder[i]) = i
<1>1. DOMAIN ComputeOrder = 1 .. 5
  BY DEF ComputeOrder
<1>2. \A k \in 1 .. 5 : ComputeOrder[k] = ComputeOrder[i] => k = i
  BY SMT DEF ComputeOrder
<1> QED
  BY <1>1, <1>2

LEMMA StoreFrom ==
  ASSUME NEW p, NEW i \in 1 .. 9
  PROVE  /\ StoreHas(p, StoreOrder[i]) => FirstFrom(StoreOrder, StoreHas, p, i) = StoreOrder[i]
         /\ ~StoreHas(p, StoreOrder[i]) => FirstFrom(StoreOrder, StoreHas, p, i) =
                                         FirstFrom(StoreOrder, StoreHas, p, i + 1)
<1> DEFINE kept(k) == {m \in k .. Len(StoreOrder) : StoreHas(p, StoreOrder[m])}
<1>1. Len(StoreOrder) = 9
  BY DEF StoreOrder
<1>2. ASSUME StoreHas(p, StoreOrder[i])
      PROVE  FirstFrom(StoreOrder, StoreHas, p, i) = StoreOrder[i]
  <2>1. kept(i) \in SUBSET Int /\ i \in kept(i) /\ \A m \in kept(i) : i <= m
    BY <1>1, <1>2
  <2>2. (CHOOSE k \in kept(i) : \A m \in kept(i) : k <= m) = i
    <3> HIDE DEF kept
    <3> QED
      BY <2>1, Least
  <2> QED
    BY <2>2 DEF FirstFrom
<1>3. ASSUME ~StoreHas(p, StoreOrder[i])
      PROVE  FirstFrom(StoreOrder, StoreHas, p, i) = FirstFrom(StoreOrder, StoreHas, p, i + 1)
  <2>1. ASSUME NEW m
        PROVE  m \in kept(i) <=> m \in kept(i + 1)
    <3>1. m \in i .. 9 /\ m # i <=> m \in i + 1 .. 9
      OBVIOUS
    <3> QED
      BY <3>1, <1>1, <1>3
  <2>2. kept(i) = kept(i + 1)
    <3> HIDE DEF kept
    <3> QED
      BY <2>1
  <2> QED
    BY <2>2 DEF FirstFrom
<1> QED
  BY <1>2, <1>3

LEMMA StoreAt ==
  ASSUME NEW i \in 1 .. 9
  PROVE  (CHOOSE k \in DOMAIN StoreOrder : StoreOrder[k] = StoreOrder[i]) = i
<1>1. DOMAIN StoreOrder = 1 .. 9
  BY DEF StoreOrder
<1>2. \A k \in 1 .. 9 : StoreOrder[k] = StoreOrder[i] => k = i
  BY SMT DEF StoreOrder
<1> QED
  BY <1>1, <1>2

LEMMA LoadPhases ==
  ASSUME NEW p \in Position
  PROVE  /\ FirstLoad(p) = IF IsRow0(p) \/ IsCol0(p) THEN "groupHeader" ELSE "crossHeaders"
         /\ AfterLoad(p, "groupHeader") =
              IF IsRow0(p) /\ IsCol0(p) THEN "idle" ELSE "crossHeaders"
         /\ ~(IsRow0(p) /\ IsCol0(p)) => AfterLoad(p, "crossHeaders") = "cross"
         /\ AfterLoad(p, "cross") =
              IF FromUpC(p) THEN "cUpHeader" ELSE IF FromLeftC(p) THEN "cLeftHeader" ELSE "idle"
         /\ FromUpC(p) => AfterLoad(p, "cUpHeader") = "cUp"
         /\ AfterLoad(p, "cUp") = IF FromLeftC(p) THEN "cLeftHeader" ELSE "idle"
         /\ FromLeftC(p) => AfterLoad(p, "cLeftHeader") = "cLeft"
         /\ AfterLoad(p, "cLeft") = "idle"
<1>1. /\ LoadOrder[1] = "groupHeader" /\ LoadOrder[2] = "crossHeaders" /\ LoadOrder[3] = "cross"
      /\ LoadOrder[4] = "cUpHeader" /\ LoadOrder[5] = "cUp" /\ LoadOrder[6] = "cLeftHeader"
      /\ LoadOrder[7] = "cLeft" /\ LoadOrder[8] = "idle"
  BY DEF LoadOrder
<1>2. /\ (LoadHas(p, "groupHeader") <=> (IsRow0(p) \/ IsCol0(p)))
      /\ (LoadHas(p, "crossHeaders") <=> (~IsRow0(p) \/ ~IsCol0(p)))
      /\ (LoadHas(p, "cross") <=> (~IsRow0(p) \/ ~IsCol0(p)))
      /\ (LoadHas(p, "cUpHeader") <=> FromUpC(p)) /\ (LoadHas(p, "cUp") <=> FromUpC(p))
      /\ (LoadHas(p, "cLeftHeader") <=> FromLeftC(p)) /\ (LoadHas(p, "cLeft") <=> FromLeftC(p))
      /\ LoadHas(p, "idle")
  BY SMT DEF LoadHas
<1> DEFINE from(i) == FirstFrom(LoadOrder, LoadHas, p, i)
<1>3. \A i \in 1 .. 8 :
        /\ LoadHas(p, LoadOrder[i]) => from(i) = LoadOrder[i]
        /\ ~LoadHas(p, LoadOrder[i]) => from(i) = from(i + 1)
  BY LoadFrom
<1>4. \A i \in 1 .. 7 : AfterLoad(p, LoadOrder[i]) = from(i + 1)
  <2> TAKE i \in 1 .. 7
  <2>1. (CHOOSE k \in DOMAIN LoadOrder : LoadOrder[k] = LoadOrder[i]) = i
    BY LoadAt
  <2>2. 1 + (CHOOSE k \in DOMAIN LoadOrder : LoadOrder[k] = LoadOrder[i]) = 1 + i
    BY <2>1, Zenon
  <2>3. 1 + i = i + 1
    OBVIOUS
  <2> QED
    BY <2>2, <2>3, Zenon DEF AfterLoad, Following, from
<1> HIDE DEF from
<1>5. from(8) = "idle"
  BY <1>1, <1>2, <1>3
<1>6. from(7) = IF FromLeftC(p) THEN "cLeft" ELSE "idle"
  BY <1>1, <1>2, <1>3
<1>7. from(6) = IF FromLeftC(p) THEN "cLeftHeader" ELSE "idle"
  BY <1>1, <1>2, <1>3, <1>6, <1>5
<1>8. FromUpC(p) => from(5) = "cUp"
  BY <1>1, <1>2, <1>3
<1>9. from(4) = IF FromUpC(p) THEN "cUpHeader" ELSE IF FromLeftC(p) THEN "cLeftHeader" ELSE "idle"
  BY <1>1, <1>2, <1>3, <1>7
<1>10. ~IsRow0(p) \/ ~IsCol0(p) => from(2) = "crossHeaders" /\ from(3) = "cross"
  BY <1>1, <1>2, <1>3
<1>11. IsRow0(p) /\ IsCol0(p) => from(2) = "idle"
  BY <1>1, <1>2, <1>3, <1>9 DEF FromUpC, FromLeftC
<1>12. FirstLoad(p) = from(1)
  BY DEF FirstLoad, from
<1>13. from(1) = IF IsRow0(p) \/ IsCol0(p) THEN "groupHeader" ELSE "crossHeaders"
  BY <1>1, <1>2, <1>3, <1>10
<1> QED
  BY <1>1, <1>4, <1>5, <1>6, <1>7, <1>8, <1>9, <1>10, <1>11, <1>12, <1>13

LEMMA ComputePhases ==
  ASSUME NEW p \in Position
  PROVE  /\ FirstFrom(ComputeOrder, ComputeHas, p, 1) =
              IF IsCol0(p) THEN "recvA" ELSE IF IsRow0(p) THEN "recvB" ELSE "step"
         /\ Following(ComputeOrder, ComputeHas, p, "recvA") =
              IF IsRow0(p) THEN "recvB" ELSE "step"
         /\ Following(ComputeOrder, ComputeHas, p, "recvB") = "step"
         /\ Following(ComputeOrder, ComputeHas, p, "step") = "drain"
         /\ Following(ComputeOrder, ComputeHas, p, "drain") = "pos"
<1>1. /\ ComputeOrder[1] = "recvA" /\ ComputeOrder[2] = "recvB" /\ ComputeOrder[3] = "step"
      /\ ComputeOrder[4] = "drain" /\ ComputeOrder[5] = "pos"
  BY DEF ComputeOrder
<1>2. /\ (ComputeHas(p, "recvA") <=> IsCol0(p)) /\ (ComputeHas(p, "recvB") <=> IsRow0(p))
      /\ ComputeHas(p, "step") /\ ComputeHas(p, "drain")
      /\ ComputeHas(p, "pos")
  BY SMT DEF ComputeHas
<1> DEFINE from(i) == FirstFrom(ComputeOrder, ComputeHas, p, i)
<1>3. \A i \in 1 .. 5 :
        /\ ComputeHas(p, ComputeOrder[i]) => from(i) = ComputeOrder[i]
        /\ ~ComputeHas(p, ComputeOrder[i]) => from(i) = from(i + 1)
  BY ComputeFrom
<1>4. \A i \in 1 .. 4 : Following(ComputeOrder, ComputeHas, p, ComputeOrder[i]) = from(i + 1)
  <2> TAKE i \in 1 .. 4
  <2>1. (CHOOSE k \in DOMAIN ComputeOrder : ComputeOrder[k] = ComputeOrder[i]) = i
    BY ComputeAt
  <2>2. 1 + (CHOOSE k \in DOMAIN ComputeOrder : ComputeOrder[k] = ComputeOrder[i]) = 1 + i
    BY <2>1, Zenon
  <2>3. 1 + i = i + 1
    OBVIOUS
  <2> QED
    BY <2>2, <2>3, Zenon DEF Following, from
<1> HIDE DEF from
<1>5. from(5) = "pos" /\ from(4) = "drain" /\ from(3) = "step"
  BY <1>1, <1>2, <1>3
<1>6. from(2) = IF IsRow0(p) THEN "recvB" ELSE "step"
  BY <1>1, <1>2, <1>3, <1>5
<1>7. from(1) = IF IsCol0(p) THEN "recvA" ELSE IF IsRow0(p) THEN "recvB" ELSE "step"
  BY <1>1, <1>2, <1>3, <1>6
<1> QED
  BY <1>1, <1>4, <1>5, <1>6, <1>7 DEF from

(* The phase of store from the i-th of StoreOrder on. *)
StoreNext(p, i) == FirstFrom(StoreOrder, StoreHas, p, i)

LEMMA StorePhases ==
  ASSUME NEW p \in Position
  PROVE  /\ StoreNext(p, 1) = IF IsRow0(p) /\ ~IsLastCol(p) THEN "frameRight" ELSE StoreNext(p, 2)
         /\ StoreNext(p, 2) = IF IsCol0(p) /\ ~IsLastRow(p) THEN "frameDown" ELSE StoreNext(p, 3)
         /\ StoreNext(p, 3) = IF ~IsLastCol(p) THEN "headerRight" ELSE StoreNext(p, 4)
         /\ StoreNext(p, 4) = IF ~IsLastRow(p) THEN "headerDown" ELSE StoreNext(p, 5)
         /\ StoreNext(p, 5) = IF IsLastCol(p) /\ IsLastRow(p) THEN "cHeader" ELSE "cross"
         /\ AfterStore(p, "frameRight") = StoreNext(p, 2)
         /\ AfterStore(p, "frameDown") = StoreNext(p, 3)
         /\ AfterStore(p, "headerRight") = StoreNext(p, 4)
         /\ AfterStore(p, "headerDown") = StoreNext(p, 5)
         /\ AfterStore(p, "cross") = "cHeader"
         /\ AfterStore(p, "cHeader") = IF FromUpC(p) \/ FromLeftC(p) THEN "cPass" ELSE "emit"
         /\ AfterStore(p, "cPass") = "emit"
         /\ AfterStore(p, "emit") = "pos"
<1>1. /\ StoreOrder[1] = "frameRight" /\ StoreOrder[2] = "frameDown"
      /\ StoreOrder[3] = "headerRight" /\ StoreOrder[4] = "headerDown"
      /\ StoreOrder[5] = "cross" /\ StoreOrder[6] = "cHeader"
      /\ StoreOrder[7] = "cPass" /\ StoreOrder[8] = "emit" /\ StoreOrder[9] = "pos"
  BY DEF StoreOrder
<1>2. /\ (StoreHas(p, "frameRight") <=> (IsRow0(p) /\ ~IsLastCol(p)))
      /\ (StoreHas(p, "frameDown") <=> (IsCol0(p) /\ ~IsLastRow(p)))
      /\ (StoreHas(p, "headerRight") <=> ~IsLastCol(p))
      /\ (StoreHas(p, "headerDown") <=> ~IsLastRow(p))
      /\ (StoreHas(p, "cross") <=> (~IsLastCol(p) \/ ~IsLastRow(p)))
      /\ StoreHas(p, "cHeader")
      /\ (StoreHas(p, "cPass") <=> (FromUpC(p) \/ FromLeftC(p)))
      /\ StoreHas(p, "emit") /\ StoreHas(p, "pos")
  BY SMT DEF StoreHas
<1>3. \A i \in 1 .. 9 :
        /\ StoreHas(p, StoreOrder[i]) => StoreNext(p, i) = StoreOrder[i]
        /\ ~StoreHas(p, StoreOrder[i]) => StoreNext(p, i) = StoreNext(p, i + 1)
  BY StoreFrom DEF StoreNext
<1>4. \A i \in 1 .. 8 : AfterStore(p, StoreOrder[i]) = StoreNext(p, i + 1)
  <2> TAKE i \in 1 .. 8
  <2>1. (CHOOSE k \in DOMAIN StoreOrder : StoreOrder[k] = StoreOrder[i]) = i
    BY StoreAt
  <2>2. 1 + (CHOOSE k \in DOMAIN StoreOrder : StoreOrder[k] = StoreOrder[i]) = 1 + i
    BY <2>1, Zenon
  <2>3. 1 + i = i + 1
    OBVIOUS
  <2> QED
    BY <2>2, <2>3, Zenon DEF AfterStore, Following, StoreNext
<1>5. StoreNext(p, 9) = "pos" /\ StoreNext(p, 8) = "emit"
  BY <1>1, <1>2, <1>3
<1>6. StoreNext(p, 7) = IF FromUpC(p) \/ FromLeftC(p) THEN "cPass" ELSE "emit"
  BY <1>1, <1>2, <1>3, <1>5
<1>7. StoreNext(p, 6) = "cHeader"
  BY <1>1, <1>2, <1>3
<1>8. StoreNext(p, 5) = IF IsLastCol(p) /\ IsLastRow(p) THEN "cHeader" ELSE "cross"
  BY <1>1, <1>2, <1>3, <1>7
<1>9. StoreNext(p, 4) = IF ~IsLastRow(p) THEN "headerDown" ELSE StoreNext(p, 5)
  BY <1>1, <1>2, <1>3, <1>8
<1>10. StoreNext(p, 3) = IF ~IsLastCol(p) THEN "headerRight" ELSE StoreNext(p, 4)
  BY <1>1, <1>2, <1>3, <1>9
<1>11. StoreNext(p, 2) = IF IsCol0(p) /\ ~IsLastRow(p) THEN "frameDown" ELSE StoreNext(p, 3)
  BY <1>1, <1>2, <1>3, <1>10
<1>12. StoreNext(p, 1) = IF IsRow0(p) /\ ~IsLastCol(p) THEN "frameRight" ELSE StoreNext(p, 2)
  BY <1>1, <1>2, <1>3, <1>11
<1> QED
  BY <1>1, <1>4, <1>5, <1>6, <1>7, <1>8, <1>9, <1>10, <1>11, <1>12

-----------------------------------------------------------------------------
(* Words taken and words sent. *)

Counts == [Channels -> Nat]

Past(n, cs) == [c \in Channels |-> IF c \in cs THEN n[c] + 1 ELSE n[c]]

(* chan holds, channel by channel, the words that history tk, sn says. *)
AllHold(ch, tk, sn) == \A c \in Channels : Holds(ch[c], c, tk, sn)

LEMMA Depths == \A c \in Channels : Depth(c) \in Nat
<1>1. /\ K \in Nat \ {0} /\ CROSS \in Nat /\ LINK \in Nat /\ ACCS \in Nat /\ CBEAT \in Nat
      /\ R - 1 \in Nat /\ S - 1 \in Nat /\ S \in Nat
  BY Constants, Beats
<1>2. FWD_MAX + 2 \in Nat
  <2>1. FRAMES_MAX - 1 \in Nat
    BY <1>1 DEF FRAMES_MAX, MaxOf
  <2>2. (FRAMES_MAX - 1) * (1 + K) \in Nat
    BY <2>1, <1>1, Products, 1 + K \in Nat
  <2> QED
    BY <2>2 DEF FWD_MAX
<1>3. CPASS_MAX + 2 \in Nat
  <2>1. (R - 1) * S \in Nat
    BY <1>1, Products
  <2>2. (R - 1) * S + (S - 1) \in Nat
    BY <2>1, <1>1
  <2>3. ((R - 1) * S + (S - 1)) * CBEAT \in Nat
    BY <2>2, <1>1, Products
  <2> QED
    BY <2>3 DEF CPASS_MAX
<1> TAKE c \in Channels
<1>4. \/ Depth(c) = BufDepth \/ Depth(c) = FWD_MAX + 2 \/ Depth(c) = CROSS
      \/ Depth(c) = CMineDepth \/ Depth(c) = CPASS_MAX + 2 \/ Depth(c) = 2 \/ Depth(c) = LINK
  <2> HIDE DEF BufDepth, FWD_MAX, CMineDepth, CPASS_MAX
  <2>1. CASE c[1] \in {"bufA", "bufB"}
    BY <2>1, SMT DEF Depth
  <2>2. CASE c[1] \in {"fwdRight", "fwdDown"}
    BY <2>2, SMT DEF Depth
  <2>3. CASE c[1] \in {"xaIn", "xbIn", "xaOut", "xbOut"}
    BY <2>3, SMT DEF Depth
  <2>4. CASE c[1] = "cMine"
    BY <2>4, SMT DEF Depth
  <2>5. CASE c[1] = "cPass"
    BY <2>5, SMT DEF Depth
  <2>6. CASE c[1] \in {"posC", "posS", "down"}
    BY <2>6, SMT DEF Depth
  <2>7. CASE c[1] \notin {"bufA", "bufB", "fwdRight", "fwdDown", "xaIn", "xbIn", "xaOut", "xbOut",
                          "cMine", "cPass", "posC", "posS", "down"}
    BY <2>7, SMT DEF Depth
  <2> QED
    BY <2>1, <2>2, <2>3, <2>4, <2>5, <2>6, <2>7
<1> QED
  BY <1>1, <1>2, <1>3, <1>4 DEF BufDepth, CMineDepth

LEMMA HeadWord ==
  ASSUME NEW tk \in Counts, NEW sn \in Counts, NEW c \in Channels, NEW ch,
         Holds(ch, c, tk, sn), ch # << >>
  PROVE  Head(ch) = Word(c, tk[c] + 1) /\ tk[c] < sn[c]
BY DEF Holds, Counts

LEMMA TakenSent ==
  ASSUME NEW tk \in Counts, NEW sn \in Counts, NEW c \in Channels, NEW ch,
         Holds(ch, c, tk, sn)
  PROVE  /\ tk[c] \in Nat /\ sn[c] \in Nat /\ tk[c] <= sn[c]
         /\ ch = << >> <=> tk[c] = sn[c]
BY DEF Holds, Counts

LEMMA Moved ==
  ASSUME NEW tk \in Counts, NEW sn \in Counts, AllHold(chan, tk, sn),
         NEW rd \in SUBSET Channels, NEW wr, DOMAIN wr \subseteq Channels,
         Fire(rd, wr), \A c \in DOMAIN wr : wr[c] = Word(c, sn[c] + 1)
  PROVE  /\ Past(tk, rd) \in Counts /\ Past(sn, DOMAIN wr) \in Counts
         /\ AllHold(chan', Past(tk, rd), Past(sn, DOMAIN wr))
         /\ chan' = [c \in Channels |-> chan'[c]]
<1> DEFINE tk2 == Past(tk, rd)
           sn2 == Past(sn, DOMAIN wr)
<1>1. tk2 \in Counts /\ sn2 \in Counts
  BY DEF Past, Counts
<1>2. chan' = [c \in Channels |-> chan'[c]]
  BY DEF Fire
<1>3. ASSUME NEW c \in Channels
      PROVE  Holds(chan'[c], c, tk2, sn2)
  <2> DEFINE kept == IF c \in rd THEN Tail(chan[c]) ELSE chan[c]
  <2>1. /\ chan[c] \in Seq(Words) /\ Len(chan[c]) = sn[c] - tk[c] /\ Len(chan[c]) <= Depth(c)
        /\ \A i \in 1 .. Len(chan[c]) : chan[c][i] = Word(c, tk[c] + i)
        /\ tk[c] \in Nat /\ sn[c] \in Nat /\ Depth(c) \in Nat
    BY Depths DEF AllHold, Holds, Counts
  <2>2. tk2[c] = (IF c \in rd THEN tk[c] + 1 ELSE tk[c])
        /\ sn2[c] = (IF c \in DOMAIN wr THEN sn[c] + 1 ELSE sn[c])
    BY DEF Past
  <2>3. /\ kept \in Seq(Words) /\ Len(kept) = sn[c] - tk2[c] /\ Len(kept) <= Depth(c)
        /\ \A i \in 1 .. Len(kept) : kept[i] = Word(c, tk2[c] + i)
        /\ (HasRoom(c) => Len(kept) < Depth(c)) /\ tk2[c] \in Nat
    <3>1. CASE c \in rd
      <4>1. chan[c] # << >>
        BY <3>1 DEF Fire, HasWord
      <4>2. PICK q \in Seq(Words), m \in Nat : q = chan[c] /\ m + 1 = Len(q)
        <5>1. Len(chan[c]) - 1 \in Nat /\ Len(chan[c]) - 1 + 1 = Len(chan[c])
          BY <2>1, <4>1
        <5> QED
          BY <5>1, <2>1
      <4>3. /\ Tail(q) \in Seq(Words) /\ Len(Tail(q)) = m
            /\ \A i \in 1 .. m : Tail(q)[i] = q[i + 1]
        BY <4>1, <4>2
      <4>4. \A i \in 1 .. m : Tail(q)[i] = Word(c, tk[c] + 1 + i)
        <5> TAKE i \in 1 .. m
        <5>1. i + 1 \in 1 .. m + 1 /\ tk[c] + (i + 1) = tk[c] + 1 + i
          BY <2>1
        <5>2. q[i + 1] = Word(c, tk[c] + (i + 1))
          BY <5>1, <2>1, <4>2
        <5> QED
          BY <5>1, <5>2, <4>3
      <4>5. kept = Tail(q) /\ tk2[c] = tk[c] + 1
        BY <3>1, <4>2, <2>2
      <4>6. m = sn[c] - (tk[c] + 1) /\ m <= Depth(c) /\ m < Depth(c)
        <5>1. m + 1 = sn[c] - tk[c] /\ m + 1 <= Depth(c)
          BY <2>1, <4>2
        <5> QED
          BY <5>1, <2>1
      <4>7. /\ Tail(q) \in Seq(Words) /\ Len(Tail(q)) = sn[c] - (tk[c] + 1)
            /\ Len(Tail(q)) <= Depth(c) /\ Len(Tail(q)) < Depth(c)
            /\ \A i \in 1 .. Len(Tail(q)) : Tail(q)[i] = Word(c, tk[c] + 1 + i)
        BY <4>3, <4>4, <4>6
      <4> HIDE DEF kept, tk2
      <4> QED
        BY <4>5, <4>7, <2>1
    <3>2. CASE c \notin rd
      BY <3>2, <2>1, <2>2 DEF HasRoom
    <3> QED
      BY <3>1, <3>2
  <2>4. chan'[c] = IF c \in DOMAIN wr THEN Append(kept, wr[c]) ELSE kept
    BY DEF Fire
  <2> HIDE DEF kept
  <2>5. CASE c \in DOMAIN wr
    <3>1. wr[c] = Word(c, sn[c] + 1) /\ wr[c] \in Words /\ HasRoom(c)
      <4>1. sn[c] + 1 \in Nat \ {0}
        BY <2>1
      <4> QED
        BY <4>1, <2>5 DEF Words, Fire
    <3>2. /\ Append(kept, wr[c]) \in Seq(Words) /\ Len(Append(kept, wr[c])) = Len(kept) + 1
          /\ \A i \in 1 .. Len(kept) : Append(kept, wr[c])[i] = kept[i]
          /\ Append(kept, wr[c])[Len(kept) + 1] = wr[c]
      BY <3>1, <2>3
    <3>3. sn[c] + 1 = tk2[c] + (Len(kept) + 1)
      BY <2>1, <2>3
    <3>4. \A i \in 1 .. Len(kept) + 1 : Append(kept, wr[c])[i] = Word(c, tk2[c] + i)
      <4> TAKE i \in 1 .. Len(kept) + 1
      <4>1. CASE i = Len(kept) + 1
        BY <4>1, <3>1, <3>2, <3>3
      <4>2. CASE i # Len(kept) + 1
        <5>1. i \in 1 .. Len(kept)
          BY <4>2, <2>3
        <5> QED
          BY <5>1, <3>2, <2>3
      <4> QED
        BY <4>1, <4>2
    <3>5. chan'[c] = Append(kept, wr[c]) /\ sn2[c] = sn[c] + 1
      BY <2>2, <2>4, <2>5
    <3> HIDE DEF tk2, sn2
    <3> QED
      BY <3>1, <3>2, <3>4, <3>5, <2>1, <2>3 DEF Holds
  <2>6. CASE c \notin DOMAIN wr
    <3>1. chan'[c] = kept /\ sn2[c] = sn[c]
      BY <2>2, <2>4, <2>6
    <3> HIDE DEF tk2, sn2
    <3> QED
      BY <3>1, <2>3 DEF Holds
  <2> QED
    BY <2>5, <2>6
<1> QED
  BY <1>1, <1>2, <1>3 DEF AllHold

-----------------------------------------------------------------------------
(* The fields of a word. *)

NotLast(w) == [w EXCEPT !.last = FALSE]

Labelled(hdr, type, at, i, x) ==
  [hdr |-> hdr, type |-> type, at |-> at, i |-> i, last |-> x]

LEMMA Relabelled ==
  ASSUME NEW hdr, NEW type, NEW at, NEW i, NEW x
  PROVE  NotLast(Labelled(hdr, type, at, i, x)) = Labelled(hdr, type, at, i, FALSE)
<1> PICK y : y = FALSE
  OBVIOUS
<1> DEFINE w == [hdr |-> hdr, type |-> type, at |-> at, i |-> i, last |-> x]
           v == [hdr |-> hdr, type |-> type, at |-> at, i |-> i, last |-> y]
           u == [w EXCEPT !.last = y]
           Shape == [hdr : {hdr}, type : {type}, at : {at}, i : {i}, last : {x, y}]
<1>1. w \in Shape /\ v \in Shape
  BY SMT
<1>2. u \in Shape
  BY <1>1, SMT
<1>3. u.hdr = hdr /\ u.type = type /\ u.at = at /\ u.i = i /\ u.last = y
  BY SMT
<1>4. v.hdr = hdr /\ v.type = type /\ v.at = at /\ v.i = i /\ v.last = y
  BY SMT
<1> HIDE DEF u, v
<1>5. u = v
  BY <1>1, <1>2, <1>3, <1>4, SMT
<1>6. NotLast(w) = u /\ v = Labelled(hdr, type, at, i, FALSE) /\ w = Labelled(hdr, type, at, i, x)
  BY Zenon DEF u, v, NotLast, Labelled
<1> QED
  BY <1>5, <1>6, Zenon

LEMMA PayloadNotLast ==
  ASSUME NEW type, NEW p, NEW i, NEW x
  PROVE  NotLast(Payload(type, p, i, x)) = Payload(type, p, i, FALSE)
<1>1. /\ Payload(type, p, i, x) = Labelled(FALSE, type, p, i, x)
      /\ Payload(type, p, i, FALSE) = Labelled(FALSE, type, p, i, FALSE)
  BY Zenon DEF Payload, Labelled
<1> QED
  BY <1>1, Relabelled

LEMMA PayloadFields ==
  ASSUME NEW type, NEW p, NEW i, NEW x
  PROVE  /\ ~Payload(type, p, i, x).hdr /\ Payload(type, p, i, x).type = type
         /\ Payload(type, p, i, x).at = p /\ Payload(type, p, i, x).i = i
BY SMT DEF Payload

LEMMA HeaderFields ==
  ASSUME NEW type, NEW p
  PROVE  /\ Header(type, p).hdr /\ Header(type, p).type = type
         /\ Header(type, p).at = p /\ ~Header(type, p).last
         /\ NotLast(Header(type, p)) = Header(type, p)
<1>1. Header(type, p) = Labelled(TRUE, type, p, 0, FALSE)
  BY Zenon DEF Header, Labelled
<1>2. NotLast(Header(type, p)) = Header(type, p)
  BY <1>1, Relabelled
<1> QED
  BY <1>2, SMT DEF Header

-----------------------------------------------------------------------------
(* One group of frames: the header or the payload beat that comes next.  *)

LEMMA GroupFacts ==
  ASSUME NEW type \in FrameTypes, NEW b \in Position, HasGroup(type, b),
         NEW q \in Own(type, b) .. Count(type) - 1
  PROVE  /\ Own(type, b) \in Nat /\ q \in 0 .. Count(type) - 1 /\ q \in Nat
         /\ Count(type) \in Nat \ {0}
         /\ Dest(type, q) = b <=> q = Own(type, b)
         /\ FrameWords(q) \in Nat /\ FrameWords(Own(type, b) + 1) \in Nat
         /\ FrameWords(q + 1) = FrameWords(q) + 1 + K
         /\ q # Own(type, b) => FrameWords(Own(type, b) + 1) <= FrameWords(q)
         /\ K \in Nat \ {0}
         /\ Own(type, b) \in Own(type, b) .. Count(type) - 1
<1>1. b[1] \in 0 .. R - 1 /\ b[2] \in 0 .. S - 1 /\ b = <<b[1], b[2]>>
  BY Places
<1>2. Own(type, b) \in Nat /\ Count(type) \in Nat \ {0} /\ Own(type, b) \in 0 .. Count(type) - 1
  BY <1>1, Constants, TransferIsGroup DEF Own, Count, FrameTypes
<1>3. q \in 0 .. Count(type) - 1 /\ q \in Nat /\ Own(type, b) + 1 \in Nat
  BY <1>2
<1>4. Dest(type, q) = b <=> q = Own(type, b)
  BY <1>1, <1>3 DEF Dest, Own, HasGroup, IsRow0, IsCol0
<1>5. q # Own(type, b) => Own(type, b) + 1 <= q
  BY <1>2
<1>6. q # Own(type, b) => FrameWords(Own(type, b) + 1) <= FrameWords(q)
  BY <1>3, <1>5, Frames
<1> QED
  BY <1>2, <1>3, <1>4, <1>6, Frames, Constants

(* The header of frame q is the one at hand, and where load goes with it. *)
WithHeader(b, l, h) ==
  [l EXCEPT !.h = h, !.fresh = FALSE, !.n = 0,
            !.pc = IF h.at = b THEN "payload" ELSE "forwardHeader"]

HeaderOfFrame(type, b, l, g, buf, fwd, q) ==
  LET h == Header(type, Dest(type, q))
  IN  /\ l.fresh => /\ l.h = h /\ g = FrameWords(q) + 1
                    /\ InGroup(type, b, WithHeader(b, l, h), g, buf, fwd)
      /\ ~l.fresh => /\ Transfer(type)[g + 1] = h
                     /\ g \in Nat /\ g < FrameWords(Count(type))
                     /\ InGroup(type, b, WithHeader(b, l, h), g + 1, buf, fwd)

LEMMA GroupHeaderStep ==
  ASSUME NEW type \in FrameTypes, NEW b \in Position, HasGroup(type, b),
         NEW l \in LoadStates, NEW g, NEW buf, NEW fwd,
         InGroup(type, b, l, g, buf, fwd), l.pc = "groupHeader"
  PROVE  \E q \in Own(type, b) .. Count(type) - 1 : HeaderOfFrame(type, b, l, g, buf, fwd, q)
<1> DEFINE own == Own(type, b)
<1>1. PICK q \in own .. Count(type) - 1 :
        \/ /\ l.fresh
           /\ q = own /\ l.h = Header(type, b) /\ g = FrameWords(q) + 1 /\ buf = 0 /\ fwd = 0
        \/ /\ ~l.fresh
           /\ g = FrameWords(q)
           /\ buf = (IF q = own THEN 0 ELSE K)
           /\ fwd = (IF q = own THEN 0 ELSE FrameWords(q) - FrameWords(own + 1))
  BY SMT DEF InGroup
<1> DEFINE h  == Header(type, Dest(type, q))
           l2 == WithHeader(b, l, h)
<1>2. /\ own \in Nat /\ q \in 0 .. Count(type) - 1 /\ (Dest(type, q) = b <=> q = own)
      /\ FrameWords(q) \in Nat /\ K \in Nat \ {0}
  BY GroupFacts
<1>3. /\ l2.h = h /\ l2.fresh = FALSE /\ l2.n = 0 /\ h.at = Dest(type, q)
      /\ l2.pc = (IF q = own THEN "payload" ELSE "forwardHeader")
  BY <1>2 DEF LoadStates, Header, WithHeader
<1> HIDE DEF h, l2
<1>4. CASE l.fresh
  <2>1. q = own /\ l.h = Header(type, b) /\ g = FrameWords(q) + 1 /\ buf = 0 /\ fwd = 0
    BY <1>1, <1>4
  <2>2. l.h = h
    BY <2>1, <1>2 DEF h
  <2>3. InGroup(type, b, l2, g, buf, fwd)
    BY <2>1, <1>2, <1>3 DEF InGroup, h
  <2> QED
    BY <1>4, <2>1, <2>2, <2>3 DEF h, l2, HeaderOfFrame
<1>5. CASE ~l.fresh
  <2>1. Transfer(type)[g + 1] = h /\ g \in Nat /\ g < FrameWords(Count(type))
    <3>1. FrameWords(q) + 1 \in 1 .. FrameWords(Count(type)) /\ Transfer(type)[FrameWords(q) + 1] = h
      BY <1>2, TransferWords DEF h
    <3>2. FrameWords(Count(type)) \in Nat
      BY TransferIsGroup, Frames
    <3> QED
      BY <3>1, <3>2, <1>1, <1>2, <1>5
  <2>2. InGroup(type, b, l2, g + 1, buf, fwd)
    <3>1. CASE q = own
      BY <3>1, <1>1, <1>2, <1>3, <1>5 DEF InGroup, h
    <3>2. CASE q # own
      BY <3>2, <1>1, <1>2, <1>3, <1>5 DEF InGroup, h
    <3> QED
      BY <3>1, <3>2
  <2> QED
    BY <1>5, <2>1, <2>2 DEF h, l2, HeaderOfFrame
<1> QED
  BY <1>4, <1>5

LEMMA ForwardHeaderStep ==
  ASSUME NEW type \in FrameTypes, NEW b \in Position, HasGroup(type, b),
         NEW l \in LoadStates, NEW g, NEW buf, NEW fwd,
         InGroup(type, b, l, g, buf, fwd), l.pc = "forwardHeader"
  PROVE  /\ fwd \in Nat /\ l.h.type = type
         /\ NotLast(l.h) = Transfer(type)[FrameWords(Own(type, b) + 1) + (fwd + 1)]
         /\ InGroup(type, b, [l EXCEPT !.pc = "payload"], g, buf, fwd + 1)
<1> DEFINE own == Own(type, b)
<1>1. PICK q \in own .. Count(type) - 1 :
        /\ ~l.fresh
        /\ q # own /\ l.h = Header(type, Dest(type, q)) /\ l.n = 0
        /\ g = FrameWords(q) + 1
        /\ buf = K /\ fwd = FrameWords(q) - FrameWords(own + 1)
  BY SMT DEF InGroup
<1>2. /\ q \in 0 .. Count(type) - 1 /\ FrameWords(q) \in Nat /\ FrameWords(own + 1) \in Nat
      /\ FrameWords(own + 1) <= FrameWords(q) /\ K \in Nat \ {0}
  BY <1>1, GroupFacts
<1> DEFINE l2 == [l EXCEPT !.pc = "payload"]
<1>3. l2.pc = "payload" /\ l2.h = l.h /\ l2.n = l.n /\ l2.fresh = l.fresh
  BY DEF LoadStates
<1>4. NotLast(l.h) = l.h /\ l.h.type = type
  BY <1>1, HeaderFields
<1>5. fwd \in Nat /\ FrameWords(own + 1) + (fwd + 1) = FrameWords(q) + 1
  BY <1>1, <1>2
<1>6. Transfer(type)[FrameWords(q) + 1] = l.h
  BY <1>1, <1>2, TransferWords
<1> HIDE DEF l2
<1>7. InGroup(type, b, l2, g, buf, fwd + 1)
  BY <1>1, <1>2, <1>3 DEF InGroup
<1> QED
  BY <1>4, <1>5, <1>6, <1>7 DEF l2

(* The payload beat that is at hand, and where load goes with it. *)
BeatOfFrame(type, b, l, g, buf, fwd) ==
  LET w    == Transfer(type)[g + 1]
      mine == l.h.at = b
      buf2 == IF mine THEN buf + 1 ELSE buf
      fwd2 == IF mine THEN fwd ELSE fwd + 1
  IN  /\ g \in Nat /\ g < FrameWords(Count(type)) /\ buf \in Nat /\ fwd \in Nat
      /\ l.h.type = type /\ ~l.fresh
      /\ w = Payload(type, l.h.at, l.n, w.last) /\ w.last \in BOOLEAN
      /\ mine => NotLast(w) = Payload(type, b, buf, FALSE)
      /\ ~mine => w = Transfer(type)[FrameWords(Own(type, b) + 1) + (fwd + 1)]
      /\ l.n < K - 1 => InGroup(type, b, [l EXCEPT !.n = @ + 1], g + 1, buf2, fwd2)
      /\ l.n = K - 1 /\ ~w.last =>
           InGroup(type, b, [l EXCEPT !.pc = "groupHeader"], g + 1, buf2, fwd2)
      /\ l.n = K - 1 /\ w.last =>
           /\ g + 1 = FrameWords(Count(type)) /\ buf2 = K
           /\ fwd2 = FrameWords(Count(type)) - FrameWords(Own(type, b) + 1)
      /\ l.n \in 0 .. K - 1

LEMMA PayloadStep ==
  ASSUME NEW type \in FrameTypes, NEW b \in Position, HasGroup(type, b),
         NEW l \in LoadStates, NEW g, NEW buf, NEW fwd,
         InGroup(type, b, l, g, buf, fwd), l.pc = "payload"
  PROVE  BeatOfFrame(type, b, l, g, buf, fwd)
<1> DEFINE own == Own(type, b)
<1>1. PICK q \in own .. Count(type) - 1 :
        /\ ~l.fresh
        /\ l.h = Header(type, Dest(type, q)) /\ l.n < K
        /\ g = FrameWords(q) + 1 + l.n
        /\ buf = (IF q = own THEN l.n ELSE K)
        /\ fwd = (IF q = own THEN 0 ELSE FrameWords(q) - FrameWords(own + 1) + 1 + l.n)
  BY SMT DEF InGroup
<1>2. /\ q \in 0 .. Count(type) - 1 /\ FrameWords(q) \in Nat /\ FrameWords(own + 1) \in Nat
      /\ (q # own => FrameWords(own + 1) <= FrameWords(q)) /\ K \in Nat \ {0}
      /\ own \in Nat /\ q \in Nat
      /\ (Dest(type, q) = b <=> q = own) /\ FrameWords(q + 1) = FrameWords(q) + 1 + K
      /\ Count(type) \in Nat \ {0}
  BY GroupFacts
<1>3. l.n \in 0 .. K - 1 /\ l.h.at = Dest(type, q) /\ l.h.type = type
  BY <1>1, <1>2 DEF LoadStates, Header
<1> DEFINE w == Transfer(type)[g + 1]
           buf2 == IF l.h.at = b THEN buf + 1 ELSE buf
           fwd2 == IF l.h.at = b THEN fwd ELSE fwd + 1
<1>4. /\ w = Payload(type, Dest(type, q), l.n, q = Count(type) - 1 /\ l.n = K - 1)
      /\ g \in Nat /\ g < FrameWords(Count(type))
  <2>1. /\ FrameWords(q) + 2 + l.n \in 1 .. FrameWords(Count(type))
        /\ Transfer(type)[FrameWords(q) + 2 + l.n] =
             Payload(type, Dest(type, q), l.n, q = Count(type) - 1 /\ l.n = K - 1)
    BY <1>2, <1>3, TransferWords
  <2>2. FrameWords(Count(type)) \in Nat
    BY TransferIsGroup, Frames
  <2>3. g + 1 = FrameWords(q) + 2 + l.n
    BY <1>1, <1>2, <1>3
  <2> QED
    BY <2>1, <2>2, <2>3, <1>1, <1>2, <1>3
<1>5. /\ (w.last <=> q = Count(type) - 1 /\ l.n = K - 1) /\ w.last \in BOOLEAN
      /\ w = Payload(type, l.h.at, l.n, w.last)
      /\ NotLast(w) = Payload(type, Dest(type, q), l.n, FALSE)
  <2>1. (w.last <=> (q = Count(type) - 1 /\ l.n = K - 1)) /\ w.last \in BOOLEAN
    <3> HIDE DEF w
    <3>1. CASE q = Count(type) - 1 /\ l.n = K - 1
      <4>1. w = Payload(type, Dest(type, q), l.n, TRUE)
        BY <1>4, <3>1
      <4> QED
        BY <4>1, <3>1 DEF Payload
    <3>2. CASE ~(q = Count(type) - 1 /\ l.n = K - 1)
      <4>1. w = Payload(type, Dest(type, q), l.n, FALSE)
        BY <1>4, <3>2
      <4> QED
        BY <4>1, <3>2 DEF Payload
    <3> QED
      BY <3>1, <3>2
  <2>2. w = Payload(type, l.h.at, l.n, w.last)
    BY <1>3, <1>4, SMT DEF Payload
  <2>3. NotLast(w) = Payload(type, Dest(type, q), l.n, FALSE)
    BY <1>4, PayloadNotLast
  <2> QED
    BY <2>1, <2>2, <2>3
<1> HIDE DEF w
<1>6. buf \in Nat /\ fwd \in Nat
  BY <1>1, <1>2, <1>3
<1>7. l.h.at = b => NotLast(w) = Payload(type, b, buf, FALSE)
  BY <1>1, <1>2, <1>3, <1>5
<1>8. l.h.at # b => w = Transfer(type)[FrameWords(own + 1) + (fwd + 1)]
  <2>1. l.h.at # b => FrameWords(own + 1) + (fwd + 1) = g + 1
    BY <1>1, <1>2, <1>3
  <2> QED
    BY <2>1 DEF w
<1>9. /\ buf2 = (IF q = own THEN l.n + 1 ELSE K)
      /\ fwd2 = (IF q = own THEN 0 ELSE FrameWords(q) - FrameWords(own + 1) + 1 + (l.n + 1))
      /\ g + 1 = FrameWords(q) + 1 + (l.n + 1)
  BY <1>1, <1>2, <1>3
<1> HIDE DEF buf2, fwd2
<1>10. ASSUME l.n < K - 1
       PROVE  InGroup(type, b, [l EXCEPT !.n = @ + 1], g + 1, buf2, fwd2)
  <2> DEFINE l2 == [l EXCEPT !.n = @ + 1]
  <2>1. l2.pc = "payload" /\ l2.h = l.h /\ l2.n = l.n + 1 /\ l2.fresh = l.fresh
    BY DEF LoadStates
  <2>2. l2.n < K
    BY <2>1, <1>10, <1>2, <1>3
  <2> HIDE DEF l2
  <2>3. InGroup(type, b, l2, g + 1, buf2, fwd2)
    BY <2>1, <2>2, <1>1, <1>9 DEF InGroup
  <2> QED
    BY <2>3 DEF l2
<1>11. ASSUME l.n = K - 1, ~w.last
       PROVE  InGroup(type, b, [l EXCEPT !.pc = "groupHeader"], g + 1, buf2, fwd2)
  <2> DEFINE l2 == [l EXCEPT !.pc = "groupHeader"]
  <2>1. l2.pc = "groupHeader" /\ l2.fresh = l.fresh
    BY DEF LoadStates
  <2>2. q + 1 \in own .. Count(type) - 1 /\ q + 1 # own /\ l.n + 1 = K
    BY <1>11, <1>2, <1>5, <1>1
  <2>3. g + 1 = FrameWords(q + 1) /\ buf2 = K
    BY <2>2, <1>2, <1>9
  <2>4. fwd2 = FrameWords(q + 1) - FrameWords(own + 1)
    <3>1. CASE q = own
      BY <3>1, <2>2, <1>2, <1>9
    <3>2. CASE q # own
      BY <3>2, <2>2, <1>2, <1>9
    <3> QED
      BY <3>1, <3>2
  <2> HIDE DEF l2
  <2>5. InGroup(type, b, l2, g + 1, buf2, fwd2)
    BY <2>1, <2>2, <2>3, <2>4, <1>1 DEF InGroup
  <2> QED
    BY <2>5 DEF l2
<1>12. ASSUME l.n = K - 1, w.last
       PROVE  /\ g + 1 = FrameWords(Count(type)) /\ buf2 = K
              /\ fwd2 = FrameWords(Count(type)) - FrameWords(own + 1)
  <2>1. q = Count(type) - 1 /\ q + 1 = Count(type) /\ l.n + 1 = K
    BY <1>12, <1>2, <1>5
  <2>2. FrameWords(Count(type)) = FrameWords(q) + 1 + K
    BY <2>1, <1>2
  <2>3. CASE q = own
    BY <2>1, <2>2, <2>3, <1>2, <1>9
  <2>4. CASE q # own
    BY <2>1, <2>2, <2>4, <1>2, <1>9
  <2> QED
    BY <2>3, <2>4
<1> QED
  BY <1>1, <1>3, <1>4, <1>5, <1>6, <1>7, <1>8, <1>10, <1>11, <1>12 DEF w, buf2, fwd2, BeatOfFrame

-----------------------------------------------------------------------------
(* The channels of a process: the invariant of a process speaks of no other. *)

LoadFifos    == {"bufA", "bufB", "fwdRight", "fwdDown", "xaIn", "xbIn", "cPass", "posC", "posS"}
ComputeFifos == {"posC", "bufA", "bufB", "xaIn", "xbIn"}
StoreFifos   == {"posS", "fwdRight", "fwdDown", "xaOut", "xbOut", "cPass", "cMine"}

ReadByLoad(b)    == {InLeft(b), InUp(b)}
SentByLoad(b)    == LoadFifos \X {b}
ReadByCompute(b) == ComputeFifos \X {b}
SentByCompute(b) == {"xaOut", "xbOut", "cMine"} \X {b}
ReadByStore(b)   == StoreFifos \X {b}
SentByStore(b)   == {OutRight(b), OutDown(b)}

LEMMA OwnChannels ==
  ASSUME NEW b \in Blocks
  PROVE  /\ ReadByLoad(b) \subseteq Channels /\ SentByLoad(b) \subseteq Channels
         /\ ReadByCompute(b) \subseteq Channels /\ SentByCompute(b) \subseteq Channels
         /\ ReadByStore(b) \subseteq Channels /\ SentByStore(b) \subseteq Channels
         /\ FifoNames \X {b} \subseteq Channels
<1>1. ReadByLoad(b) \cup SentByStore(b) \subseteq Links
  BY DEF ReadByLoad, SentByStore, Links
<1>2. FifoNames \X {b} \subseteq Channels
  BY DEF Channels
<1>3. /\ SentByLoad(b) \subseteq FifoNames \X {b} /\ ReadByCompute(b) \subseteq FifoNames \X {b}
      /\ SentByCompute(b) \subseteq FifoNames \X {b} /\ ReadByStore(b) \subseteq FifoNames \X {b}
  BY DEF SentByLoad, ReadByCompute, SentByCompute, ReadByStore, LoadFifos, ComputeFifos,
         StoreFifos, FifoNames
<1> QED
  BY <1>1, <1>2, <1>3 DEF Channels

(* No two processes read a channel, and no two send to one. *)
LEMMA Apart ==
  ASSUME NEW a \in Blocks, NEW b \in Blocks
  PROVE  /\ ReadByLoad(a) \cap (ReadByCompute(b) \cup ReadByStore(b)) = {}
         /\ ReadByCompute(a) \cap ReadByStore(b) = {}
         /\ SentByLoad(a) \cap (SentByCompute(b) \cup SentByStore(b)) = {}
         /\ SentByCompute(a) \cap SentByStore(b) = {}
         /\ a # b => /\ ReadByLoad(a) \cap ReadByLoad(b) = {}
                     /\ ReadByCompute(a) \cap ReadByCompute(b) = {}
                     /\ ReadByStore(a) \cap ReadByStore(b) = {}
                     /\ SentByLoad(a) \cap SentByLoad(b) = {}
                     /\ SentByCompute(a) \cap SentByCompute(b) = {}
                     /\ SentByStore(a) \cap SentByStore(b) = {}
<1>1. \A c \in ReadByLoad(a) : c[1] \in {"left", "up"} /\ c[2] = a
  BY DEF ReadByLoad, InLeft, InUp
<1>2. /\ \A c \in SentByLoad(a) : c[1] \in LoadFifos /\ c[2] = a
      /\ \A c \in ReadByCompute(a) : c[1] \in ComputeFifos /\ c[2] = a
      /\ \A c \in SentByCompute(a) : c[1] \in {"xaOut", "xbOut", "cMine"} /\ c[2] = a
      /\ \A c \in ReadByStore(a) : c[1] \in StoreFifos /\ c[2] = a
  BY DEF SentByLoad, ReadByCompute, SentByCompute, ReadByStore
<1>3. \A c \in ReadByLoad(b) : c[1] \in {"left", "up"} /\ c[2] = b
  BY DEF ReadByLoad, InLeft, InUp
<1>4. /\ \A c \in SentByLoad(b) : c[1] \in LoadFifos /\ c[2] = b
      /\ \A c \in ReadByCompute(b) : c[1] \in ComputeFifos /\ c[2] = b
      /\ \A c \in SentByCompute(b) : c[1] \in {"xaOut", "xbOut", "cMine"} /\ c[2] = b
      /\ \A c \in ReadByStore(b) : c[1] \in StoreFifos /\ c[2] = b
  BY DEF SentByLoad, ReadByCompute, SentByCompute, ReadByStore
<1>5. \A c \in SentByStore(b) : c[1] \in {"left", "up", "down"}
  BY DEF SentByStore, OutRight, OutDown, InLeft, InUp
<1>6. a # b => SentByStore(a) \cap SentByStore(b) = {}
  <2> SUFFICES ASSUME a # b PROVE SentByStore(a) \cap SentByStore(b) = {}
    OBVIOUS
  <2>1. a = <<a[1], a[2]>> /\ b = <<b[1], b[2]>> /\ a[1] \in Int /\ a[2] \in Int /\ b[1] \in Int /\ b[2] \in Int
    BY Constants, Places
  <2>2. RightOf(a) # RightOf(b) /\ Below(a) # Below(b)
    BY <2>1 DEF RightOf, Below
  <2>3. OutRight(a) # OutRight(b) /\ OutRight(a) # OutDown(b) /\ OutRight(b) # OutDown(a)
    BY <2>2 DEF OutRight, OutDown, InLeft, InUp
  <2>4. OutDown(a) # OutDown(b)
    BY <2>2 DEF OutDown, InUp
  <2> QED
    BY <2>3, <2>4 DEF SentByStore
<1> QED
  BY <1>1, <1>2, <1>3, <1>4, <1>5, <1>6 DEF LoadFifos, ComputeFifos, StoreFifos

LEMMA LoadSame ==
  ASSUME NEW b \in Blocks, NEW l, NEW tk, NEW sn, NEW tk2, NEW sn2,
         \A c \in ReadByLoad(b) : tk2[c] = tk[c], \A c \in SentByLoad(b) : sn2[c] = sn[c],
         LoadInv(b, l, tk, sn)
  PROVE  LoadInv(b, l, tk2, sn2)
<1>1. tk2[InLeft(b)] = tk[InLeft(b)] /\ tk2[InUp(b)] = tk[InUp(b)]
  BY DEF ReadByLoad
<1>2. \A f \in LoadFifos : sn2[<<f, b>>] = sn[<<f, b>>]
  BY DEF SentByLoad
<1>3. /\ sn2[<<"bufA", b>>] = sn[<<"bufA", b>>] /\ sn2[<<"bufB", b>>] = sn[<<"bufB", b>>]
      /\ sn2[<<"fwdRight", b>>] = sn[<<"fwdRight", b>>]
      /\ sn2[<<"fwdDown", b>>] = sn[<<"fwdDown", b>>]
      /\ sn2[<<"xaIn", b>>] = sn[<<"xaIn", b>>] /\ sn2[<<"xbIn", b>>] = sn[<<"xbIn", b>>]
      /\ sn2[<<"cPass", b>>] = sn[<<"cPass", b>>]
      /\ sn2[<<"posC", b>>] = sn[<<"posC", b>>] /\ sn2[<<"posS", b>>] = sn[<<"posS", b>>]
  BY <1>2 DEF LoadFifos
<1>4. \A type \in {"A_FRAME", "B_FRAME"} :
        sn2[Buf(type, b)] = sn[Buf(type, b)] /\ sn2[Fwd(type, b)] = sn[Fwd(type, b)]
  BY <1>3 DEF Buf, Fwd
<1>5. \A type \in {"A_FRAME", "B_FRAME"} :
        /\ NoFrames(type, b, sn) <=> NoFrames(type, b, sn2)
        /\ AllFrames(type, b, sn) <=> AllFrames(type, b, sn2)
  BY <1>3 DEF NoFrames, AllFrames
<1>6. \A type \in {"A_FRAME", "B_FRAME"} :
        /\ OtherFrames(type, b, tk, sn) <=> OtherFrames(type, b, tk2, sn2)
        /\ GroupWords(type, b, tk2) = GroupWords(type, b, tk)
  BY <1>1, <1>5 DEF OtherFrames, GroupWords
<1>7. /\ FramesOver(b, sn) <=> FramesOver(b, sn2)
      /\ NoCrossing(b, sn) <=> NoCrossing(b, sn2)
      /\ CrossingOver(b, sn) <=> CrossingOver(b, sn2)
      /\ NothingSent(b, sn) <=> NothingSent(b, sn2)
  BY <1>3, <1>5 DEF FramesOver, NoCrossing, CrossingOver, NothingSent
<1>8. LoadFrames(b, l, tk, sn) => LoadFrames(b, l, tk2, sn2)
  BY <1>3, <1>4, <1>6, <1>7 DEF LoadFrames
<1>9. LoadCross(b, l, tk, sn) => LoadCross(b, l, tk2, sn2)
  BY <1>1, <1>3, <1>7 DEF LoadCross
<1>10. LoadC(b, l, tk, sn) => LoadC(b, l, tk2, sn2)
  BY <1>1, <1>3, <1>7 DEF LoadC
<1>11. LoadNew(b, l, tk, sn) => LoadNew(b, l, tk2, sn2)
  BY <1>1, <1>3, <1>7 DEF LoadNew
<1>12. LoadOver(b, l, tk, sn) => LoadOver(b, l, tk2, sn2)
  BY <1>1, <1>3, <1>7 DEF LoadOver
<1> QED
  BY <1>3, <1>8, <1>9, <1>10, <1>11, <1>12 DEF LoadInv, LoadBusy

LEMMA ComputeSame ==
  ASSUME NEW b \in Blocks, NEW l, NEW tk, NEW sn, NEW tk2, NEW sn2,
         \A c \in ReadByCompute(b) : tk2[c] = tk[c], \A c \in SentByCompute(b) : sn2[c] = sn[c],
         ComputeInv(b, l, tk, sn)
  PROVE  ComputeInv(b, l, tk2, sn2)
<1>1. \A f \in ComputeFifos : tk2[<<f, b>>] = tk[<<f, b>>]
  BY DEF ReadByCompute
<1>2. \A f \in {"xaOut", "xbOut", "cMine"} : sn2[<<f, b>>] = sn[<<f, b>>]
  BY DEF SentByCompute
<1>3. /\ tk2[<<"posC", b>>] = tk[<<"posC", b>>]
      /\ tk2[<<"bufA", b>>] = tk[<<"bufA", b>>] /\ tk2[<<"bufB", b>>] = tk[<<"bufB", b>>]
      /\ tk2[<<"xaIn", b>>] = tk[<<"xaIn", b>>] /\ tk2[<<"xbIn", b>>] = tk[<<"xbIn", b>>]
      /\ sn2[<<"xaOut", b>>] = sn[<<"xaOut", b>>] /\ sn2[<<"xbOut", b>>] = sn[<<"xbOut", b>>]
      /\ sn2[<<"cMine", b>>] = sn[<<"cMine", b>>]
  BY <1>1, <1>2 DEF ComputeFifos
<1>4. /\ Received(b, tk) <=> Received(b, tk2)
      /\ \A n : Stepped(b, n, tk, sn) <=> Stepped(b, n, tk2, sn2)
  BY <1>3 DEF Received, Stepped
<1> QED
  BY <1>3, <1>4 DEF ComputeInv, ComputeNew, ComputeBusy, ComputeOver

LEMMA StoreSame ==
  ASSUME NEW b \in Blocks, NEW l, NEW tk, NEW sn, NEW tk2, NEW sn2,
         \A c \in ReadByStore(b) : tk2[c] = tk[c], \A c \in SentByStore(b) : sn2[c] = sn[c],
         StoreInv(b, l, tk, sn)
  PROVE  StoreInv(b, l, tk2, sn2)
<1>1. \A f \in StoreFifos : tk2[<<f, b>>] = tk[<<f, b>>]
  BY DEF ReadByStore
<1>2. sn2[OutRight(b)] = sn[OutRight(b)] /\ sn2[OutDown(b)] = sn[OutDown(b)]
  BY DEF SentByStore
<1>3. /\ tk2[<<"posS", b>>] = tk[<<"posS", b>>]
      /\ tk2[<<"fwdRight", b>>] = tk[<<"fwdRight", b>>]
      /\ tk2[<<"fwdDown", b>>] = tk[<<"fwdDown", b>>]
      /\ tk2[<<"xaOut", b>>] = tk[<<"xaOut", b>>] /\ tk2[<<"xbOut", b>>] = tk[<<"xbOut", b>>]
      /\ tk2[<<"cPass", b>>] = tk[<<"cPass", b>>] /\ tk2[<<"cMine", b>>] = tk[<<"cMine", b>>]
  BY <1>1 DEF StoreFifos
<1>4. /\ \A x, y : Forwarded(b, x, y, tk) <=> Forwarded(b, x, y, tk2)
      /\ \A x, y : Crossed(b, x, y, tk) <=> Crossed(b, x, y, tk2)
      /\ \A x, y : Gathering(b, x, y, tk) <=> Gathering(b, x, y, tk2)
      /\ \A x, y : SentRight(b, x, y, sn) <=> SentRight(b, x, y, sn2)
      /\ \A x, y : SentDown(b, x, y, sn) <=> SentDown(b, x, y, sn2)
  BY <1>2, <1>3 DEF Forwarded, Crossed, Gathering, SentRight, SentDown
<1>5. StoreFrameInv(b, l, tk, sn) => StoreFrameInv(b, l, tk2, sn2)
  BY <1>2, <1>3, <1>4 DEF StoreFrameInv
<1>6. StoreCrossInv(b, l, tk, sn) => StoreCrossInv(b, l, tk2, sn2)
  BY <1>2, <1>3, <1>4 DEF StoreCrossInv
<1>7. StoreCInv(b, l, tk, sn) => StoreCInv(b, l, tk2, sn2)
  BY <1>2, <1>3, <1>4 DEF StoreCInv
<1> QED
  BY <1>2, <1>3, <1>4, <1>5, <1>6, <1>7 DEF StoreInv, StoreNew, StoreBusy, StoreOver

-----------------------------------------------------------------------------
(* The invariant of the blocks and their channels, whoever feeds them.  No  *)
(* link ends in column 0 below row 0, and none comes down into row 0.       *)
Unconnected(sn) ==
  \A p \in Blocks :
    /\ IsCol0(p) /\ ~IsRow0(p) => sn[InLeft(p)] = 0
    /\ IsRow0(p) => sn[InUp(p)] = 0

TileInv(tk, sn) ==
  /\ start \in [Blocks -> BOOLEAN] /\ ld \in [Blocks -> LoadStates]
  /\ cp \in [Blocks -> ComputeStates] /\ st \in [Blocks -> StoreStates]
  /\ AllHold(chan, tk, sn) /\ Unconnected(sn)
  /\ \A b \in Blocks : /\ start[b] /\ ld[b].pc = "idle" => sn[<<"posC", b>>] = 0
                       /\ LoadInv(b, ld[b], tk, sn)
                       /\ ComputeInv(b, cp[b], tk, sn)
                       /\ StoreInv(b, st[b], tk, sn)

(* What a step of load does. *)
LoadMoves(b) ==
  /\ start' \in [Blocks -> BOOLEAN] /\ ld' \in [Blocks -> LoadStates]
  /\ \A a \in Blocks \ {b} : start'[a] = start[a] /\ ld'[a] = ld[a]
  /\ cp' = cp /\ st' = st

LoadStep(b, tk, sn) ==
  \E rd \in SUBSET ReadByLoad(b), sd \in SUBSET SentByLoad(b) :
    /\ AllHold(chan', Past(tk, rd), Past(sn, sd))
    /\ LoadInv(b, ld'[b], Past(tk, rd), Past(sn, sd)) /\ LoadMoves(b)
    /\ IF ld'[b].pc = "idle" THEN ~start'[b] /\ Past(sn, sd)[<<"posC", b>>] = 1
                             ELSE start'[b] = start[b]

LEMMA IdleStates == LoadIdle \in LoadStates /\ ComputeIdle \in ComputeStates /\ StoreIdle \in StoreStates
BY SMT DEF LoadIdle, LoadStates, ComputeIdle, ComputeStates, StoreIdle, StoreStates

LEMMA PastNone == \A n \in Counts : Past(n, {}) = n
BY DEF Past, Counts

LEMMA PastCounts ==
  ASSUME NEW n \in Counts, NEW cs
  PROVE  Past(n, cs) \in Counts /\ \A c \in Channels : Past(n, cs)[c] = IF c \in cs THEN n[c] + 1 ELSE n[c]
BY DEF Past, Counts

LEMMA LoadPast ==
  ASSUME NEW b \in Blocks, NEW n \in Counts, NEW cs
  PROVE  /\ Past(n, cs)[InLeft(b)] = IF InLeft(b) \in cs THEN n[InLeft(b)] + 1 ELSE n[InLeft(b)]
         /\ Past(n, cs)[InUp(b)] = IF InUp(b) \in cs THEN n[InUp(b)] + 1 ELSE n[InUp(b)]
         /\ n[InLeft(b)] \in Nat /\ n[InUp(b)] \in Nat /\ InLeft(b) # InUp(b)
<1>1. InLeft(b) \in Channels /\ InUp(b) \in Channels
  BY OwnChannels DEF ReadByLoad
<1> QED
  BY <1>1, PastCounts DEF Counts, InLeft, InUp

LEMMA FifoPast ==
  ASSUME NEW b \in Blocks, NEW n \in Counts, NEW fs
  PROVE  \A f \in FifoNames : /\ Past(n, fs \X {b})[<<f, b>>] = IF f \in fs THEN n[<<f, b>>] + 1
                                                                          ELSE n[<<f, b>>]
                              /\ n[<<f, b>>] \in Nat
<1> TAKE f \in FifoNames
<1>1. <<f, b>> \in Channels
  BY OwnChannels
<1>2. <<f, b>> \in fs \X {b} <=> f \in fs
  OBVIOUS
<1> QED
  BY <1>1, <1>2, PastCounts DEF Counts

(* How a step of load is shown to be one. *)
LEMMA LoadDone ==
  ASSUME NEW b \in Blocks, NEW tk \in Counts, NEW sn \in Counts, AllHold(chan, tk, sn),
         NEW rd \in SUBSET ReadByLoad(b), NEW wr, DOMAIN wr \subseteq SentByLoad(b), Fire(rd, wr),
         \A c \in DOMAIN wr : wr[c] = Word(c, sn[c] + 1),
         LoadInv(b, ld'[b], Past(tk, rd), Past(sn, DOMAIN wr)), LoadMoves(b),
         IF ld'[b].pc = "idle" THEN ~start'[b] /\ Past(sn, DOMAIN wr)[<<"posC", b>>] = 1
                               ELSE start'[b] = start[b]
  PROVE  LoadStep(b, tk, sn)
<1>1. rd \in SUBSET Channels /\ DOMAIN wr \subseteq Channels
  BY OwnChannels
<1>2. AllHold(chan', Past(tk, rd), Past(sn, DOMAIN wr))
  BY <1>1, Moved
<1> QED
  BY <1>2 DEF LoadStep

(* LeaveLoad, for a block that knows where it is. *)
LoadLeft(b, next) ==
  /\ LoadMoves(b)
  /\ next = "idle" => ld'[b] = LoadIdle /\ ~start'[b]
  /\ next # "idle" => ld'[b] = [ld[b] EXCEPT !.pc = next, !.n = 0] /\ start' = start

LEMMA LoadLeaves ==
  ASSUME NEW b \in Blocks, start \in [Blocks -> BOOLEAN], ld \in [Blocks -> LoadStates],
         ld[b].at = b, NEW phase, LeaveLoad(b, phase), UNCHANGED <<cp, st>>,
         NEW next, next = AfterLoad(b, phase),
         next \in {"idle", "groupHeader", "crossHeaders", "cross", "cUpHeader", "cUp",
                   "cLeftHeader", "cLeft"}
  PROVE  LoadLeft(b, next)
<1>0. LoadIdle \in LoadStates
  BY IdleStates
<1>1. CASE next = "idle"
  <2>1. ld' = [ld EXCEPT ![b] = LoadIdle] /\ start' = [start EXCEPT ![b] = FALSE]
    BY <1>1 DEF LeaveLoad
  <2> QED
    BY <1>0, <1>1, <2>1 DEF LoadMoves, LoadLeft
<1>2. CASE next # "idle"
  <2> DEFINE l2 == [ld[b] EXCEPT !.pc = next, !.n = 0]
  <2>1. ld' = [ld EXCEPT ![b].pc = next, ![b].n = 0] /\ start' = start
    BY <1>2 DEF LeaveLoad
  <2>2. l2 \in LoadStates
    <3>1. PICK l \in LoadStates : l = ld[b]
      OBVIOUS
    <3>2. [l EXCEPT !.pc = next, !.n = 0] \in LoadStates
      BY DEF LoadStates
    <3> QED
      BY <3>1, <3>2
  <2>3. ld' = [ld EXCEPT ![b] = l2]
    BY <2>1
  <2> HIDE DEF l2
  <2>4. ld' \in [Blocks -> LoadStates] /\ ld'[b] = l2 /\ \A a \in Blocks \ {b} : ld'[a] = ld[a]
    BY <2>2, <2>3
  <2> QED
    BY <1>2, <2>1, <2>4 DEF LoadMoves, LoadLeft, l2
<1> QED
  BY <1>1, <1>2

(* Where load is in the tile, by its pc. *)
LEMMA LoadWhere ==
  ASSUME NEW b \in Blocks, NEW l, NEW tk, NEW sn, LoadInv(b, l, tk, sn)
  PROVE  /\ l \in LoadStates
         /\ l.pc = "idle" => l = LoadIdle /\ (LoadNew(b, l, tk, sn) \/ LoadOver(b, l, tk, sn))
         /\ l.pc \in {"pick", "sendPos"} => LoadNew(b, l, tk, sn)
         /\ l.pc \notin {"idle", "pick", "sendPos"} =>
              l.at = b /\ sn[<<"posC", b>>] = 1 /\ sn[<<"posS", b>>] = 1
         /\ l.pc \in {"groupHeader", "forwardHeader", "payload"} => LoadFrames(b, l, tk, sn)
         /\ l.pc \in {"crossHeaders", "cross"} => LoadCross(b, l, tk, sn)
         /\ l.pc \in {"cUpHeader", "cUp", "cLeftHeader", "cLeft"} => LoadC(b, l, tk, sn)
<1>1. /\ LoadIdle.pc = "idle" /\ [LoadIdle EXCEPT !.pc = "pick"].pc = "pick"
  BY DEF LoadIdle
<1>2. LoadFrames(b, l, tk, sn) => l.pc \in {"groupHeader", "forwardHeader", "payload"}
  BY DEF LoadFrames, InGroup
<1>3. LoadCross(b, l, tk, sn) => l.pc \in {"crossHeaders", "cross"}
  BY DEF LoadCross
<1>4. LoadC(b, l, tk, sn) => l.pc \in {"cUpHeader", "cUp", "cLeftHeader", "cLeft"}
  BY DEF LoadC
<1>5. LoadNew(b, l, tk, sn) => l.pc \in {"idle", "pick", "sendPos"} /\ (l.pc = "idle" => l = LoadIdle)
  BY <1>1 DEF LoadNew
<1>6. LoadOver(b, l, tk, sn) => l.pc = "idle" /\ l = LoadIdle
  BY <1>1 DEF LoadOver
<1> QED
  BY <1>2, <1>3, <1>4, <1>5, <1>6 DEF LoadInv, LoadBusy

LEMMA LoadStartStep ==
  ASSUME NEW b \in Blocks, NEW tk \in Counts, NEW sn \in Counts, TileInv(tk, sn), LoadStart(b)
  PROVE  LoadStep(b, tk, sn)
<1>1. ld[b].pc = "idle" /\ start[b] /\ ld' = [ld EXCEPT ![b].pc = "pick"]
      /\ UNCHANGED <<start, cp, st, chan>>
  BY DEF LoadStart
<1>2. LoadInv(b, ld[b], tk, sn) /\ sn[<<"posC", b>>] = 0
  BY <1>1 DEF TileInv
<1>3. ld[b] = LoadIdle /\ LoadNew(b, ld[b], tk, sn)
  <2>1. ld[b] = LoadIdle /\ (LoadNew(b, ld[b], tk, sn) \/ LoadOver(b, ld[b], tk, sn))
    BY <1>1, <1>2, LoadWhere
  <2>2. ~LoadOver(b, ld[b], tk, sn)
    BY <1>2 DEF LoadOver
  <2> QED
    BY <2>1, <2>2
<1> DEFINE l2 == [LoadIdle EXCEPT !.pc = "pick"]
<1>4. l2 \in LoadStates /\ l2.pc = "pick"
  <2>1. PICK l \in LoadStates : l = LoadIdle
    BY IdleStates
  <2>2. [l EXCEPT !.pc = "pick"] \in LoadStates /\ [l EXCEPT !.pc = "pick"].pc = "pick"
    BY DEF LoadStates
  <2> QED
    BY <2>1, <2>2
<1>5. ld' = [ld EXCEPT ![b] = l2]
  BY <1>1, <1>3
<1>6. LoadNew(b, l2, tk, sn)
  <2>1. LoadIdle.pc = "idle"
    BY DEF LoadIdle
  <2>2. /\ NothingSent(b, sn) /\ sn[<<"posC", b>>] = 0 /\ sn[<<"posS", b>>] = 0
        /\ tk[InLeft(b)] = 0 /\ tk[InUp(b)] = 0
    BY <1>3, <2>1 DEF LoadNew
  <2> QED
    BY <2>2 DEF LoadNew
<1> HIDE DEF l2
<1>7. ld' \in [Blocks -> LoadStates] /\ ld'[b] = l2 /\ \A a \in Blocks \ {b} : ld'[a] = ld[a]
  BY <1>4, <1>5 DEF TileInv
<1>8. LoadInv(b, ld'[b], Past(tk, {}), Past(sn, {})) /\ AllHold(chan', Past(tk, {}), Past(sn, {}))
  BY <1>1, <1>4, <1>6, <1>7, PastNone DEF LoadInv, TileInv
<1>9. LoadMoves(b) /\ start'[b] = start[b]
  BY <1>1, <1>7 DEF LoadMoves, TileInv
<1> QED
  BY <1>4, <1>7, <1>8, <1>9 DEF LoadStep

(* The word that the first read of a block finds. *)
LEMMA FirstWords ==
  ASSUME NEW b \in Position
  PROVE  /\ ~IsCol0(b) \/ IsRow0(b) =>
              Word(InLeft(b), 1) = IF IsRow0(b) THEN Header("B_FRAME", b) ELSE Header("A_CROSS", b)
         /\ ~IsRow0(b) =>
              Word(InUp(b), 1) = IF IsCol0(b) THEN Header("A_FRAME", b) ELSE Header("B_CROSS", b)
<1>1. Word(InLeft(b), 1) = LeftWord(b, 1) /\ Word(InUp(b), 1) = UpWord(b, 1)
  BY SMT DEF Word, InLeft, InUp
<1>2. /\ b \in Place /\ b[1] \in 0 .. R - 1 /\ b[2] \in 0 .. S - 1 /\ b = <<b[1], b[2]>>
      /\ R \in Nat /\ S \in Nat
  BY Neighbours, Places, Constants
<1>3. CASE IsRow0(b)
  <2>1. b[2] \in 0 .. Count("B_FRAME") - 1 /\ Dest("B_FRAME", b[2]) = b /\ "B_FRAME" \in FrameTypes
    BY <1>2, <1>3 DEF Count, Dest, IsRow0, FrameTypes
  <2>2. Transfer("B_FRAME")[FrameWords(b[2]) + 1] = Header("B_FRAME", b)
    BY <2>1, TransferWords
  <2>3. LeftWord(b, 1) = Transfer("B_FRAME")[FrameWords(b[2]) + 1]
    <3>1. CASE IsCol0(b)
      <4>1. FrameWords(b[2]) = 0 /\ 1 <= FrameWords(S)
        <5>1. FrameWords(0) = 0 /\ FrameWords(0 + 1) = FrameWords(0) + 1 + K
              /\ FrameWords(0 + 1) <= FrameWords(S) /\ FrameWords(S) \in Nat
          BY Frames, Constants
        <5> QED
          BY <5>1, <3>1, Constants DEF IsCol0
      <4> QED
        BY <4>1, <3>1, <1>2, <1>3, LeftFrameWords
    <3>2. CASE ~IsCol0(b)
      <4>1. 1 <= FramesLeft(b)
        BY <1>3, <3>2, FrameCounts, Constants
      <4> QED
        BY <4>1, <3>2, <1>2, <1>3, LeftFrameWords
    <3> QED
      BY <3>1, <3>2
  <2> QED
    BY <1>1, <1>3, <2>2, <2>3
<1>4. CASE ~IsRow0(b)
  <2>1. ~IsCol0(b) => LeftWord(b, 1) = Header("A_CROSS", b)
    <3>1. FramesLeft(b) = 0
      BY <1>4 DEF FramesLeft
    <3>2. ~IsCol0(b) => LeftWord(b, FramesLeft(b) + 1) = Header("A_CROSS", b)
      BY <1>2, LeftCrossWords
    <3>3. FramesLeft(b) + 1 = 1
      BY <3>1
    <3> QED
      BY <3>2, <3>3
  <2>2. CASE IsCol0(b)
    <3>1. b[1] \in 0 .. Count("A_FRAME") - 1 /\ Dest("A_FRAME", b[1]) = b /\ "A_FRAME" \in FrameTypes
      BY <1>2, <2>2 DEF Count, Dest, IsCol0, FrameTypes
    <3>2. Transfer("A_FRAME")[FrameWords(b[1]) + 1] = Header("A_FRAME", b)
      BY <3>1, TransferWords
    <3>3. 1 \in 1 .. FramesUp(b)
      BY <1>4, <2>2, FrameCounts, Constants
    <3>4. UpWord(b, 1) = Transfer("A_FRAME")[FrameWords(b[1]) + 1]
      BY <3>3, <1>2, UpFrameWords
    <3> QED
      BY <1>1, <1>4, <2>2, <3>2, <3>4
  <2>3. CASE ~IsCol0(b)
    <3>1. FramesUp(b) = 0 /\ b[1] # R
      BY <1>2, <2>3 DEF FramesUp
    <3>2. UpWord(b, FramesUp(b) + 1) = Header("B_CROSS", b)
      BY <3>1, <1>2, <1>4, UpCrossWords
    <3>3. FramesUp(b) + 1 = 1
      BY <3>1
    <3> HIDE DEF FramesUp
    <3>4. UpWord(b, 1) = Header("B_CROSS", b)
      BY <3>2, <3>3
    <3> QED
      BY <1>1, <1>4, <2>1, <2>3, <3>4
  <2> QED
    BY <2>2, <2>3
<1> QED
  BY <1>3, <1>4

LEMMA NothingPut ==
  /\ DOMAIN Nothing = {}
  /\ \A c, w : DOMAIN Put(c, w) = {c} /\ Put(c, w)[c] = w
BY DEF Nothing, Put

(* The next word of a channel, for who has taken tk[c] of them. *)
LEMMA NextWord ==
  ASSUME NEW tk \in Counts, NEW sn \in Counts, AllHold(chan, tk, sn), NEW c \in Channels, HasWord(c)
  PROVE  Head(chan[c]) = Word(c, tk[c] + 1) /\ tk[c] < sn[c] /\ tk[c] \in Nat /\ sn[c] \in Nat
BY HeadWord DEF AllHold, HasWord, Counts

LEMMA PickStep ==
  ASSUME NEW b \in Blocks, NEW tk \in Counts, NEW sn \in Counts, TileInv(tk, sn), Pick(b)
  PROVE  LoadStep(b, tk, sn)
<1>1. PICK side \in {"left", "up"} :
        /\ Fire({<<side, b>>}, Nothing)
        /\ LET h == Head(chan[<<side, b>>])
           IN  ld' = [ld EXCEPT ![b].pc = "sendPos", ![b].h = h, ![b].at = h.at,
                                ![b].from = side, ![b].picked = IsFrame(h)]
  BY DEF Pick
<1>2. ld[b].pc = "pick" /\ UNCHANGED <<start, cp, st>>
  BY DEF Pick
<1> DEFINE c == <<side, b>>
           rd == {c}
<1>3. c = (IF side = "left" THEN InLeft(b) ELSE InUp(b)) /\ rd \in SUBSET ReadByLoad(b) /\ c \in Channels
  <2>1. c = (IF side = "left" THEN InLeft(b) ELSE InUp(b))
    BY DEF InLeft, InUp
  <2> QED
    BY <2>1, OwnChannels DEF ReadByLoad
<1>4. LoadInv(b, ld[b], tk, sn) /\ AllHold(chan, tk, sn) /\ b \in Position
  BY Constants DEF TileInv
<1>5. /\ ld[b] = [LoadIdle EXCEPT !.pc = "pick"]
      /\ NothingSent(b, sn) /\ sn[<<"posC", b>>] = 0 /\ sn[<<"posS", b>>] = 0
      /\ tk[InLeft(b)] = 0 /\ tk[InUp(b)] = 0
  <2>1. LoadNew(b, ld[b], tk, sn)
    BY <1>2, <1>4, LoadWhere
  <2>2. LoadIdle.pc = "idle"
    BY DEF LoadIdle
  <2> QED
    BY <1>2, <2>1, <2>2 DEF LoadNew
<1> DEFINE h == Head(chan[c])
<1>6. h = Word(c, 1) /\ 0 < sn[c]
  <2>1. HasWord(c)
    BY <1>1 DEF Fire
  <2>2. tk[c] = 0
    BY <1>3, <1>5
  <2>3. Head(chan[c]) = Word(c, tk[c] + 1) /\ tk[c] < sn[c]
    BY <1>3, <1>4, <2>1, NextWord
  <2>4. tk[c] + 1 = 1
    BY <2>2
  <2> QED
    BY <2>2, <2>3, <2>4
<1>7. (side = "left" => ~IsCol0(b) \/ IsRow0(b)) /\ (side = "up" => ~IsRow0(b))
  BY <1>3, <1>6 DEF TileInv, Unconnected
<1>8. h = IF side = "left" THEN (IF IsRow0(b) THEN Header("B_FRAME", b) ELSE Header("A_CROSS", b))
                           ELSE (IF IsCol0(b) THEN Header("A_FRAME", b) ELSE Header("B_CROSS", b))
  BY <1>3, <1>4, <1>6, <1>7, FirstWords
<1>9. h \in Headers /\ h.at = b /\ (IsFrame(h) <=> (IsRow0(b) \/ IsCol0(b)))
  <2>1. /\ \A type \in Types : Header(type, b) \in Headers
        /\ \A type : Header(type, b).at = b /\ Header(type, b).type = type
    BY <1>4, HeaderFields DEF Headers
  <2>2. IsFrame(h) <=> (IsRow0(b) \/ IsCol0(b))
    BY <1>7, <1>8, <2>1 DEF IsFrame
  <2> HIDE DEF h
  <2> QED
    BY <1>8, <2>1, <2>2 DEF Types
<1> HIDE DEF h
<1> DEFINE picked == IsFrame(h)
<1>10. picked \in BOOLEAN /\ (picked <=> IsFrame(h))
  BY DEF IsFrame
<1> DEFINE l == ld[b]
           l2 == [l EXCEPT !.pc = "sendPos", !.h = h, !.at = b, !.from = side, !.picked = picked]
<1>11. l \in LoadStates /\ l.nLeft = 0 /\ l.nUp = 0 /\ l.n = 0
  <2>1. l \in LoadStates
    BY DEF TileInv
  <2>2. l.nLeft = 0 /\ l.nUp = 0 /\ l.n = 0
    BY <1>5 DEF LoadIdle
  <2> QED
    BY <2>1, <2>2
<1>12. ld' = [ld EXCEPT ![b] = l2]
  BY <1>1, <1>9 DEF h
<1> HIDE DEF l, picked
<1>13. /\ l2 \in LoadStates /\ l2.pc = "sendPos" /\ l2.h = h /\ l2.at = b /\ l2.from = side
       /\ (l2.picked <=> IsFrame(h)) /\ l2.nLeft = 0 /\ l2.nUp = 0 /\ l2.n = 0
  BY <1>4, <1>9, <1>10, <1>11 DEF LoadStates
<1> HIDE DEF l2
<1>14. ld' \in [Blocks -> LoadStates] /\ ld'[b] = l2 /\ \A a \in Blocks \ {b} : ld'[a] = ld[a]
  BY <1>12, <1>13 DEF TileInv
<1>15. LoadInv(b, l2, Past(tk, rd), Past(sn, {}))
  <2>1. /\ Past(tk, rd)[InLeft(b)] = (IF side = "left" THEN 1 ELSE 0)
        /\ Past(tk, rd)[InUp(b)] = (IF side = "left" THEN 0 ELSE 1)
    BY <1>3, <1>5, LoadPast
  <2>2. Past(sn, {}) = sn
    BY PastNone
  <2> HIDE DEF rd
  <2>3. LoadNew(b, l2, Past(tk, rd), sn)
    BY <1>5, <1>7, <1>8, <1>9, <1>13, <2>1 DEF LoadNew
  <2> QED
    BY <1>13, <2>2, <2>3 DEF LoadInv
<1>16. LoadMoves(b) /\ start'[b] = start[b]
  BY <1>2, <1>14 DEF LoadMoves, TileInv
<1> QED
  <2>1. DOMAIN Nothing = {}
    BY NothingPut
  <2>2. ld'[b].pc # "idle"
    BY <1>13, <1>14
  <2> HIDE DEF rd
  <2> QED
    BY <1>1, <1>3, <1>4, <1>14, <1>15, <1>16, <2>1, <2>2, LoadDone DEF rd

LEMMA FrameFifoWords ==
  ASSUME NEW p, NEW k
  PROVE  /\ Word(<<"bufA", p>>, k) = Payload("A_FRAME", p, k - 1, FALSE)
         /\ Word(<<"bufB", p>>, k) = Payload("B_FRAME", p, k - 1, FALSE)
         /\ Word(<<"fwdRight", p>>, k) = Transfer("B_FRAME")[FrameWords(p[2] + 1) + k]
         /\ Word(<<"fwdDown", p>>, k) = Transfer("A_FRAME")[FrameWords(p[1] + 1) + k]
<1>1. Word(<<"bufA", p>>, k) = Payload("A_FRAME", p, k - 1, FALSE)
  BY SMT DEF Word, FifoWord
<1>2. Word(<<"bufB", p>>, k) = Payload("B_FRAME", p, k - 1, FALSE)
  BY SMT DEF Word, FifoWord
<1>3. Word(<<"fwdRight", p>>, k) = Transfer("B_FRAME")[FrameWords(p[2] + 1) + k]
  BY SMT DEF Word, FifoWord, Transfer
<1>4. Word(<<"fwdDown", p>>, k) = Transfer("A_FRAME")[FrameWords(p[1] + 1) + k]
  BY SMT DEF Word, FifoWord, Transfer
<1> QED
  BY <1>1, <1>2, <1>3, <1>4

LEMMA CrossFifoWords ==
  ASSUME NEW p, NEW k
  PROVE  /\ Word(<<"xaIn", p>>, k) = Payload("A_CROSS", p, k - 1, FALSE)
         /\ Word(<<"xbIn", p>>, k) = Payload("B_CROSS", p, k - 1, FALSE)
         /\ Word(<<"xaOut", p>>, k) = Payload("A_CROSS", RightOf(p), k - 1, FALSE)
         /\ Word(<<"xbOut", p>>, k) = Payload("B_CROSS", Below(p), k - 1, FALSE)
<1>1. Word(<<"xaIn", p>>, k) = Payload("A_CROSS", p, k - 1, FALSE)
  BY SMT DEF Word, FifoWord
<1>2. Word(<<"xbIn", p>>, k) = Payload("B_CROSS", p, k - 1, FALSE)
  BY SMT DEF Word, FifoWord
<1>3. Word(<<"xaOut", p>>, k) = Payload("A_CROSS", RightOf(p), k - 1, FALSE)
  BY SMT DEF Word, FifoWord
<1>4. Word(<<"xbOut", p>>, k) = Payload("B_CROSS", Below(p), k - 1, FALSE)
  BY SMT DEF Word, FifoWord
<1> QED
  BY <1>1, <1>2, <1>3, <1>4

LEMMA CMineWords ==
  ASSUME NEW p, NEW k
  PROVE  Word(<<"cMine", p>>, k) = Payload("C_DATA", p, k - 1, FALSE)
BY SMT DEF Word, FifoWord

LEMMA CPassWords ==
  ASSUME NEW p, NEW k
  PROVE  Word(<<"cPass", p>>, k) = CWord(CFirst(p) + k, k = CPassed(p))
BY SMT DEF Word, FifoWord

LEMMA PosWords ==
  ASSUME NEW p, NEW k
  PROVE  Word(<<"posC", p>>, k) = p /\ Word(<<"posS", p>>, k) = p
BY SMT DEF Word, FifoWord

LEMMA LinkWords ==
  ASSUME NEW p, NEW k
  PROVE  Word(InLeft(p), k) = LeftWord(p, k) /\ Word(InUp(p), k) = UpWord(p, k)
BY SMT DEF Word, InLeft, InUp

(* The word of a group on the link that brings it. *)
LEMMA FrameLinkWord ==
  ASSUME NEW type \in FrameTypes, NEW b \in Position, HasGroup(type, b), NEW tk,
         tk[FrameLink(b)] \in Nat, NEW g \in Nat, g = GroupWords(type, b, tk),
         g < FrameWords(Count(type))
  PROVE  Word(FrameLink(b), tk[FrameLink(b)] + 1) = Transfer(type)[g + 1]
<1> DEFINE t == tk[FrameLink(b)]
<1>1. /\ b \in Place /\ b[1] \in Nat /\ b[2] \in Nat
      /\ FrameWords(b[1]) \in Nat /\ FrameWords(b[2]) \in Nat
      /\ FrameWords(S) \in Nat /\ FrameWords(R) \in Nat /\ FrameWords(0) = 0
  BY Neighbours, Places, Constants, Frames
<1>2. CASE type = "B_FRAME"
  <2>1. IsRow0(b) /\ FrameLink(b) = InLeft(b) /\ g = t + FrameWords(b[2]) /\ Count(type) = S
    BY <1>2 DEF HasGroup, FrameLink, GroupWords, Count
  <2> HIDE DEF t
  <2>2. t + 1 \in Nat \ {0} /\ t \in Nat
    BY DEF t
  <2>3. LeftWord(b, t + 1) = Transfer("B_FRAME")[g + 1]
    <3>1. CASE IsCol0(b)
      <4>1. g = t /\ t + 1 <= FrameWords(S)
        BY <1>1, <2>1, <2>2, <3>1 DEF IsCol0
      <4> QED
        BY <1>1, <2>1, <2>2, <3>1, <4>1, LeftFrameWords
    <3>2. CASE ~IsCol0(b)
      <4>1. FramesLeft(b) = FrameWords(S) - FrameWords(b[2])
        BY <2>1, <3>2 DEF FramesLeft
      <4>2. t + 1 <= FramesLeft(b) /\ FrameWords(b[2]) + (t + 1) = g + 1
        BY <1>1, <2>1, <2>2, <4>1
      <4>3. LeftWord(b, t + 1) = Transfer("B_FRAME")[FrameWords(b[2]) + (t + 1)]
        BY <1>1, <2>1, <2>2, <3>2, <4>2, LeftFrameWords
      <4> QED
        BY <4>2, <4>3
    <3> QED
      BY <3>1, <3>2
  <2>4. Word(InLeft(b), t + 1) = LeftWord(b, t + 1)
    BY LinkWords
  <2> QED
    BY <1>2, <2>1, <2>3, <2>4 DEF t
<1>3. CASE type = "A_FRAME"
  <2>1. IsCol0(b) /\ Count(type) = R
    BY <1>3 DEF HasGroup, Count
  <2>2. CASE IsRow0(b)
    <3>1. FrameLink(b) = InLeft(b) /\ g = t - FrameWords(S)
      BY <1>3, <2>2 DEF FrameLink, GroupWords
    <3> HIDE DEF t
    <3>2. t \in Nat /\ t + 1 = FrameWords(S) + (g + 1) /\ g + 1 \in Nat \ {0}
      BY <1>1, <3>1 DEF t
    <3>3. LeftWord(b, FrameWords(S) + (g + 1)) = Transfer("A_FRAME")[g + 1]
      BY <1>1, <2>1, <2>2, <3>2, LeftFrameWords
    <3>4. Word(InLeft(b), t + 1) = LeftWord(b, t + 1)
      BY LinkWords
    <3> QED
      BY <1>3, <3>1, <3>2, <3>3, <3>4 DEF t
  <2>3. CASE ~IsRow0(b)
    <3>1. FrameLink(b) = InUp(b) /\ g = t + FrameWords(b[1])
      BY <1>3, <2>3 DEF FrameLink, GroupWords
    <3>2. FramesUp(b) = FrameWords(R) - FrameWords(b[1])
      BY <2>1, <2>3 DEF FramesUp
    <3> HIDE DEF t
    <3>3. t \in Nat /\ t + 1 \in 1 .. FramesUp(b) /\ FrameWords(b[1]) + (t + 1) = g + 1
      BY <1>1, <2>1, <3>1, <3>2 DEF t
    <3>4. UpWord(b, t + 1) = Transfer("A_FRAME")[FrameWords(b[1]) + (t + 1)]
      BY <1>1, <3>3, UpFrameWords
    <3>5. Word(InUp(b), t + 1) = UpWord(b, t + 1)
      BY LinkWords
    <3> QED
      BY <1>3, <3>1, <3>3, <3>4, <3>5 DEF t
  <2> QED
    BY <2>2, <2>3
<1> QED
  BY <1>2, <1>3 DEF FrameTypes

LEMMA SendPosStep ==
  ASSUME NEW b \in Blocks, NEW tk \in Counts, NEW sn \in Counts, TileInv(tk, sn), SendPos(b)
  PROVE  LoadStep(b, tk, sn)
<1> DEFINE l == ld[b]
           posts == {"posC", "posS"} \X {b}
           wr == [c \in {<<"posC", b>>, <<"posS", b>>} |-> ld[b].at]
           sn2 == Past(sn, posts)
<1>1. /\ l.pc = "sendPos" /\ Fire({}, wr) /\ UNCHANGED <<start, cp, st>>
      /\ ld' = [ld EXCEPT ![b].pc = FirstLoad(ld[b].at), ![b].fresh = ld[b].picked,
                      ![b].groups = IF IsRow0(ld[b].at) /\ IsCol0(ld[b].at) THEN 2 ELSE 1]
  BY DEF SendPos
<1>2. LoadInv(b, ld[b], tk, sn) /\ AllHold(chan, tk, sn) /\ b \in Position /\ l \in LoadStates
  BY Constants DEF TileInv
<1>3. /\ NothingSent(b, sn) /\ sn[<<"posC", b>>] = 0 /\ sn[<<"posS", b>>] = 0 /\ l.at = b
      /\ (l.picked <=> (IsRow0(b) \/ IsCol0(b))) /\ l.nLeft = 0 /\ l.nUp = 0 /\ l.n = 0
      /\ \/ /\ l.from = "left" /\ tk[InLeft(b)] = 1 /\ tk[InUp(b)] = 0
            /\ ~IsCol0(b) \/ IsRow0(b)
            /\ l.h = IF IsRow0(b) THEN Header("B_FRAME", b) ELSE Header("A_CROSS", b)
         \/ /\ l.from = "up" /\ tk[InLeft(b)] = 0 /\ tk[InUp(b)] = 1
            /\ ~IsRow0(b)
            /\ l.h = IF IsCol0(b) THEN Header("A_FRAME", b) ELSE Header("B_CROSS", b)
  <2>1. LoadNew(b, ld[b], tk, sn)
    BY <1>1, <1>2, LoadWhere
  <2>2. LoadIdle.pc = "idle" /\ [LoadIdle EXCEPT !.pc = "pick"].pc = "pick"
    BY DEF LoadIdle
  <2> QED
    BY <1>1, <2>1, <2>2 DEF LoadNew
<1>4. DOMAIN wr = posts /\ posts \in SUBSET SentByLoad(b) /\ \A c \in posts : wr[c] = Word(c, sn[c] + 1)
  <2>1. posts = {<<"posC", b>>, <<"posS", b>>} /\ posts \in SUBSET SentByLoad(b)
    BY DEF SentByLoad, LoadFifos
  <2>2. \A k : Word(<<"posC", b>>, k) = b /\ Word(<<"posS", b>>, k) = b
    BY PosWords
  <2> HIDE DEF posts
  <2> QED
    BY <1>3, <2>1, <2>2
<1> DEFINE pc == IF IsRow0(b) \/ IsCol0(b) THEN "groupHeader" ELSE "crossHeaders"
           groups == IF IsRow0(b) /\ IsCol0(b) THEN 2 ELSE 1
           l2 == [l EXCEPT !.pc = pc, !.fresh = l.picked, !.groups = groups]
<1>5. ld' = [ld EXCEPT ![b] = l2]
  <2>1. FirstLoad(ld[b].at) = pc
    BY <1>2, <1>3, LoadPhases
  <2> QED
    BY <1>1, <1>3, <2>1
<1> HIDE DEF l, wr, posts
<1>6. /\ l2 \in LoadStates /\ l2.pc = pc /\ l2.h = l.h /\ l2.at = b /\ l2.from = l.from
      /\ (l2.picked <=> (IsRow0(b) \/ IsCol0(b))) /\ (l2.fresh <=> (IsRow0(b) \/ IsCol0(b)))
      /\ l2.groups = groups
      /\ l2.nLeft = 0 /\ l2.nUp = 0 /\ l2.n = 0
  <2>1. pc \in {"groupHeader", "crossHeaders"} /\ groups \in 0 .. 2
    OBVIOUS
  <2> HIDE DEF pc, groups
  <2> QED
    BY <1>2, <1>3, <2>1 DEF LoadStates
<1> HIDE DEF l2
<1>7. ld' \in [Blocks -> LoadStates] /\ ld'[b] = l2 /\ \A a \in Blocks \ {b} : ld'[a] = ld[a]
  BY <1>5, <1>6 DEF TileInv
<1>8. \A f \in FifoNames : sn2[<<f, b>>] = IF f \in {"posC", "posS"} THEN sn[<<f, b>>] + 1 ELSE sn[<<f, b>>]
  <2> DEFINE fs == {"posC", "posS"}
  <2> HIDE DEF fs
  <2>1. \A f \in FifoNames : Past(sn, fs \X {b})[<<f, b>>] = IF f \in fs THEN sn[<<f, b>>] + 1
                                                                        ELSE sn[<<f, b>>]
    BY FifoPast
  <2> QED
    BY <2>1 DEF posts, fs
<1> HIDE DEF sn2
<1>9. /\ sn2[<<"posC", b>>] = 1 /\ sn2[<<"posS", b>>] = 1
      /\ sn2[<<"bufA", b>>] = 0 /\ sn2[<<"bufB", b>>] = 0
      /\ sn2[<<"fwdRight", b>>] = 0 /\ sn2[<<"fwdDown", b>>] = 0
      /\ sn2[<<"xaIn", b>>] = 0 /\ sn2[<<"xbIn", b>>] = 0 /\ sn2[<<"cPass", b>>] = 0
  BY <1>3, <1>8 DEF FifoNames, NothingSent, NoFrames, NoCrossing
<1>10. NoFrames("B_FRAME", b, sn2) /\ NoFrames("A_FRAME", b, sn2) /\ NoCrossing(b, sn2)
  BY <1>9 DEF NoFrames, NoCrossing
<1>11. LoadInv(b, l2, tk, sn2)
  <2>1. CASE IsRow0(b) \/ IsCol0(b)
    <3> DEFINE type == IF IsRow0(b) THEN "B_FRAME" ELSE "A_FRAME"
               g == GroupWords(type, b, tk)
    <3>1. type \in FrameTypes /\ HasGroup(type, b)
      BY <2>1 DEF FrameTypes, HasGroup
    <3>2. /\ l2.h = Header(type, b) /\ l2.groups = GroupsLeft(type, b)
          /\ l2.from = (IF IsRow0(b) THEN "left" ELSE "up")
      BY <2>1, <1>3, <1>6 DEF GroupsLeft
    <3>3. OtherFrames(type, b, tk, sn2)
      BY <2>1, <1>3, <1>10 DEF OtherFrames
    <3>4. FrameWords(b[1]) \in Nat /\ FrameWords(b[2]) \in Nat
      BY <1>2, Places, Frames
    <3>5. g = FrameWords(Own(type, b)) + 1
      BY <2>1, <1>3, <3>4 DEF GroupWords, Own
    <3>6. sn2[Buf(type, b)] = 0 /\ sn2[Fwd(type, b)] = 0
      BY <1>9 DEF Buf, Fwd
    <3>7. Own(type, b) \in Own(type, b) .. Count(type) - 1
      <4>1. b[1] \in 0 .. R - 1 /\ b[2] \in 0 .. S - 1 /\ R \in Nat /\ S \in Nat
        BY <1>2, Places, Constants
      <4> QED
        BY <4>1 DEF Own, Count
    <3> HIDE DEF type, g
    <3>8. InGroup(type, b, l2, g, sn2[Buf(type, b)], sn2[Fwd(type, b)])
      BY <2>1, <1>6, <3>2, <3>5, <3>6, <3>7 DEF InGroup
    <3>9. LoadFrames(b, l2, tk, sn2)
      BY <2>1, <1>6, <1>9, <1>10, <3>1, <3>2, <3>3, <3>8 DEF LoadFrames, FrameTypes, g
    <3> QED
      BY <1>6, <1>9, <3>9 DEF LoadInv, LoadBusy
  <2>2. CASE ~(IsRow0(b) \/ IsCol0(b))
    <3>1. FramesOver(b, sn2)
      BY <2>2, <1>10 DEF FramesOver
    <3>2. FramesLeft(b) = 0 /\ FramesUp(b) = 0
      BY <2>2 DEF FramesLeft, FramesUp
    <3>3. LoadCross(b, l2, tk, sn2)
      BY <2>2, <1>3, <1>6, <1>9, <1>10, <3>1, <3>2 DEF LoadCross
    <3> QED
      BY <1>6, <1>9, <3>3 DEF LoadInv, LoadBusy
  <2> QED
    BY <2>1, <2>2
<1>12. LoadMoves(b) /\ start'[b] = start[b]
  BY <1>1, <1>7 DEF LoadMoves, TileInv
<1> QED
  <2>1. ld'[b].pc # "idle"
    BY <1>6, <1>7
  <2>2. LoadInv(b, ld'[b], Past(tk, {}), Past(sn, DOMAIN wr))
    BY <1>4, <1>7, <1>11, PastNone DEF sn2
  <2> QED
    BY <1>1, <1>2, <1>4, <1>12, <2>1, <2>2, LoadDone

(* A word of a group taken from its link, or sent to one of its two FIFOs, *)
(* leaves the rest as it is.                                                *)
FrameMoved(type, b, tk, sn, rd, sd) ==
  LET tk2 == Past(tk, rd)
      sn2 == Past(sn, sd)
  IN  /\ OtherFrames(type, b, tk2, sn2)
      /\ NoCrossing(b, sn) => NoCrossing(b, sn2)
      /\ sn2[<<"cPass", b>>] = sn[<<"cPass", b>>]
      /\ sn2[<<"posC", b>>] = sn[<<"posC", b>>] /\ sn2[<<"posS", b>>] = sn[<<"posS", b>>]
      /\ GroupWords(type, b, tk2) = GroupWords(type, b, tk) + (IF rd = {} THEN 0 ELSE 1)
      /\ sn2[Buf(type, b)] = sn[Buf(type, b)] + (IF sd = {Buf(type, b)} THEN 1 ELSE 0)
      /\ sn2[Fwd(type, b)] = sn[Fwd(type, b)] + (IF sd = {Fwd(type, b)} THEN 1 ELSE 0)
      /\ rd \in SUBSET ReadByLoad(b) /\ sd \in SUBSET SentByLoad(b)
      /\ tk[FrameLink(b)] \in Nat /\ FrameLink(b) \in Channels

LEMMA FrameMove ==
  ASSUME NEW b \in Blocks, NEW type \in FrameTypes, HasGroup(type, b),
         NEW tk \in Counts, NEW sn \in Counts,
         NEW rd, rd = {} \/ rd = {FrameLink(b)},
         NEW sd, sd = {} \/ sd = {Buf(type, b)} \/ sd = {Fwd(type, b)},
         OtherFrames(type, b, tk, sn)
  PROVE  FrameMoved(type, b, tk, sn, rd, sd)
<1> DEFINE tk2 == Past(tk, rd)
           sn2 == Past(sn, sd)
<1>1. FrameLink(b) \in ReadByLoad(b) /\ rd \in SUBSET ReadByLoad(b) /\ FrameLink(b) \in Channels
  BY OwnChannels DEF FrameLink, ReadByLoad
<1>2. PICK fs \in SUBSET LoadFifos :
        sd = fs \X {b} /\ (fs = {} \/ fs = {IF type = "A_FRAME" THEN "bufA" ELSE "bufB"}
                                   \/ fs = {IF type = "A_FRAME" THEN "fwdDown" ELSE "fwdRight"})
  <2>1. CASE sd = {}
    BY <2>1
  <2>2. CASE sd = {Buf(type, b)}
    <3> DEFINE fs == {IF type = "A_FRAME" THEN "bufA" ELSE "bufB"}
    <3>1. fs \in SUBSET LoadFifos /\ sd = fs \X {b}
      BY <2>2 DEF Buf, LoadFifos
    <3> QED
      BY <3>1
  <2>3. CASE sd = {Fwd(type, b)}
    <3> DEFINE fs == {IF type = "A_FRAME" THEN "fwdDown" ELSE "fwdRight"}
    <3>1. fs \in SUBSET LoadFifos /\ sd = fs \X {b}
      BY <2>3 DEF Fwd, LoadFifos
    <3> QED
      BY <3>1
  <2> QED
    BY <2>1, <2>2, <2>3
<1>3. \A f \in FifoNames : /\ sn2[<<f, b>>] = IF f \in fs THEN sn[<<f, b>>] + 1 ELSE sn[<<f, b>>]
                           /\ sn[<<f, b>>] \in Nat
  <2>1. \A f \in FifoNames : /\ Past(sn, fs \X {b})[<<f, b>>] = IF f \in fs THEN sn[<<f, b>>] + 1
                                                                        ELSE sn[<<f, b>>]
                             /\ sn[<<f, b>>] \in Nat
    BY FifoPast
  <2> QED
    BY <1>2, <2>1
<1>4. /\ tk2[InLeft(b)] = IF InLeft(b) \in rd THEN tk[InLeft(b)] + 1 ELSE tk[InLeft(b)]
      /\ tk2[InUp(b)] = IF InUp(b) \in rd THEN tk[InUp(b)] + 1 ELSE tk[InUp(b)]
      /\ tk[InLeft(b)] \in Nat /\ tk[InUp(b)] \in Nat /\ InLeft(b) # InUp(b)
  BY LoadPast
<1> HIDE DEF tk2, sn2
<1>5. /\ sn2[<<"cPass", b>>] = sn[<<"cPass", b>>] /\ sn2[<<"posC", b>>] = sn[<<"posC", b>>]
      /\ sn2[<<"posS", b>>] = sn[<<"posS", b>>]
      /\ sn2[<<"xaIn", b>>] = sn[<<"xaIn", b>>] /\ sn2[<<"xbIn", b>>] = sn[<<"xbIn", b>>]
      /\ type = "A_FRAME" => /\ sn2[<<"bufB", b>>] = sn[<<"bufB", b>>]
                             /\ sn2[<<"fwdRight", b>>] = sn[<<"fwdRight", b>>]
      /\ type = "B_FRAME" => /\ sn2[<<"bufA", b>>] = sn[<<"bufA", b>>]
                             /\ sn2[<<"fwdDown", b>>] = sn[<<"fwdDown", b>>]
  BY <1>2, <1>3 DEF FifoNames, FrameTypes
<1>6. /\ sn2[Buf(type, b)] = sn[Buf(type, b)] + (IF sd = {Buf(type, b)} THEN 1 ELSE 0)
      /\ sn2[Fwd(type, b)] = sn[Fwd(type, b)] + (IF sd = {Fwd(type, b)} THEN 1 ELSE 0)
  <2>1. \A f \in FifoNames : sd = {<<f, b>>} <=> fs = {f}
    <3> TAKE f \in FifoNames
    <3>1. fs = {f} => sd = {<<f, b>>}
      BY <1>2
    <3>2. \A g : g \in fs => <<g, b>> \in sd
      BY <1>2
    <3>3. sd = {<<f, b>>} => \A g : g \in fs => g = f
      BY <3>2
    <3>4. sd = {<<f, b>>} => f \in fs
      <4>1. \A x \in sd : x[1] \in fs
        BY <1>2
      <4>2. <<f, b>>[1] = f
        OBVIOUS
      <4> QED
        BY <4>1, <4>2
    <3>5. sd = {<<f, b>>} => fs = {f}
      BY <3>3, <3>4
    <3> QED
      BY <3>1, <3>5
  <2>2. \A f \in FifoNames : fs # {f} => (f \in fs => FALSE)
    BY <1>2
  <2>3. \A f \in FifoNames : sn2[<<f, b>>] = sn[<<f, b>>] + (IF sd = {<<f, b>>} THEN 1 ELSE 0)
    BY <1>3, <2>1, <2>2
  <2> QED
    BY <2>3 DEF Buf, Fwd, FifoNames
<1>7. GroupWords(type, b, tk2) = GroupWords(type, b, tk) + (IF rd = {} THEN 0 ELSE 1)
  <2>1. FrameWords(b[1]) \in Nat /\ FrameWords(b[2]) \in Nat /\ FrameWords(S) \in Nat
    BY Constants, Places, Frames
  <2> QED
    BY <1>4, <2>1 DEF GroupWords, FrameLink, HasGroup, FrameTypes
<1>8. OtherFrames(type, b, tk2, sn2)
  BY <1>4, <1>5 DEF OtherFrames, FrameLink, HasGroup, FrameTypes, NoFrames, AllFrames
<1>9. NoCrossing(b, sn) => NoCrossing(b, sn2)
  BY <1>5 DEF NoCrossing
<1>10. sd \in SUBSET SentByLoad(b)
  BY <1>2 DEF SentByLoad
<1> QED
  BY <1>1, <1>4, <1>5, <1>6, <1>7, <1>8, <1>9, <1>10 DEF tk2, sn2, FrameLink, FrameMoved

(* load inside a group: which group it is, and what that says of the rest. *)
LEMMA InWhichGroup ==
  ASSUME NEW b \in Blocks, NEW tk \in Counts, NEW sn \in Counts, TileInv(tk, sn),
         ld[b].pc \in {"groupHeader", "forwardHeader", "payload"}
  PROVE  /\ b \in Position /\ AllHold(chan, tk, sn) /\ ld[b] \in LoadStates
         /\ ld[b].at = b /\ sn[<<"posC", b>>] = 1 /\ sn[<<"posS", b>>] = 1
         /\ ld[b].picked /\ ld[b].from = (IF IsRow0(b) THEN "left" ELSE "up")
         /\ ld[b].nLeft = 0 /\ ld[b].nUp = 0 /\ NoCrossing(b, sn) /\ sn[<<"cPass", b>>] = 0
         /\ FramePort(b) = FrameLink(b)
         /\ \E type \in FrameTypes :
              /\ HasGroup(type, b) /\ ld[b].groups = GroupsLeft(type, b)
              /\ OtherFrames(type, b, tk, sn)
              /\ InGroup(type, b, ld[b], GroupWords(type, b, tk), sn[Buf(type, b)], sn[Fwd(type, b)])
<1>1. LoadInv(b, ld[b], tk, sn) /\ AllHold(chan, tk, sn) /\ b \in Position
  BY Constants DEF TileInv
<1>2. /\ LoadFrames(b, ld[b], tk, sn) /\ ld[b] \in LoadStates
      /\ ld[b].at = b /\ sn[<<"posC", b>>] = 1 /\ sn[<<"posS", b>>] = 1
  BY <1>1, LoadWhere
<1>3. FramePort(b) = FrameLink(b)
  BY <1>2 DEF FramePort, FrameLink
<1> QED
  BY <1>1, <1>2, <1>3 DEF LoadFrames, FrameTypes

LEMMA StillInGroup ==
  ASSUME NEW b \in Blocks, NEW tk \in Counts, NEW sn \in Counts, NEW l \in LoadStates,
         l.at = b, sn[<<"posC", b>>] = 1, sn[<<"posS", b>>] = 1,
         l.picked, l.from = (IF IsRow0(b) THEN "left" ELSE "up"),
         l.nLeft = 0, l.nUp = 0, NoCrossing(b, sn), sn[<<"cPass", b>>] = 0,
         NEW type \in FrameTypes,
         HasGroup(type, b), l.groups = GroupsLeft(type, b), OtherFrames(type, b, tk, sn),
         InGroup(type, b, l, GroupWords(type, b, tk), sn[Buf(type, b)], sn[Fwd(type, b)])
  PROVE  LoadInv(b, l, tk, sn)
<1>1. LoadFrames(b, l, tk, sn)
  BY DEF LoadFrames, FrameTypes
<1> QED
  BY <1>1 DEF LoadInv, LoadBusy

LEMMA GroupEnds ==
  ASSUME NEW b \in Blocks, NEW tk \in Counts, NEW sn \in Counts, NEW type \in FrameTypes,
         HasGroup(type, b), OtherFrames(type, b, tk, sn),
         GroupWords(type, b, tk) = FrameWords(Count(type)), sn[Buf(type, b)] = K,
         sn[Fwd(type, b)] = FrameWords(Count(type)) - FrameWords(Own(type, b) + 1)
  PROVE  /\ AllFrames(type, b, sn)
         /\ GroupsLeft(type, b) = 1 =>
              FramesOver(b, sn) /\ tk[InLeft(b)] = FramesLeft(b) /\ tk[InUp(b)] = FramesUp(b)
         /\ GroupsLeft(type, b) = 2 =>
              type = "B_FRAME" /\ IsRow0(b) /\ IsCol0(b) /\ tk[InLeft(b)] = FrameWords(S)
<1>1. /\ b[1] \in Nat /\ b[2] \in Nat /\ FrameWords(b[1]) \in Nat /\ FrameWords(b[2]) \in Nat
      /\ FrameWords(S) \in Nat /\ FrameWords(R) \in Nat /\ FrameWords(0) = 0
  BY Constants, Places, Frames
<1>2. tk[InLeft(b)] \in Nat /\ tk[InUp(b)] \in Nat
  BY LoadPast
<1>3. AllFrames(type, b, sn)
  BY DEF AllFrames, Buf, Fwd, Count, Own, FrameTypes
<1>4. CASE type = "B_FRAME"
  <2>1. /\ IsRow0(b) /\ tk[InLeft(b)] + FrameWords(b[2]) = FrameWords(S) /\ tk[InUp(b)] = 0
        /\ NoFrames("A_FRAME", b, sn)
    BY <1>4 DEF HasGroup, GroupWords, OtherFrames, Count
  <2>2. CASE IsCol0(b)
    <3>1. FrameWords(b[2]) = 0
      BY <1>1, <2>2 DEF IsCol0
    <3> QED
      BY <1>1, <1>2, <1>3, <1>4, <2>1, <2>2, <3>1 DEF GroupsLeft
  <2>3. CASE ~IsCol0(b)
    BY <1>1, <1>2, <1>3, <1>4, <2>1, <2>3 DEF GroupsLeft, FramesOver, FramesLeft, FramesUp
  <2> QED
    BY <2>2, <2>3
<1>5. CASE type = "A_FRAME"
  <2>1. IsCol0(b) /\ GroupsLeft(type, b) = 1
    BY <1>5 DEF HasGroup, GroupsLeft
  <2>2. CASE IsRow0(b)
    BY <1>1, <1>2, <1>3, <1>5, <2>1, <2>2
       DEF GroupWords, OtherFrames, Count, FramesOver, FramesLeft, FramesUp
  <2>3. CASE ~IsRow0(b)
    BY <1>1, <1>2, <1>3, <1>5, <2>1, <2>3
       DEF GroupWords, OtherFrames, Count, FramesOver, FramesLeft, FramesUp
  <2> QED
    BY <2>1, <2>2, <2>3
<1> QED
  BY <1>4, <1>5 DEF FrameTypes

LEMMA GroupHeaderMoves ==
  ASSUME NEW b \in Blocks, NEW tk \in Counts, NEW sn \in Counts, TileInv(tk, sn), GroupHeader(b)
  PROVE  LoadStep(b, tk, sn)
<1> DEFINE l     == ld[b]
           taken == IF l.fresh THEN {} ELSE {FramePort(b)}
           h     == IF l.fresh THEN l.h ELSE Head(chan[FramePort(b)])
           l2    == WithHeader(b, l, h)
           tk2   == Past(tk, taken)
           sn2   == Past(sn, {})
<1>1. /\ l.pc = "groupHeader" /\ Fire(taken, Nothing) /\ UNCHANGED <<start, cp, st>>
      /\ ld' = [ld EXCEPT ![b].h = h, ![b].fresh = FALSE, ![b].n = 0,
                          ![b].pc = IF Mine(b, h) THEN "payload" ELSE "forwardHeader"]
  BY DEF GroupHeader
<1>2. /\ b \in Position /\ AllHold(chan, tk, sn) /\ l \in LoadStates
      /\ l.at = b /\ sn[<<"posC", b>>] = 1 /\ sn[<<"posS", b>>] = 1
      /\ l.picked /\ l.from = (IF IsRow0(b) THEN "left" ELSE "up")
      /\ l.nLeft = 0 /\ l.nUp = 0 /\ NoCrossing(b, sn) /\ sn[<<"cPass", b>>] = 0
      /\ FramePort(b) = FrameLink(b)
  BY <1>1, InWhichGroup
<1>3. PICK type \in FrameTypes :
        /\ HasGroup(type, b) /\ l.groups = GroupsLeft(type, b) /\ OtherFrames(type, b, tk, sn)
        /\ InGroup(type, b, l, GroupWords(type, b, tk), sn[Buf(type, b)], sn[Fwd(type, b)])
  BY <1>1, InWhichGroup
<1>4. /\ OtherFrames(type, b, tk2, sn2) /\ NoCrossing(b, sn2) /\ sn2[<<"cPass", b>>] = 0
      /\ sn2[<<"posC", b>>] = 1 /\ sn2[<<"posS", b>>] = 1
      /\ GroupWords(type, b, tk2) = GroupWords(type, b, tk) + (IF taken = {} THEN 0 ELSE 1)
      /\ sn2[Buf(type, b)] = sn[Buf(type, b)] /\ sn2[Fwd(type, b)] = sn[Fwd(type, b)]
      /\ taken \in SUBSET ReadByLoad(b) /\ tk[FrameLink(b)] \in Nat /\ FrameLink(b) \in Channels
  <2>1. taken = {} \/ taken = {FrameLink(b)}
    BY <1>2
  <2>2. Past(sn, {}) = sn
    BY PastNone
  <2> HIDE DEF taken
  <2>3. FrameMoved(type, b, tk, sn, taken, {})
    BY <1>3, <2>1, FrameMove
  <2> QED
    BY <1>2, <2>2, <2>3 DEF FrameMoved
<1>5. PICK q \in Own(type, b) .. Count(type) - 1 :
        HeaderOfFrame(type, b, l, GroupWords(type, b, tk), sn[Buf(type, b)], sn[Fwd(type, b)], q)
  BY <1>1, <1>2, <1>3, GroupHeaderStep
<1>6. h = Header(type, Dest(type, q))
  <2>1. CASE l.fresh
    BY <2>1, <1>5 DEF HeaderOfFrame
  <2>2. CASE ~l.fresh
    <3>1. HasWord(FrameLink(b))
      BY <1>1, <1>2, <2>2 DEF Fire
    <3>2. h = Word(FrameLink(b), tk[FrameLink(b)] + 1)
      BY <1>2, <1>4, <2>2, <3>1, NextWord
    <3> DEFINE g == GroupWords(type, b, tk)
    <3>3. Transfer(type)[g + 1] = Header(type, Dest(type, q)) /\ g \in Nat /\ g < FrameWords(Count(type))
      BY <1>5, <2>2 DEF HeaderOfFrame
    <3>4. h = Transfer(type)[g + 1]
      BY <1>2, <1>3, <1>4, <3>2, <3>3, FrameLinkWord
    <3> QED
      BY <3>3, <3>4
  <2> QED
    BY <2>1, <2>2
<1>7. InGroup(type, b, l2, GroupWords(type, b, tk2), sn2[Buf(type, b)], sn2[Fwd(type, b)])
  <2>1. CASE l.fresh
    <3>1. FrameWords(q) \in Nat
      BY <1>2, <1>3, GroupFacts
    <3>2. GroupWords(type, b, tk2) = GroupWords(type, b, tk)
      BY <1>4, <1>5, <2>1, <3>1 DEF HeaderOfFrame
    <3> QED
      BY <1>4, <1>5, <1>6, <2>1, <3>2 DEF HeaderOfFrame
  <2>2. CASE ~l.fresh
    <3>1. GroupWords(type, b, tk2) = GroupWords(type, b, tk) + 1
      BY <1>4, <2>2
    <3> QED
      BY <1>4, <1>5, <1>6, <2>2, <3>1 DEF HeaderOfFrame
  <2> QED
    BY <2>1, <2>2
<1>8. h \in Headers
  <2>1. q \in 0 .. Count(type) - 1 /\ R \in Nat \ {0} /\ S \in Nat \ {0}
    BY <1>2, <1>3, GroupFacts, Constants
  <2>2. Dest(type, q) \in Position /\ type \in Types
    BY <2>1 DEF Dest, Count, FrameTypes, Position, Types
  <2> QED
    BY <1>6, <2>2 DEF Headers
<1>9. ld' = [ld EXCEPT ![b] = l2]
  BY <1>1, <1>2 DEF Mine, WithHeader
<1> HIDE DEF l, h
<1>10. /\ l2 \in LoadStates /\ l2.at = b /\ l2.picked = l.picked /\ l2.from = l.from
       /\ l2.nLeft = l.nLeft /\ l2.nUp = l.nUp /\ l2.groups = l.groups /\ l2.pc # "idle"
  BY <1>2, <1>8 DEF LoadStates, WithHeader
<1> HIDE DEF l2
<1>11. ld' \in [Blocks -> LoadStates] /\ ld'[b] = l2 /\ \A a \in Blocks \ {b} : ld'[a] = ld[a]
  BY <1>9, <1>10 DEF TileInv
<1>12. tk2 \in Counts /\ sn2 \in Counts
  BY PastCounts
<1> HIDE DEF tk2, sn2
<1>13. LoadInv(b, l2, tk2, sn2)
  BY <1>2, <1>3, <1>4, <1>7, <1>10, <1>12, StillInGroup
<1>14. LoadMoves(b) /\ start'[b] = start[b]
  BY <1>1, <1>11 DEF LoadMoves, TileInv
<1> QED
  <2>1. DOMAIN Nothing = {}
    BY NothingPut
  <2> HIDE DEF taken
  <2> QED
    BY <1>1, <1>2, <1>4, <1>10, <1>11, <1>13, <1>14, <2>1, LoadDone DEF tk2, sn2

LEMMA GroupFifoWords ==
  ASSUME NEW type \in FrameTypes, NEW b, NEW k
  PROVE  /\ Word(Buf(type, b), k) = Payload(type, b, k - 1, FALSE)
         /\ Word(Fwd(type, b), k) = Transfer(type)[FrameWords(Own(type, b) + 1) + k]
<1>1. CASE type = "A_FRAME"
  <2>1. /\ Buf(type, b) = <<"bufA", b>> /\ Fwd(type, b) = <<"fwdDown", b>>
        /\ Own(type, b) = b[1]
    BY <1>1 DEF Buf, Fwd, Own
  <2>2. /\ Word(<<"bufA", b>>, k) = Payload("A_FRAME", b, k - 1, FALSE)
        /\ Word(<<"fwdDown", b>>, k) = Transfer("A_FRAME")[FrameWords(b[1] + 1) + k]
    BY FrameFifoWords
  <2> QED
    BY <1>1, <2>1, <2>2
<1>2. CASE type = "B_FRAME"
  <2>1. /\ Buf(type, b) = <<"bufB", b>> /\ Fwd(type, b) = <<"fwdRight", b>>
        /\ Own(type, b) = b[2]
    BY <1>2 DEF Buf, Fwd, Own
  <2>2. /\ Word(<<"bufB", b>>, k) = Payload("B_FRAME", b, k - 1, FALSE)
        /\ Word(<<"fwdRight", b>>, k) = Transfer("B_FRAME")[FrameWords(b[2] + 1) + k]
    BY FrameFifoWords
  <2> QED
    BY <1>2, <2>1, <2>2
<1> QED
  BY <1>1, <1>2 DEF FrameTypes

LEMMA ForwardHeaderMoves ==
  ASSUME NEW b \in Blocks, NEW tk \in Counts, NEW sn \in Counts, TileInv(tk, sn), ForwardHeader(b)
  PROVE  LoadStep(b, tk, sn)
<1> DEFINE l   == ld[b]
           to  == ForwardFifo(b, l.h)
           w   == NotLast(l.h)
           l2  == [l EXCEPT !.pc = "payload"]
           tk2 == Past(tk, {})
           sn2 == Past(sn, {to})
<1>1. /\ l.pc = "forwardHeader" /\ Fire({}, Put(to, w)) /\ UNCHANGED <<start, cp, st>>
      /\ ld' = [ld EXCEPT ![b] = l2]
  BY DEF ForwardHeader, NotLast
<1>2. /\ b \in Position /\ AllHold(chan, tk, sn) /\ l \in LoadStates
      /\ l.at = b /\ sn[<<"posC", b>>] = 1 /\ sn[<<"posS", b>>] = 1
      /\ l.picked /\ l.from = (IF IsRow0(b) THEN "left" ELSE "up")
      /\ l.nLeft = 0 /\ l.nUp = 0 /\ NoCrossing(b, sn) /\ sn[<<"cPass", b>>] = 0
  BY <1>1, InWhichGroup
<1>3. PICK type \in FrameTypes :
        /\ HasGroup(type, b) /\ l.groups = GroupsLeft(type, b) /\ OtherFrames(type, b, tk, sn)
        /\ InGroup(type, b, l, GroupWords(type, b, tk), sn[Buf(type, b)], sn[Fwd(type, b)])
  BY <1>1, InWhichGroup
<1>4. /\ sn[Fwd(type, b)] \in Nat /\ l.h.type = type
      /\ w = Transfer(type)[FrameWords(Own(type, b) + 1) + (sn[Fwd(type, b)] + 1)]
      /\ InGroup(type, b, l2, GroupWords(type, b, tk), sn[Buf(type, b)], sn[Fwd(type, b)] + 1)
  BY <1>1, <1>2, <1>3, ForwardHeaderStep
<1>5. to = Fwd(type, b)
  BY <1>4 DEF ForwardFifo, Fwd
<1>6. w = Word(to, sn[to] + 1)
  <2>1. Word(Fwd(type, b), sn[Fwd(type, b)] + 1) =
          Transfer(type)[FrameWords(Own(type, b) + 1) + (sn[Fwd(type, b)] + 1)]
    BY GroupFifoWords
  <2> QED
    BY <1>4, <1>5, <2>1
<1>7. FrameMoved(type, b, tk, sn, {}, {to})
  BY <1>3, <1>5, FrameMove
<1> HIDE DEF l, w, to
<1>8. /\ l2 \in LoadStates /\ l2.at = b /\ l2.picked = l.picked /\ l2.from = l.from
      /\ l2.nLeft = l.nLeft /\ l2.nUp = l.nUp /\ l2.groups = l.groups /\ l2.pc = "payload"
  BY <1>2 DEF LoadStates
<1> HIDE DEF l2
<1>9. ld' \in [Blocks -> LoadStates] /\ ld'[b] = l2 /\ \A a \in Blocks \ {b} : ld'[a] = ld[a]
  BY <1>1, <1>8 DEF TileInv
<1>10. tk2 \in Counts /\ sn2 \in Counts
  BY PastCounts
<1>11. GroupWords(type, b, tk) = GroupWords(type, b, tk2)
  BY PastNone
<1>12. /\ OtherFrames(type, b, tk2, sn2) /\ NoCrossing(b, sn2) /\ sn2[<<"cPass", b>>] = 0
       /\ sn2[<<"posC", b>>] = 1 /\ sn2[<<"posS", b>>] = 1 /\ {to} \in SUBSET SentByLoad(b)
       /\ InGroup(type, b, l2, GroupWords(type, b, tk2), sn2[Buf(type, b)], sn2[Fwd(type, b)])
  <2>1. Buf(type, b) # Fwd(type, b)
    BY DEF Buf, Fwd
  <2>2. sn[Buf(type, b)] + 0 = sn[Buf(type, b)]
    <3>1. Buf(type, b) \in Channels
      BY OwnChannels DEF Buf, FifoNames
    <3> QED
      BY <3>1 DEF Counts
  <2>3. {to} # {Buf(type, b)} /\ {to} = {Fwd(type, b)}
    BY <1>5, <2>1
  <2> QED
    BY <1>2, <1>4, <1>7, <1>11, <2>2, <2>3 DEF FrameMoved
<1> HIDE DEF tk2, sn2
<1>13. LoadInv(b, l2, tk2, sn2)
  BY <1>2, <1>3, <1>8, <1>10, <1>12, StillInGroup
<1>14. LoadMoves(b) /\ start'[b] = start[b]
  BY <1>1, <1>9 DEF LoadMoves, TileInv
<1> QED
  <2>1. DOMAIN Put(to, w) = {to} /\ \A c \in {to} : Put(to, w)[c] = Word(c, sn[c] + 1)
    BY <1>6, NothingPut
  <2> QED
    BY <1>1, <1>2, <1>8, <1>9, <1>12, <1>13, <1>14, <2>1, LoadDone DEF tk2, sn2

LEMMA InGroupSame ==
  ASSUME NEW type, NEW b, NEW l, NEW l2, NEW g, NEW buf, NEW fwd,
         l2.pc = l.pc, l2.fresh <=> l.fresh, l2.h = l.h, l2.n = l.n,
         InGroup(type, b, l, g, buf, fwd)
  PROVE  InGroup(type, b, l2, g, buf, fwd)
BY DEF InGroup

LEMMA FramePayloadMoves ==
  ASSUME NEW b \in Blocks, NEW tk \in Counts, NEW sn \in Counts, TileInv(tk, sn), FramePayload(b)
  PROVE  LoadStep(b, tk, sn)
<1> DEFINE l    == ld[b]
           port == FramePort(b)
           w    == Head(chan[port])
           mine == l.h.at = b
           to   == IF mine THEN OperandFifo(b, l.h) ELSE ForwardFifo(b, l.h)
           v    == IF mine THEN NotLast(w) ELSE w
           tk2  == Past(tk, {port})
           sn2  == Past(sn, {to})
<1>1. /\ l.pc = "payload" /\ UNCHANGED <<cp, st>>
      /\ Fire({port}, IF Mine(b, l.h) THEN Put(OperandFifo(b, l.h), [w EXCEPT !.last = FALSE])
                                      ELSE Put(ForwardFifo(b, l.h), w))
      /\ \/ /\ l.n < K - 1
            /\ ld' = [ld EXCEPT ![b].n = @ + 1]
            /\ UNCHANGED start
         \/ /\ l.n = K - 1
            /\ ~w.last \/ l.groups = 2
            /\ ld' = [ld EXCEPT ![b].pc = "groupHeader", ![b].groups = IF w.last THEN 1 ELSE @]
            /\ UNCHANGED start
         \/ /\ l.n = K - 1
            /\ w.last /\ l.groups = 1
            /\ LeaveLoad(b, "groupHeader")
  BY DEF FramePayload
<1>2. /\ b \in Position /\ AllHold(chan, tk, sn) /\ l \in LoadStates
      /\ l.at = b /\ sn[<<"posC", b>>] = 1 /\ sn[<<"posS", b>>] = 1
      /\ l.picked /\ l.from = (IF IsRow0(b) THEN "left" ELSE "up")
      /\ l.nLeft = 0 /\ l.nUp = 0 /\ NoCrossing(b, sn) /\ sn[<<"cPass", b>>] = 0
      /\ port = FrameLink(b)
  BY <1>1, InWhichGroup
<1>3. PICK type \in FrameTypes :
        /\ HasGroup(type, b) /\ l.groups = GroupsLeft(type, b) /\ OtherFrames(type, b, tk, sn)
        /\ InGroup(type, b, l, GroupWords(type, b, tk), sn[Buf(type, b)], sn[Fwd(type, b)])
  BY <1>1, InWhichGroup
<1> DEFINE g    == GroupWords(type, b, tk)
           buf  == sn[Buf(type, b)]
           fwd  == sn[Fwd(type, b)]
<1>4. BeatOfFrame(type, b, l, g, buf, fwd)
  BY <1>1, <1>2, <1>3, PayloadStep
<1>5. /\ g \in Nat /\ g < FrameWords(Count(type)) /\ buf \in Nat /\ fwd \in Nat
      /\ l.h.type = type /\ ~l.fresh /\ l.n \in 0 .. K - 1
  BY <1>4 DEF BeatOfFrame
<1>6. Fire({port}, Put(to, v))
  BY <1>1, <1>2 DEF Mine, NotLast
<1>7. to = IF mine THEN Buf(type, b) ELSE Fwd(type, b)
  BY <1>5 DEF ForwardFifo, OperandFifo, Buf, Fwd
<1>8. FrameMoved(type, b, tk, sn, {port}, {to})
  BY <1>2, <1>3, <1>7, FrameMove
<1>9. w = Transfer(type)[g + 1]
  <2>1. HasWord(port)
    BY <1>6 DEF Fire
  <2>2. tk[FrameLink(b)] \in Nat /\ FrameLink(b) \in Channels
    BY <1>8 DEF FrameMoved
  <2>3. w = Word(FrameLink(b), tk[FrameLink(b)] + 1)
    BY <1>2, <2>1, <2>2, NextWord
  <2> HIDE DEF g
  <2>4. Word(FrameLink(b), tk[FrameLink(b)] + 1) = Transfer(type)[g + 1]
    BY <1>2, <1>3, <1>5, <2>2, FrameLinkWord DEF g
  <2> QED
    BY <2>3, <2>4
<1> HIDE DEF w
<1>10. v = Word(to, sn[to] + 1)
  <2>1. /\ Word(Buf(type, b), buf + 1) = Payload(type, b, (buf + 1) - 1, FALSE)
        /\ Word(Fwd(type, b), fwd + 1) = Transfer(type)[FrameWords(Own(type, b) + 1) + (fwd + 1)]
    BY GroupFifoWords
  <2>2. (buf + 1) - 1 = buf
    BY <1>5
  <2>3. CASE mine
    <3>1. NotLast(w) = Payload(type, b, buf, FALSE)
      BY <1>4, <1>9, <2>3 DEF BeatOfFrame
    <3> QED
      BY <1>7, <2>1, <2>2, <2>3, <3>1
  <2>4. CASE ~mine
    <3>1. w = Transfer(type)[FrameWords(Own(type, b) + 1) + (fwd + 1)]
      BY <1>4, <1>9, <2>4 DEF BeatOfFrame
    <3> QED
      BY <1>7, <2>1, <2>4, <3>1
  <2> QED
    BY <2>3, <2>4
<1> DEFINE buf2 == IF mine THEN buf + 1 ELSE buf
           fwd2 == IF mine THEN fwd ELSE fwd + 1
<1>11. /\ OtherFrames(type, b, tk2, sn2) /\ NoCrossing(b, sn2) /\ sn2[<<"cPass", b>>] = 0
       /\ sn2[<<"posC", b>>] = 1 /\ sn2[<<"posS", b>>] = 1
       /\ {to} \in SUBSET SentByLoad(b) /\ {port} \in SUBSET ReadByLoad(b)
       /\ GroupWords(type, b, tk2) = g + 1
       /\ sn2[Buf(type, b)] = buf2 /\ sn2[Fwd(type, b)] = fwd2
  <2>1. Buf(type, b) # Fwd(type, b)
    BY DEF Buf, Fwd
  <2>2. mine => {to} = {Buf(type, b)} /\ {to} # {Fwd(type, b)}
    BY <1>7, <2>1
  <2>3. ~mine => {to} = {Fwd(type, b)} /\ {to} # {Buf(type, b)}
    BY <1>7, <2>1
  <2>4. {port} # {}
    OBVIOUS
  <2> HIDE DEF to, port, mine
  <2> QED
    BY <1>2, <1>5, <1>8, <2>2, <2>3, <2>4 DEF FrameMoved
<1>12. tk2 \in Counts /\ sn2 \in Counts
  BY PastCounts
<1>13. DOMAIN Put(to, v) = {to} /\ \A c \in {to} : Put(to, v)[c] = Word(c, sn[c] + 1)
  <2> HIDE DEF to, v
  <2> QED
    BY <1>10, NothingPut
<1>0. l.pc = "payload" /\ l \in LoadStates /\ l.at = b /\ (l.n \in 0 .. K - 1)
  BY <1>1, <1>2, <1>5
<1> SUFFICES /\ LoadMoves(b) /\ LoadInv(b, ld'[b], tk2, sn2)
             /\ IF ld'[b].pc = "idle" THEN ~start'[b] /\ sn2[<<"posC", b>>] = 1
                                      ELSE start'[b] = start[b]
  BY <1>2, <1>6, <1>11, <1>13, LoadDone
<1> HIDE DEF to, port, v, mine, tk2, sn2, g, buf, fwd, buf2, fwd2
<1>14. ASSUME NEW l2 \in LoadStates, ld' = [ld EXCEPT ![b] = l2], start' = start,
              l2.at = b, l2.picked = l.picked, l2.from = l.from, l2.nLeft = l.nLeft, l2.nUp = l.nUp,
              l2.pc # "idle", LoadInv(b, l2, tk2, sn2)
       PROVE  /\ LoadMoves(b) /\ LoadInv(b, ld'[b], tk2, sn2)
              /\ IF ld'[b].pc = "idle" THEN ~start'[b] /\ sn2[<<"posC", b>>] = 1
                                       ELSE start'[b] = start[b]
  <2>1. ld' \in [Blocks -> LoadStates] /\ ld'[b] = l2 /\ \A a \in Blocks \ {b} : ld'[a] = ld[a]
    BY <1>14 DEF TileInv
  <2> QED
    BY <1>1, <1>14, <2>1 DEF LoadMoves, TileInv
<1>15. CASE l.n < K - 1
  <2> DEFINE l2 == [l EXCEPT !.n = @ + 1]
  <2>1. ld' = [ld EXCEPT ![b] = l2] /\ start' = start
    BY <1>1, <1>5, <1>15, Constants
  <2>2. InGroup(type, b, l2, g + 1, buf2, fwd2)
    BY <1>4, <1>15 DEF BeatOfFrame, buf2, fwd2, mine
  <2> HIDE DEF l
  <2>3. /\ l2 \in LoadStates /\ l2.at = b /\ l2.picked = l.picked /\ l2.from = l.from
        /\ l2.nLeft = l.nLeft /\ l2.nUp = l.nUp /\ l2.groups = l.groups /\ l2.pc # "idle"
    BY <1>0 DEF LoadStates
  <2> HIDE DEF l2
  <2>4. LoadInv(b, l2, tk2, sn2)
    BY <1>2, <1>3, <1>11, <1>12, <2>2, <2>3, StillInGroup
  <2> QED
    BY <1>14, <2>1, <2>3, <2>4
<1>16. CASE l.n = K - 1 /\ ~w.last
  <2> DEFINE l1 == [l EXCEPT !.pc = "groupHeader"]
             l2 == [l EXCEPT !.pc = "groupHeader", !.groups = IF w.last THEN 1 ELSE @]
  <2>1. ld' = [ld EXCEPT ![b] = l2] /\ start' = start
    <3>1. /\ ld' = [ld EXCEPT ![b].pc = "groupHeader", ![b].groups = IF w.last THEN 1 ELSE @]
          /\ start' = start
      BY <1>1, <1>5, <1>16, Constants
    <3> QED
      BY <3>1
  <2>2. InGroup(type, b, l1, g + 1, buf2, fwd2)
    BY <1>4, <1>9, <1>16 DEF BeatOfFrame, buf2, fwd2, mine
  <2> HIDE DEF l
  <2>3. /\ l2 \in LoadStates /\ l2.at = b /\ l2.picked = l.picked /\ l2.from = l.from
        /\ l2.nLeft = l.nLeft /\ l2.nUp = l.nUp /\ l2.groups = l.groups /\ l2.pc # "idle"
        /\ l2.pc = l1.pc /\ (l2.fresh <=> l1.fresh) /\ l2.h = l1.h /\ l2.n = l1.n
    BY <1>0, <1>16 DEF LoadStates
  <2> HIDE DEF l1, l2
  <2>4. InGroup(type, b, l2, g + 1, buf2, fwd2)
    BY <2>2, <2>3, InGroupSame
  <2>5. LoadInv(b, l2, tk2, sn2)
    BY <1>2, <1>3, <1>11, <1>12, <2>3, <2>4, StillInGroup
  <2> QED
    BY <1>14, <2>1, <2>3, <2>5
<1>17. CASE l.n = K - 1 /\ w.last
  <2>1. /\ g + 1 = FrameWords(Count(type)) /\ buf2 = K
        /\ fwd2 = FrameWords(Count(type)) - FrameWords(Own(type, b) + 1)
    BY <1>4, <1>9, <1>17 DEF BeatOfFrame, buf2, fwd2, mine
  <2>2. /\ AllFrames(type, b, sn2)
        /\ GroupsLeft(type, b) = 1 =>
             FramesOver(b, sn2) /\ tk2[InLeft(b)] = FramesLeft(b) /\ tk2[InUp(b)] = FramesUp(b)
        /\ GroupsLeft(type, b) = 2 =>
             type = "B_FRAME" /\ IsRow0(b) /\ IsCol0(b) /\ tk2[InLeft(b)] = FrameWords(S)
    BY <1>3, <1>11, <1>12, <2>1, GroupEnds
  <2>3. CASE l.groups = 2
    <3> DEFINE l2 == [l EXCEPT !.pc = "groupHeader", !.groups = 1]
    <3>1. ld' = [ld EXCEPT ![b] = l2] /\ start' = start
      <4>1. /\ ld' = [ld EXCEPT ![b].pc = "groupHeader", ![b].groups = IF w.last THEN 1 ELSE @]
            /\ start' = start
        BY <1>1, <1>5, <1>17, <2>3, Constants
      <4> QED
        BY <4>1, <1>17
    <3>2. type = "B_FRAME" /\ IsRow0(b) /\ IsCol0(b) /\ tk2[InLeft(b)] = FrameWords(S)
      BY <1>3, <2>2, <2>3
    <3> HIDE DEF l
    <3>9. /\ l2.at = b /\ l2.from = l.from /\ l2.picked = l.picked
          /\ l2.nLeft = l.nLeft /\ l2.nUp = l.nUp /\ l2.groups = 1 /\ l2.pc = "groupHeader"
      BY <1>0 DEF LoadStates
    <3>10. l2 \in LoadStates /\ (l2.fresh <=> l.fresh)
      <4>1. 1 \in 0 .. 2
        OBVIOUS
      <4> QED
        BY <1>0, <4>1 DEF LoadStates
    <3>3. /\ l2 \in LoadStates /\ l2.at = b /\ l2.picked = l.picked /\ l2.from = l.from
          /\ l2.nLeft = l.nLeft /\ l2.nUp = l.nUp /\ l2.groups = 1 /\ l2.pc = "groupHeader"
          /\ (l2.fresh <=> l.fresh)
      BY <3>9, <3>10
    <3> HIDE DEF l2
    <3>4. /\ HasGroup("A_FRAME", b) /\ l2.groups = GroupsLeft("A_FRAME", b)
          /\ OtherFrames("A_FRAME", b, tk2, sn2) /\ "A_FRAME" \in FrameTypes
      BY <1>11, <2>2, <3>2, <3>3 DEF HasGroup, GroupsLeft, OtherFrames, FrameTypes
    <3>5. GroupWords("A_FRAME", b, tk2) = 0 /\ sn2[Buf("A_FRAME", b)] = 0 /\ sn2[Fwd("A_FRAME", b)] = 0
      <4>1. FrameWords(S) \in Nat
        BY Constants, Frames
      <4> QED
        BY <4>1, <1>11, <3>2 DEF GroupWords, OtherFrames, NoFrames, Buf, Fwd
    <3>6. InGroup("A_FRAME", b, l2, 0, 0, 0)
      <4>1. Own("A_FRAME", b) = 0 /\ Count("A_FRAME") \in Nat \ {0} /\ FrameWords(0) = 0
        BY <3>2, Constants, Frames DEF Own, IsRow0, Count
      <4>2. 0 \in Own("A_FRAME", b) .. Count("A_FRAME") - 1
        BY <4>1
      <4> QED
        BY <4>1, <4>2, <3>3, <1>5 DEF InGroup
    <3>7. LoadInv(b, l2, tk2, sn2)
      BY <1>2, <1>11, <1>12, <3>3, <3>4, <3>5, <3>6, StillInGroup
    <3> QED
      BY <1>14, <3>1, <3>3, <3>7
  <2>4. CASE l.groups # 2
    <3>1. GroupsLeft(type, b) = 1 /\ l.groups = 1
      BY <1>3, <2>4 DEF GroupsLeft
    <3>2. FramesOver(b, sn2) /\ tk2[InLeft(b)] = FramesLeft(b) /\ tk2[InUp(b)] = FramesUp(b)
      BY <2>2, <3>1
    <3>3. LeaveLoad(b, "groupHeader")
      BY <1>1, <1>5, <1>17, <2>4, Constants
    <3>4. IsRow0(b) \/ IsCol0(b)
      BY <1>3 DEF HasGroup, FrameTypes
    <3> DEFINE next == IF IsRow0(b) /\ IsCol0(b) THEN "idle" ELSE "crossHeaders"
    <3>5. next = AfterLoad(b, "groupHeader")
      BY <1>2, LoadPhases
    <3>6. /\ LoadMoves(b)
          /\ next = "idle" => ld'[b] = LoadIdle /\ ~start'[b]
          /\ next # "idle" => ld'[b] = [l EXCEPT !.pc = next, !.n = 0] /\ start' = start
      <4>1. next \in {"idle", "crossHeaders"}
        OBVIOUS
      <4> HIDE DEF next
      <4>2. LoadLeft(b, next)
        BY <1>0, <1>1, <3>3, <3>5, <4>1, LoadLeaves DEF TileInv
      <4> QED
        BY <4>2 DEF LoadLeft
    <3>7. CASE IsRow0(b) /\ IsCol0(b)
      <4>1. ld'[b] = LoadIdle /\ ~start'[b] /\ LoadIdle.pc = "idle"
        BY <3>6, <3>7 DEF LoadIdle
      <4>2. /\ CrossingOver(b, sn2) /\ CPassed(b) = 0
            /\ TotalLeft(b) = FramesLeft(b) /\ TotalUp(b) = FramesUp(b)
        <5>1. ~FromLeftC(b) /\ ~FromUpC(b)
          BY <3>7 DEF FromLeftC, FromUpC
        <5>2. CPassed(b) = 0
          BY <5>1, <1>2, CCounts
        <5>3. CrossingOver(b, sn2)
          BY <1>11, <3>7 DEF CrossingOver, NoCrossing
        <5>4. /\ CrossLeftWords(b) = 0 /\ CrossUpWords(b) = 0
              /\ CLeftWords(b) = 0 /\ CUpWords(b) = 0
          BY <3>7, <5>1 DEF CrossLeftWords, CrossUpWords, CLeftWords, CUpWords
        <5>5. FramesLeft(b) \in Nat /\ FramesUp(b) \in Nat
          BY <1>2, Neighbours, LinkCounts
        <5> QED
          BY <5>2, <5>3, <5>4, <5>5 DEF TotalLeft, TotalUp
      <4>3. LoadOver(b, LoadIdle, tk2, sn2)
        BY <1>11, <3>2, <4>2 DEF LoadOver
      <4> QED
        BY <1>11, <3>6, <4>1, <4>3, IdleStates DEF LoadInv
    <3>8. CASE ~(IsRow0(b) /\ IsCol0(b))
      <4> DEFINE l2 == [l EXCEPT !.pc = "crossHeaders", !.n = 0]
      <4>1. ld'[b] = l2 /\ start' = start
        BY <3>6, <3>8
      <4> HIDE DEF l
      <4>2. /\ l2 \in LoadStates /\ l2.at = b /\ (l2.picked <=> l.picked) /\ l2.from = l.from
            /\ l2.nLeft = l.nLeft /\ l2.nUp = l.nUp /\ l2.pc = "crossHeaders"
        BY <1>2 DEF LoadStates
      <4> HIDE DEF l2
      <4>3. FramesLeft(b) \in Nat /\ FramesUp(b) \in Nat
        BY <1>2, Neighbours, LinkCounts
      <4>4. LoadCross(b, l2, tk2, sn2)
        BY <1>2, <1>11, <3>2, <3>4, <3>8, <4>2, <4>3 DEF LoadCross
      <4>5. LoadInv(b, l2, tk2, sn2)
        BY <1>11, <4>2, <4>4 DEF LoadInv, LoadBusy
      <4> QED
        BY <3>6, <4>1, <4>2, <4>5
    <3> QED
      BY <3>7, <3>8
  <2> QED
    BY <2>3, <2>4
<1> QED
  BY <1>1, <1>15, <1>16, <1>17

-----------------------------------------------------------------------------
(* Load goes on to its next phase, which next is, with tk and sn as they    *)
(* will be then.                                                           *)
LoadGoesOn(b, next, tk, sn) ==
  IF next = "idle" THEN LoadOver(b, LoadIdle, tk, sn)
  ELSE \A l \in LoadStates :
         l.pc = next /\ l.at = b /\ (l.picked <=> ld[b].picked) /\ l.from = ld[b].from
         /\ l.nLeft = ld[b].nLeft /\ l.nUp = ld[b].nUp
         => LoadInv(b, l, tk, sn)

LEMMA LoadPasses ==
  ASSUME NEW b \in Blocks, NEW tk \in Counts, NEW sn \in Counts, TileInv(tk, sn),
         NEW rd \in SUBSET ReadByLoad(b), NEW wr, DOMAIN wr \subseteq SentByLoad(b), Fire(rd, wr),
         \A c \in DOMAIN wr : wr[c] = Word(c, sn[c] + 1),
         ld[b].at = b, NEW phase, LeaveLoad(b, phase), UNCHANGED <<cp, st>>,
         NEW next, next = AfterLoad(b, phase),
         next \in {"idle", "groupHeader", "crossHeaders", "cross", "cUpHeader", "cUp",
                   "cLeftHeader", "cLeft"},
         LoadGoesOn(b, next, Past(tk, rd), Past(sn, DOMAIN wr))
  PROVE  LoadStep(b, tk, sn)
<1> DEFINE tk2 == Past(tk, rd)
           sn2 == Past(sn, DOMAIN wr)
<1>1. /\ start \in [Blocks -> BOOLEAN] /\ ld \in [Blocks -> LoadStates] /\ AllHold(chan, tk, sn)
  BY DEF TileInv
<1>2. LoadLeft(b, next)
  BY <1>1, LoadLeaves
<1>3. LoadMoves(b)
  BY <1>2 DEF LoadLeft
<1> SUFFICES /\ LoadInv(b, ld'[b], tk2, sn2)
             /\ IF ld'[b].pc = "idle" THEN ~start'[b] /\ sn2[<<"posC", b>>] = 1
                                      ELSE start'[b] = start[b]
  BY <1>1, <1>3, LoadDone
<1> HIDE DEF tk2, sn2
<1>4. LoadGoesOn(b, next, tk2, sn2)
  BY DEF tk2, sn2
<1>5. CASE next = "idle"
  <2>1. LoadOver(b, LoadIdle, tk2, sn2)
    BY <1>4, <1>5 DEF LoadGoesOn
  <2>2. ld'[b] = LoadIdle /\ ~start'[b] /\ LoadIdle.pc = "idle" /\ sn2[<<"posC", b>>] = 1
    BY <1>2, <1>5, <2>1 DEF LoadLeft, LoadOver, LoadIdle
  <2> QED
    BY <2>1, <2>2, IdleStates DEF LoadInv
<1>6. CASE next # "idle"
  <2>1. PICK l \in LoadStates : l = ld[b]
    BY <1>1
  <2> DEFINE l2 == [l EXCEPT !.pc = next, !.n = 0]
  <2>2. ld'[b] = l2 /\ start' = start
    BY <1>2, <1>6, <2>1 DEF LoadLeft
  <2>3. /\ l2 \in LoadStates /\ l2.pc = next /\ l2.at = l.at /\ (l2.picked <=> l.picked)
        /\ l2.from = l.from /\ l2.nLeft = l.nLeft /\ l2.nUp = l.nUp
    BY DEF LoadStates
  <2> HIDE DEF l2
  <2>4. LoadInv(b, l2, tk2, sn2)
    BY <1>4, <1>6, <2>1, <2>3 DEF LoadGoesOn
  <2> QED
    BY <1>6, <2>2, <2>3, <2>4
<1> QED
  BY <1>5, <1>6

(* In the C phase: left and up words of it are past, c went to cPass. *)
CPoint(b, left, up, c, tk, sn) ==
  /\ FramesOver(b, sn) /\ CrossingOver(b, sn)
  /\ sn[<<"posC", b>>] = 1 /\ sn[<<"posS", b>>] = 1 /\ sn[<<"cPass", b>>] = c
  /\ tk[InLeft(b)] = FramesLeft(b) + CrossLeftWords(b) + left
  /\ tk[InUp(b)] = FramesUp(b) + CrossUpWords(b) + up

LEMMA CGoesOn ==
  ASSUME NEW b \in Position, NEW tk, NEW sn
  PROVE  /\ CPoint(b, 0, 0, 0, tk, sn) => LoadGoesOn(b, AfterLoad(b, "cross"), tk, sn)
         /\ FromUpC(b) /\ CPoint(b, 0, 1, 0, tk, sn) => LoadGoesOn(b, "cUp", tk, sn)
         /\ FromUpC(b) /\ CPoint(b, 0, CUpWords(b), CUpBeats(b), tk, sn) =>
              LoadGoesOn(b, AfterLoad(b, "cUp"), tk, sn)
         /\ FromLeftC(b) /\ CPoint(b, 1, CUpWords(b), CUpBeats(b), tk, sn) =>
              LoadGoesOn(b, "cLeft", tk, sn)
         /\ FromLeftC(b) /\ CPoint(b, CLeftWords(b), CUpWords(b), CPassed(b), tk, sn) =>
              LoadGoesOn(b, "idle", tk, sn)
<1>1. /\ FramesLeft(b) \in Nat /\ FramesUp(b) \in Nat
      /\ CrossLeftWords(b) \in Nat /\ CrossUpWords(b) \in Nat
      /\ CLeftBeats(b) \in Nat /\ CUpBeats(b) \in Nat /\ CPassed(b) = CUpBeats(b) + CLeftBeats(b)
      /\ FromLeftC(b) => CLeftBeats(b) > 0
      /\ ~FromLeftC(b) => CLeftBeats(b) = 0
      /\ FromUpC(b) => CUpBeats(b) > 0
      /\ ~FromUpC(b) => CUpBeats(b) = 0
  BY Neighbours, LinkCounts, CCounts
<1>2. /\ CUpWords(b) = (IF FromUpC(b) THEN 1 + CUpBeats(b) ELSE 0)
      /\ CLeftWords(b) = (IF FromLeftC(b) THEN 1 + CLeftBeats(b) ELSE 0)
      /\ TotalLeft(b) = FramesLeft(b) + CrossLeftWords(b) + CLeftWords(b)
      /\ TotalUp(b) = FramesUp(b) + CrossUpWords(b) + CUpWords(b)
  BY DEF CUpWords, CLeftWords, TotalLeft, TotalUp
<1>3. CUpWords(b) \in Nat /\ CLeftWords(b) \in Nat
  BY <1>1, <1>2
<1> USE <1>1, <1>2, <1>3
<1>4. CPoint(b, CLeftWords(b), CUpWords(b), CPassed(b), tk, sn) => LoadGoesOn(b, "idle", tk, sn)
  BY DEF CPoint, LoadGoesOn, LoadOver
<1>5. ASSUME FromUpC(b), CPoint(b, 0, 0, 0, tk, sn)
      PROVE  LoadGoesOn(b, "cUpHeader", tk, sn)
  BY <1>5 DEF CPoint, LoadGoesOn, LoadInv, LoadBusy, LoadC
<1>6. ASSUME FromUpC(b), CPoint(b, 0, 1, 0, tk, sn)
      PROVE  LoadGoesOn(b, "cUp", tk, sn)
  BY <1>6 DEF CPoint, LoadGoesOn, LoadInv, LoadBusy, LoadC
<1>7. ASSUME FromLeftC(b), CPoint(b, 0, CUpWords(b), CUpBeats(b), tk, sn)
      PROVE  LoadGoesOn(b, "cLeftHeader", tk, sn)
  BY <1>7 DEF CPoint, LoadGoesOn, LoadInv, LoadBusy, LoadC
<1>8. ASSUME FromLeftC(b), CPoint(b, 1, CUpWords(b), CUpBeats(b), tk, sn)
      PROVE  LoadGoesOn(b, "cLeft", tk, sn)
  BY <1>8 DEF CPoint, LoadGoesOn, LoadInv, LoadBusy, LoadC
<1>9. ASSUME CPoint(b, 0, 0, 0, tk, sn)
      PROVE  LoadGoesOn(b, AfterLoad(b, "cross"), tk, sn)
  <2>1. CASE FromUpC(b)
    BY <1>5, <1>9, <2>1, LoadPhases
  <2>2. CASE ~FromUpC(b) /\ FromLeftC(b)
    BY <1>7, <1>9, <2>2, LoadPhases
  <2>3. CASE ~FromUpC(b) /\ ~FromLeftC(b)
    BY <1>4, <1>9, <2>3, LoadPhases
  <2> QED
    BY <2>1, <2>2, <2>3
<1>10. ASSUME FromUpC(b), CPoint(b, 0, CUpWords(b), CUpBeats(b), tk, sn)
       PROVE  LoadGoesOn(b, AfterLoad(b, "cUp"), tk, sn)
  <2>1. CASE FromLeftC(b)
    BY <1>7, <1>10, <2>1, LoadPhases
  <2>2. CASE ~FromLeftC(b)
    BY <1>4, <1>10, <2>2, LoadPhases
  <2> QED
    BY <2>1, <2>2
<1> QED
  BY <1>4, <1>6, <1>8, <1>9, <1>10

-----------------------------------------------------------------------------
(* The crossing *)

LEMMA FifoPut ==
  ASSUME NEW b \in Blocks, NEW n \in Counts, NEW f \in FifoNames
  PROVE  /\ Past(n, {<<f, b>>})[<<f, b>>] = n[<<f, b>>] + 1
         /\ \A g \in FifoNames \ {f} : Past(n, {<<f, b>>})[<<g, b>>] = n[<<g, b>>]
         /\ \A g \in FifoNames : n[<<g, b>>] \in Nat
<1>1. \A g \in FifoNames : <<g, b>> \in Channels
  BY OwnChannels
<1>2. \A g \in FifoNames : <<g, b>> \in {<<f, b>>} <=> g = f
  OBVIOUS
<1> QED
  BY <1>1, <1>2, PastCounts DEF Counts

LEMMA FramesKept ==
  ASSUME NEW b, NEW sn, NEW sn2,
         \A f \in {"bufA", "bufB", "fwdRight", "fwdDown"} : sn2[<<f, b>>] = sn[<<f, b>>],
         FramesOver(b, sn)
  PROVE  FramesOver(b, sn2)
<1>1. /\ sn2[<<"bufA", b>>] = sn[<<"bufA", b>>] /\ sn2[<<"bufB", b>>] = sn[<<"bufB", b>>]
      /\ sn2[<<"fwdRight", b>>] = sn[<<"fwdRight", b>>]
      /\ sn2[<<"fwdDown", b>>] = sn[<<"fwdDown", b>>]
  OBVIOUS
<1> QED
  BY <1>1 DEF FramesOver, AllFrames, NoFrames

LEMMA CrossHeadersStep ==
  ASSUME NEW b \in Blocks, NEW tk \in Counts, NEW sn \in Counts, TileInv(tk, sn), CrossHeaders(b)
  PROVE  LoadStep(b, tk, sn)
<1> DEFINE rd == {c \in {InLeft(b), InUp(b)} :
                    /\ ~HaveHeader(b, c[1])
                    /\ IF c[1] = "left" THEN ~IsCol0(b) ELSE ~IsRow0(b)}
           tk2 == Past(tk, rd)
<1>1. ld[b].pc = "crossHeaders" /\ b \in Position /\ LoadInv(b, ld[b], tk, sn)
  BY Constants DEF CrossHeaders, TileInv
<1>2. ld[b].at = b /\ sn[<<"posC", b>>] = 1 /\ sn[<<"posS", b>>] = 1 /\ LoadCross(b, ld[b], tk, sn)
  BY <1>1, LoadWhere
<1>3. Fire(rd, Nothing) /\ LeaveLoad(b, "crossHeaders") /\ UNCHANGED <<cp, st>>
  BY <1>2 DEF CrossHeaders
<1>4. /\ rd \in SUBSET ReadByLoad(b)
      /\ InLeft(b) \in rd <=> ~HaveHeader(b, "left") /\ ~IsCol0(b)
      /\ InUp(b) \in rd <=> ~HaveHeader(b, "up") /\ ~IsRow0(b)
  BY DEF ReadByLoad, InLeft, InUp
<1> HIDE DEF rd
<1>5. "cross" = AfterLoad(b, "crossHeaders")
  BY <1>1, <1>2, LoadPhases DEF LoadCross
<1>6. /\ tk2[InLeft(b)] = FramesLeft(b) + (IF IsCol0(b) THEN 0 ELSE 1 + 0)
      /\ tk2[InUp(b)] = FramesUp(b) + (IF IsRow0(b) THEN 0 ELSE 1 + 0)
  <2>1. FramesLeft(b) \in Nat /\ FramesUp(b) \in Nat
    BY <1>1, Neighbours, LinkCounts
  <2> QED
    BY <1>1, <1>2, <1>4, <2>1, LoadPast DEF LoadCross, HaveHeader
<1> HIDE DEF tk2
<1>7. LoadGoesOn(b, "cross", tk2, sn)
  <2> SUFFICES ASSUME NEW l \in LoadStates,
                      l.pc = "cross", l.at = b, (l.picked <=> ld[b].picked), l.from = ld[b].from,
                      l.nLeft = ld[b].nLeft, l.nUp = ld[b].nUp
               PROVE  LoadInv(b, l, tk2, sn)
    BY DEF LoadGoesOn
  <2>1. l.nLeft = 0 /\ l.nUp = 0 /\ NoCrossing(b, sn) /\ ~(IsRow0(b) /\ IsCol0(b))
    BY <1>1, <1>2 DEF LoadCross
  <2>2. ~CrossDone(b, l.nLeft, l.nUp) /\ 0 <= STEPS
    BY <2>1, Constants DEF CrossDone
  <2>3. sn[<<"xaIn", b>>] = 0 /\ sn[<<"xbIn", b>>] = 0
    BY <2>1 DEF NoCrossing
  <2>4. /\ (l.picked <=> (IsRow0(b) \/ IsCol0(b))) /\ l.from \in {"left", "up"}
        /\ FramesOver(b, sn) /\ sn[<<"cPass", b>>] = 0
    BY <1>2 DEF LoadCross
  <2>5. LoadCross(b, l, tk2, sn)
    BY <1>6, <2>1, <2>2, <2>3, <2>4 DEF LoadCross
  <2> QED
    BY <1>2, <2>5 DEF LoadInv, LoadBusy
<1>8. Past(sn, {}) = sn
  BY PastNone
<1> QED
  BY <1>2, <1>3, <1>4, <1>5, <1>7, <1>8, NothingPut, LoadPasses DEF tk2

LEMMA CrossWords ==
  ASSUME NEW b \in Position, NEW n \in 0 .. STEPS - 1
  PROVE  /\ ~IsCol0(b) => \E x : Word(InLeft(b), FramesLeft(b) + 2 + n) = Payload("A_CROSS", b, n, x)
         /\ ~IsRow0(b) => \E x : Word(InUp(b), FramesUp(b) + 2 + n) = Payload("B_CROSS", b, n, x)
<1>1. b \in Place /\ b[1] # R
  BY Neighbours, Places, Constants
<1>2. ASSUME ~IsCol0(b)
      PROVE  \E x : Word(InLeft(b), FramesLeft(b) + 2 + n) = Payload("A_CROSS", b, n, x)
  <2>1. PICK f : f = FramesLeft(b)
    OBVIOUS
  <2>2. \A m \in 0 .. STEPS - 1 : LeftWord(b, f + 2 + m) = Payload("A_CROSS", b, m, m = STEPS - 1)
    BY <1>1, <1>2, <2>1, LeftCrossWords
  <2>3. LeftWord(b, f + 2 + n) = Payload("A_CROSS", b, n, n = STEPS - 1)
    BY <2>2, Zenon
  <2>4. Word(InLeft(b), f + 2 + n) = LeftWord(b, f + 2 + n)
    BY LinkWords
  <2> QED
    BY <2>1, <2>3, <2>4, Zenon
<1>3. ASSUME ~IsRow0(b)
      PROVE  \E x : Word(InUp(b), FramesUp(b) + 2 + n) = Payload("B_CROSS", b, n, x)
  <2>1. PICK f : f = FramesUp(b)
    OBVIOUS
  <2>2. \A m \in 0 .. STEPS - 1 : UpWord(b, f + 2 + m) = Payload("B_CROSS", b, m, m = STEPS - 1)
    BY <1>1, <1>3, <2>1, UpCrossWords
  <2>3. UpWord(b, f + 2 + n) = Payload("B_CROSS", b, n, n = STEPS - 1)
    BY <2>2, Zenon
  <2>4. Word(InUp(b), f + 2 + n) = UpWord(b, f + 2 + n)
    BY LinkWords
  <2> QED
    BY <2>1, <2>3, <2>4, Zenon
<1> QED
  BY <1>2, <1>3

(* One beat of the crossing from the left. *)
LEMMA CrossLeftStep ==
  ASSUME NEW b \in Blocks, NEW tk \in Counts, NEW sn \in Counts, TileInv(tk, sn), CrossLeft(b)
  PROVE  LoadStep(b, tk, sn)
<1> DEFINE l == ld[b]
           w == Head(chan[InLeft(b)])
           v == NotLast(w)
           to == <<"xaIn", b>>
           tk2 == Past(tk, {InLeft(b)})
           sn2 == Past(sn, {to})
<1>1. l.pc = "cross" /\ b \in Position /\ LoadInv(b, l, tk, sn) /\ l \in LoadStates /\ AllHold(chan, tk, sn)
  BY Constants DEF CrossLeft, TileInv
<1>2. l.at = b /\ sn[<<"posC", b>>] = 1 /\ sn[<<"posS", b>>] = 1 /\ LoadCross(b, l, tk, sn)
  BY <1>1, LoadWhere
<1>3. /\ ~IsCol0(b) /\ l.nLeft < STEPS
      /\ Fire({InLeft(b)}, Put(to, v)) /\ UNCHANGED <<cp, st>>
      /\ IF CrossDone(b, l.nLeft + 1, l.nUp)
           THEN LeaveLoad(b, "cross")
           ELSE ld' = [ld EXCEPT ![b].nLeft = @ + 1] /\ UNCHANGED start
  BY <1>2 DEF CrossLeft, NotLast
<1>4. /\ l.nLeft \in 0 .. STEPS - 1 /\ l.nUp \in Nat /\ l.nUp <= STEPS /\ STEPS \in Nat
      /\ tk[InLeft(b)] = FramesLeft(b) + 1 + l.nLeft
      /\ tk[InUp(b)] = FramesUp(b) + (IF IsRow0(b) THEN 0 ELSE 1 + l.nUp)
      /\ sn[<<"xaIn", b>>] = l.nLeft /\ sn[<<"xbIn", b>>] = (IF IsRow0(b) THEN 0 ELSE l.nUp)
      /\ FramesLeft(b) \in Nat /\ FramesUp(b) \in Nat
      /\ FramesOver(b, sn) /\ sn[<<"cPass", b>>] = 0
  <2>1. FramesLeft(b) \in Nat /\ FramesUp(b) \in Nat
    BY <1>1, Neighbours, LinkCounts
  <2>2. l.nLeft \in Nat /\ l.nUp \in Nat /\ STEPS \in Nat
    BY <1>1, Constants DEF LoadStates
  <2> QED
    BY <1>1, <1>2, <1>3, <2>1, <2>2 DEF LoadCross
<1>5. InLeft(b) \in Channels /\ HasWord(InLeft(b)) /\ {InLeft(b)} \in SUBSET ReadByLoad(b)
  BY <1>3, OwnChannels DEF Fire, ReadByLoad
<1>6. \E x : w = Payload("A_CROSS", b, l.nLeft, x)
  <2>1. w = Word(InLeft(b), tk[InLeft(b)] + 1)
    BY <1>1, <1>5, NextWord
  <2>2. tk[InLeft(b)] + 1 = FramesLeft(b) + 2 + l.nLeft
    BY <1>4
  <2> HIDE DEF l, w
  <2> QED
    BY <1>1, <1>3, <1>4, <2>1, <2>2, CrossWords
<1>7. v = Word(to, sn[to] + 1)
  <2>1. v = Payload("A_CROSS", b, l.nLeft, FALSE)
    <3> HIDE DEF l, w
    <3> QED
      BY <1>6, PayloadNotLast
  <2>2. PICK k : k = sn[to] + 1
    OBVIOUS
  <2>3. Word(to, k) = Payload("A_CROSS", b, k - 1, FALSE)
    BY CrossFifoWords
  <2>4. k - 1 = l.nLeft
    BY <1>4, <2>2
  <2> QED
    BY <2>1, <2>2, <2>3, <2>4
<1>8. /\ tk2[InLeft(b)] = tk[InLeft(b)] + 1 /\ tk2[InUp(b)] = tk[InUp(b)]
      /\ sn2[<<"xaIn", b>>] = sn[<<"xaIn", b>>] + 1 /\ sn2[<<"xbIn", b>>] = sn[<<"xbIn", b>>]
      /\ sn2[<<"posC", b>>] = sn[<<"posC", b>>] /\ sn2[<<"posS", b>>] = sn[<<"posS", b>>]
      /\ sn2[<<"cPass", b>>] = sn[<<"cPass", b>>] /\ FramesOver(b, sn2)
  <2>1. \A g \in FifoNames \ {"xaIn"} : sn2[<<g, b>>] = sn[<<g, b>>]
    BY FifoPut DEF FifoNames
  <2>2. sn2[<<"xaIn", b>>] = sn[<<"xaIn", b>>] + 1
    BY FifoPut DEF FifoNames
  <2>3. tk2[InLeft(b)] = tk[InLeft(b)] + 1 /\ tk2[InUp(b)] = tk[InUp(b)]
    BY LoadPast
  <2> HIDE DEF sn2, tk2
  <2>4. FramesOver(b, sn2)
    BY <1>4, <2>1, FramesKept DEF FifoNames
  <2> QED
    BY <2>1, <2>2, <2>3, <2>4 DEF FifoNames
<1>9. DOMAIN Put(to, v) = {to} /\ (\A c \in {to} : Put(to, v)[c] = Word(c, sn[c] + 1)) /\ {to} \subseteq SentByLoad(b)
  <2>1. {to} \subseteq SentByLoad(b)
    BY DEF SentByLoad, LoadFifos
  <2> HIDE DEF to, v
  <2> QED
    BY <1>7, <2>1, NothingPut
<1> HIDE DEF to, v, w, tk2, sn2
<1>10. CASE CrossDone(b, l.nLeft + 1, l.nUp)
  <2>1. l.nLeft + 1 = STEPS /\ (IsRow0(b) \/ l.nUp = STEPS)
    BY <1>3, <1>4, <1>10 DEF CrossDone
  <2>2. /\ CrossLeftWords(b) = 1 + STEPS
        /\ CrossUpWords(b) = IF IsRow0(b) THEN 0 ELSE 1 + STEPS
    BY <1>1, <1>3, Places DEF CrossLeftWords, CrossUpWords
  <2>3. CPoint(b, 0, 0, 0, tk2, sn2)
    BY <1>2, <1>3, <1>4, <1>8, <2>1, <2>2 DEF CPoint, CrossingOver
  <2>4. LoadGoesOn(b, AfterLoad(b, "cross"), tk2, sn2)
    BY <1>1, <2>3, CGoesOn
  <2>5. AfterLoad(b, "cross") \in {"idle", "cUpHeader", "cLeftHeader"}
    BY <1>1, LoadPhases
  <2>6. LeaveLoad(b, "cross")
    BY <1>3, <1>10
  <2> QED
    BY <1>2, <1>3, <1>5, <1>9, <2>4, <2>5, <2>6, LoadPasses DEF tk2, sn2
<1>11. CASE ~CrossDone(b, l.nLeft + 1, l.nUp)
  <2> DEFINE l2 == [l EXCEPT !.nLeft = @ + 1]
  <2>1. ld' = [ld EXCEPT ![b] = l2] /\ start' = start
    BY <1>3, <1>11
  <2> HIDE DEF l
  <2>2. /\ l2 \in LoadStates /\ l2.pc = "cross" /\ l2.at = b /\ (l2.picked <=> l.picked)
        /\ l2.from = l.from /\ l2.nLeft = l.nLeft + 1 /\ l2.nUp = l.nUp
    BY <1>1, <1>2, <1>4 DEF LoadStates
  <2> HIDE DEF l2
  <2>3. /\ (l2.picked <=> (IsRow0(b) \/ IsCol0(b))) /\ l2.from \in {"left", "up"}
        /\ ~(IsRow0(b) /\ IsCol0(b))
    BY <1>2, <2>2 DEF LoadCross
  <2>4. LoadCross(b, l2, tk2, sn2)
    BY <1>3, <1>4, <1>8, <1>11, <2>2, <2>3 DEF LoadCross
  <2>5. LoadInv(b, l2, tk2, sn2)
    BY <1>2, <1>8, <2>2, <2>4 DEF LoadInv, LoadBusy
  <2>6. ld' \in [Blocks -> LoadStates] /\ ld'[b] = l2 /\ \A a \in Blocks \ {b} : ld'[a] = ld[a]
    BY <2>1, <2>2 DEF TileInv
  <2>7. LoadMoves(b) /\ start'[b] = start[b] /\ ld'[b].pc # "idle"
    BY <1>3, <2>1, <2>2, <2>6 DEF LoadMoves, TileInv
  <2> QED
    BY <1>1, <1>3, <1>5, <1>9, <2>5, <2>6, <2>7, LoadDone DEF tk2, sn2
<1> QED
  BY <1>10, <1>11

(* One beat of the crossing from above. *)
LEMMA CrossUpStep ==
  ASSUME NEW b \in Blocks, NEW tk \in Counts, NEW sn \in Counts, TileInv(tk, sn), CrossUp(b)
  PROVE  LoadStep(b, tk, sn)
<1> DEFINE l == ld[b]
           w == Head(chan[InUp(b)])
           v == NotLast(w)
           to == <<"xbIn", b>>
           tk2 == Past(tk, {InUp(b)})
           sn2 == Past(sn, {to})
<1>1. l.pc = "cross" /\ b \in Position /\ LoadInv(b, l, tk, sn) /\ l \in LoadStates /\ AllHold(chan, tk, sn)
  BY Constants DEF CrossUp, TileInv
<1>2. l.at = b /\ sn[<<"posC", b>>] = 1 /\ sn[<<"posS", b>>] = 1 /\ LoadCross(b, l, tk, sn)
  BY <1>1, LoadWhere
<1>3. /\ ~IsRow0(b) /\ l.nUp < STEPS
      /\ Fire({InUp(b)}, Put(to, v)) /\ UNCHANGED <<cp, st>>
      /\ IF CrossDone(b, l.nLeft, l.nUp + 1)
           THEN LeaveLoad(b, "cross")
           ELSE ld' = [ld EXCEPT ![b].nUp = @ + 1] /\ UNCHANGED start
  BY <1>2 DEF CrossUp, NotLast
<1>4. /\ l.nUp \in 0 .. STEPS - 1 /\ l.nLeft \in Nat /\ l.nLeft <= STEPS /\ STEPS \in Nat
      /\ tk[InUp(b)] = FramesUp(b) + 1 + l.nUp
      /\ tk[InLeft(b)] = FramesLeft(b) + (IF IsCol0(b) THEN 0 ELSE 1 + l.nLeft)
      /\ sn[<<"xbIn", b>>] = l.nUp /\ sn[<<"xaIn", b>>] = (IF IsCol0(b) THEN 0 ELSE l.nLeft)
      /\ FramesUp(b) \in Nat /\ FramesLeft(b) \in Nat
      /\ FramesOver(b, sn) /\ sn[<<"cPass", b>>] = 0
  <2>1. FramesUp(b) \in Nat /\ FramesLeft(b) \in Nat
    BY <1>1, Neighbours, LinkCounts
  <2>2. l.nUp \in Nat /\ l.nLeft \in Nat /\ STEPS \in Nat
    BY <1>1, Constants DEF LoadStates
  <2> QED
    BY <1>1, <1>2, <1>3, <2>1, <2>2 DEF LoadCross
<1>5. InUp(b) \in Channels /\ HasWord(InUp(b)) /\ {InUp(b)} \in SUBSET ReadByLoad(b)
  BY <1>3, OwnChannels DEF Fire, ReadByLoad
<1>6. \E x : w = Payload("B_CROSS", b, l.nUp, x)
  <2>1. w = Word(InUp(b), tk[InUp(b)] + 1)
    BY <1>1, <1>5, NextWord
  <2>2. tk[InUp(b)] + 1 = FramesUp(b) + 2 + l.nUp
    BY <1>4
  <2> HIDE DEF l, w
  <2> QED
    BY <1>1, <1>3, <1>4, <2>1, <2>2, CrossWords
<1>7. v = Word(to, sn[to] + 1)
  <2>1. v = Payload("B_CROSS", b, l.nUp, FALSE)
    <3> HIDE DEF l, w
    <3> QED
      BY <1>6, PayloadNotLast
  <2>2. PICK k : k = sn[to] + 1
    OBVIOUS
  <2>3. Word(to, k) = Payload("B_CROSS", b, k - 1, FALSE)
    BY CrossFifoWords
  <2>4. k - 1 = l.nUp
    BY <1>4, <2>2
  <2> QED
    BY <2>1, <2>2, <2>3, <2>4
<1>8. /\ tk2[InUp(b)] = tk[InUp(b)] + 1 /\ tk2[InLeft(b)] = tk[InLeft(b)]
      /\ sn2[<<"xbIn", b>>] = sn[<<"xbIn", b>>] + 1 /\ sn2[<<"xaIn", b>>] = sn[<<"xaIn", b>>]
      /\ sn2[<<"posC", b>>] = sn[<<"posC", b>>] /\ sn2[<<"posS", b>>] = sn[<<"posS", b>>]
      /\ sn2[<<"cPass", b>>] = sn[<<"cPass", b>>] /\ FramesOver(b, sn2)
  <2>1. \A g \in FifoNames \ {"xbIn"} : sn2[<<g, b>>] = sn[<<g, b>>]
    BY FifoPut DEF FifoNames
  <2>2. sn2[<<"xbIn", b>>] = sn[<<"xbIn", b>>] + 1
    BY FifoPut DEF FifoNames
  <2>3. tk2[InUp(b)] = tk[InUp(b)] + 1 /\ tk2[InLeft(b)] = tk[InLeft(b)]
    BY LoadPast
  <2> HIDE DEF sn2, tk2
  <2>4. FramesOver(b, sn2)
    BY <1>4, <2>1, FramesKept DEF FifoNames
  <2> QED
    BY <2>1, <2>2, <2>3, <2>4 DEF FifoNames
<1>9. DOMAIN Put(to, v) = {to} /\ (\A c \in {to} : Put(to, v)[c] = Word(c, sn[c] + 1)) /\ {to} \subseteq SentByLoad(b)
  <2>1. {to} \subseteq SentByLoad(b)
    BY DEF SentByLoad, LoadFifos
  <2> HIDE DEF to, v
  <2> QED
    BY <1>7, <2>1, NothingPut
<1> HIDE DEF to, v, w, tk2, sn2
<1>10. CASE CrossDone(b, l.nLeft, l.nUp + 1)
  <2>1. l.nUp + 1 = STEPS /\ (IsCol0(b) \/ l.nLeft = STEPS)
    BY <1>3, <1>4, <1>10 DEF CrossDone
  <2>2. /\ CrossUpWords(b) = 1 + STEPS
        /\ CrossLeftWords(b) = IF IsCol0(b) THEN 0 ELSE 1 + STEPS
    BY <1>1, <1>3, Places DEF CrossUpWords, CrossLeftWords
  <2>3. CPoint(b, 0, 0, 0, tk2, sn2)
    BY <1>2, <1>3, <1>4, <1>8, <2>1, <2>2 DEF CPoint, CrossingOver
  <2>4. LoadGoesOn(b, AfterLoad(b, "cross"), tk2, sn2)
    BY <1>1, <2>3, CGoesOn
  <2>5. AfterLoad(b, "cross") \in {"idle", "cUpHeader", "cLeftHeader"}
    BY <1>1, LoadPhases
  <2>6. LeaveLoad(b, "cross")
    BY <1>3, <1>10
  <2> QED
    BY <1>2, <1>3, <1>5, <1>9, <2>4, <2>5, <2>6, LoadPasses DEF tk2, sn2
<1>11. CASE ~CrossDone(b, l.nLeft, l.nUp + 1)
  <2> DEFINE l2 == [l EXCEPT !.nUp = @ + 1]
  <2>1. ld' = [ld EXCEPT ![b] = l2] /\ start' = start
    BY <1>3, <1>11
  <2> HIDE DEF l
  <2>2. /\ l2 \in LoadStates /\ l2.pc = "cross" /\ l2.at = b /\ (l2.picked <=> l.picked)
        /\ l2.from = l.from /\ l2.nUp = l.nUp + 1 /\ l2.nLeft = l.nLeft
    BY <1>1, <1>2, <1>4 DEF LoadStates
  <2> HIDE DEF l2
  <2>3. /\ (l2.picked <=> (IsCol0(b) \/ IsRow0(b))) /\ l2.from \in {"left", "up"}
        /\ ~(IsCol0(b) /\ IsRow0(b))
    BY <1>2, <2>2 DEF LoadCross
  <2>4. LoadCross(b, l2, tk2, sn2)
    BY <1>3, <1>4, <1>8, <1>11, <2>2, <2>3 DEF LoadCross
  <2>5. LoadInv(b, l2, tk2, sn2)
    BY <1>2, <1>8, <2>2, <2>4 DEF LoadInv, LoadBusy
  <2>6. ld' \in [Blocks -> LoadStates] /\ ld'[b] = l2 /\ \A a \in Blocks \ {b} : ld'[a] = ld[a]
    BY <2>1, <2>2 DEF TileInv
  <2>7. LoadMoves(b) /\ start'[b] = start[b] /\ ld'[b].pc # "idle"
    BY <1>3, <2>1, <2>2, <2>6 DEF LoadMoves, TileInv
  <2> QED
    BY <1>1, <1>3, <1>5, <1>9, <2>5, <2>6, <2>7, LoadDone DEF tk2, sn2
<1> QED
  BY <1>10, <1>11

-----------------------------------------------------------------------------
(* C *)

(* The words of the C phase: after the frames and the crossing, a header    *)
(* and the beats.                                                          *)
LEMMA CLinkWords ==
  ASSUME NEW b \in Position, NEW n \in Nat \ {0}
  PROVE  /\ Word(InUp(b), FramesUp(b) + CrossUpWords(b) + 1 + n) = CWord(n, n = CUpBeats(b))
         /\ ~IsCol0(b) => Word(InLeft(b), FramesLeft(b) + CrossLeftWords(b) + 1 + n)
                            = CWord(CBeats(b[1] * S) + n, n = CLeftBeats(b))
<1>1. b \in Place
  BY Neighbours
<1>2. Word(InUp(b), FramesUp(b) + CrossUpWords(b) + 1 + n) = CWord(n, n = CUpBeats(b))
  <2>1. PICK f, x : f = FramesUp(b) /\ x = CrossUpWords(b)
    OBVIOUS
  <2>2. \A m \in Nat \ {0} : UpWord(b, f + x + 1 + m) = CWord(m, m = CUpBeats(b))
    BY <1>1, <2>1, UpCWords
  <2>3. UpWord(b, f + x + 1 + n) = CWord(n, n = CUpBeats(b))
    BY <2>2, Zenon
  <2>4. Word(InUp(b), f + x + 1 + n) = UpWord(b, f + x + 1 + n)
    BY LinkWords
  <2> QED
    BY <2>1, <2>3, <2>4, Zenon
<1>3. ASSUME ~IsCol0(b)
      PROVE  Word(InLeft(b), FramesLeft(b) + CrossLeftWords(b) + 1 + n)
               = CWord(CBeats(b[1] * S) + n, n = CLeftBeats(b))
  <2>1. PICK f : f = FramesLeft(b)
    OBVIOUS
  <2>2. \A m \in Nat \ {0} : LeftWord(b, f + 2 + STEPS + m) = CWord(CBeats(b[1] * S) + m, m = CLeftBeats(b))
    BY <1>1, <1>3, <2>1, LeftCWords
  <2>3. LeftWord(b, f + 2 + STEPS + n) = CWord(CBeats(b[1] * S) + n, n = CLeftBeats(b))
    BY <2>2, Zenon
  <2>4. Word(InLeft(b), f + 2 + STEPS + n) = LeftWord(b, f + 2 + STEPS + n)
    BY LinkWords
  <2>5. f \in Nat /\ STEPS \in Nat /\ CrossLeftWords(b) = 1 + STEPS
    BY <1>1, <1>3, <2>1, LinkCounts, Constants DEF CrossLeftWords
  <2>6. FramesLeft(b) + CrossLeftWords(b) + 1 + n = f + 2 + STEPS + n
    BY <2>1, <2>5
  <2> QED
    BY <2>3, <2>4, <2>6, Zenon
<1> QED
  BY <1>2, <1>3

(* Where load is in the C phase, in terms of CPoint. *)
LEMMA CWhere ==
  ASSUME NEW b \in Blocks, NEW tk \in Counts, NEW sn \in Counts, LoadInv(b, ld[b], tk, sn),
         ld[b].pc \in {"cUpHeader", "cUp", "cLeftHeader", "cLeft"}
  PROVE  \E c \in Nat : 
           \/ ld[b].pc = "cUpHeader" /\ FromUpC(b) /\ c = 0 /\ CPoint(b, 0, 0, 0, tk, sn)
           \/ ld[b].pc = "cUp" /\ FromUpC(b) /\ c < CUpBeats(b) /\ CPoint(b, 0, 1 + c, c, tk, sn)
           \/ /\ ld[b].pc = "cLeftHeader" /\ FromLeftC(b) /\ c = CUpBeats(b)
              /\ CPoint(b, 0, CUpWords(b), CUpBeats(b), tk, sn)
           \/ /\ ld[b].pc = "cLeft" /\ FromLeftC(b) /\ c < CLeftBeats(b)
              /\ CPoint(b, 1 + c, CUpWords(b), CUpBeats(b) + c, tk, sn)
<1>1. b \in Position /\ LoadC(b, ld[b], tk, sn) /\ sn[<<"posC", b>>] = 1 /\ sn[<<"posS", b>>] = 1
  BY Constants, LoadWhere
<1>2. /\ FramesLeft(b) \in Nat /\ FramesUp(b) \in Nat
      /\ CrossLeftWords(b) \in Nat /\ CrossUpWords(b) \in Nat
      /\ CLeftBeats(b) \in Nat /\ CUpBeats(b) \in Nat /\ CPassed(b) = CUpBeats(b) + CLeftBeats(b)
      /\ CUpWords(b) \in Nat
  BY <1>1, Neighbours, LinkCounts, CCounts DEF CUpWords
<1>3. tk[InLeft(b)] \in Nat /\ tk[InUp(b)] \in Nat
  BY LoadPast
<1>4. sn[<<"cPass", b>>] \in Nat
  BY FifoPut DEF FifoNames
<1>5. PICK f, g, h, j : f = FramesLeft(b) + CrossLeftWords(b) /\ g = FramesUp(b) + CrossUpWords(b)
                        /\ h = tk[InLeft(b)] /\ j = tk[InUp(b)]
  OBVIOUS
<1>6. f \in Nat /\ g \in Nat /\ h \in Nat /\ j \in Nat
  BY <1>2, <1>3, <1>5
<1>7. CASE ld[b].pc \in {"cUpHeader", "cUp", "cLeftHeader"}
  <2> WITNESS sn[<<"cPass", b>>] \in Nat
  <2> QED
    BY <1>1, <1>2, <1>4, <1>5, <1>6, <1>7 DEF LoadC, CPoint
<1>8. CASE ld[b].pc = "cLeft"
  <2>1. PICK c : c = sn[<<"cPass", b>>] - CUpBeats(b)
    OBVIOUS
  <2>2. c \in Nat /\ sn[<<"cPass", b>>] = CUpBeats(b) + c /\ c < CLeftBeats(b)
    BY <1>1, <1>2, <1>4, <1>8, <2>1 DEF LoadC
  <2>3. h = f + (1 + c)
    BY <1>1, <1>2, <1>4, <1>5, <1>6, <1>8, <2>1 DEF LoadC
  <2>4. CPoint(b, 1 + c, CUpWords(b), CUpBeats(b) + c, tk, sn)
    BY <1>1, <1>2, <1>5, <1>6, <1>8, <2>2, <2>3 DEF LoadC, CPoint
  <2>5. FromLeftC(b)
    BY <1>1, <1>8 DEF LoadC
  <2> QED
    BY <1>8, <2>2, <2>4, <2>5
<1> QED
  BY <1>7, <1>8

LEMMA CPointMoves ==
  ASSUME NEW b \in Blocks, NEW tk \in Counts, NEW sn \in Counts, NEW left \in Nat, NEW up \in Nat,
         NEW c \in Nat, CPoint(b, left, up, c, tk, sn)
  PROVE  /\ CPoint(b, left + 1, up, c, Past(tk, {InLeft(b)}), sn)
         /\ CPoint(b, left + 1, up, c + 1, Past(tk, {InLeft(b)}), Past(sn, {<<"cPass", b>>}))
         /\ CPoint(b, left, up + 1, c, Past(tk, {InUp(b)}), sn)
         /\ CPoint(b, left, up + 1, c + 1, Past(tk, {InUp(b)}), Past(sn, {<<"cPass", b>>}))
<1> DEFINE sn2 == Past(sn, {<<"cPass", b>>})
<1>1. b \in Position
  BY Constants
<1>2. /\ FramesLeft(b) \in Nat /\ FramesUp(b) \in Nat
      /\ CrossLeftWords(b) \in Nat /\ CrossUpWords(b) \in Nat
  BY <1>1, Neighbours, LinkCounts
<1>3. /\ Past(tk, {InLeft(b)})[InLeft(b)] = tk[InLeft(b)] + 1
      /\ Past(tk, {InLeft(b)})[InUp(b)] = tk[InUp(b)]
      /\ Past(tk, {InUp(b)})[InLeft(b)] = tk[InLeft(b)]
      /\ Past(tk, {InUp(b)})[InUp(b)] = tk[InUp(b)] + 1
  BY LoadPast
<1>4. /\ sn2[<<"cPass", b>>] = sn[<<"cPass", b>>] + 1
      /\ \A g \in FifoNames \ {"cPass"} : sn2[<<g, b>>] = sn[<<g, b>>]
  BY FifoPut DEF FifoNames
<1> HIDE DEF sn2
<1>5. FramesOver(b, sn2)
  BY <1>4, FramesKept DEF FifoNames, CPoint
<1>6. /\ CrossingOver(b, sn2) /\ sn2[<<"posC", b>>] = 1 /\ sn2[<<"posS", b>>] = 1
      /\ sn2[<<"cPass", b>>] = c + 1
  BY <1>4 DEF FifoNames, CPoint, CrossingOver
<1> QED
  BY <1>2, <1>3, <1>5, <1>6 DEF CPoint, sn2

LEMMA DropCHeaderStep ==
  ASSUME NEW b \in Blocks, NEW tk \in Counts, NEW sn \in Counts, TileInv(tk, sn), DropCHeader(b)
  PROVE  LoadStep(b, tk, sn)
<1>1. /\ b \in Position /\ LoadInv(b, ld[b], tk, sn) /\ UNCHANGED <<cp, st>>
  BY Constants DEF TileInv, DropCHeader
<1>2. PICK phase \in {"cUpHeader", "cLeftHeader"} :
        /\ ld[b].pc = phase
        /\ Fire({IF phase = "cUpHeader" THEN InUp(b) ELSE InLeft(b)}, Nothing)
        /\ LeaveLoad(b, phase)
  BY DEF DropCHeader
<1>3. ld[b].at = b
  BY <1>1, <1>2, LoadWhere
<1>4. /\ phase = "cUpHeader" => FromUpC(b) /\ CPoint(b, 0, 0, 0, tk, sn)
      /\ phase = "cLeftHeader" => FromLeftC(b) /\ CPoint(b, 0, CUpWords(b), CUpBeats(b), tk, sn)
  <2> HIDE DEF CPoint
  <2> QED
    BY <1>1, <1>2, CWhere
<1>5. /\ {InUp(b)} \in SUBSET ReadByLoad(b) /\ {InLeft(b)} \in SUBSET ReadByLoad(b)
      /\ DOMAIN Nothing = {} /\ Past(sn, {}) = sn
  BY NothingPut, PastNone DEF ReadByLoad
<1>6. CASE phase = "cUpHeader"
  <2>1. CPoint(b, 0, 0 + 1, 0, Past(tk, {InUp(b)}), sn)
    BY <1>4, <1>6, CPointMoves
  <2>2. 0 + 1 = 1
    OBVIOUS
  <2>3. LoadGoesOn(b, "cUp", Past(tk, {InUp(b)}), sn)
    BY <1>1, <1>4, <1>6, <2>1, <2>2, CGoesOn
  <2>4. "cUp" = AfterLoad(b, phase)
    BY <1>1, <1>4, <1>6, LoadPhases
  <2>5. Fire({InUp(b)}, Nothing)
    BY <1>2, <1>6
  <2> QED
    BY <1>1, <1>2, <1>3, <1>5, <2>3, <2>4, <2>5, LoadPasses
<1>7. CASE phase = "cLeftHeader"
  <2>1. CUpWords(b) \in Nat /\ CUpBeats(b) \in Nat
    BY <1>1, CCounts DEF CUpWords
  <2>2. CPoint(b, 0 + 1, CUpWords(b), CUpBeats(b), Past(tk, {InLeft(b)}), sn)
    BY <1>4, <1>7, <2>1, CPointMoves
  <2>3. 0 + 1 = 1
    OBVIOUS
  <2>4. LoadGoesOn(b, "cLeft", Past(tk, {InLeft(b)}), sn)
    BY <1>1, <1>4, <1>7, <2>2, <2>3, CGoesOn
  <2>5. "cLeft" = AfterLoad(b, phase)
    BY <1>1, <1>4, <1>7, LoadPhases
  <2>6. Fire({InLeft(b)}, Nothing)
    BY <1>2, <1>7
  <2> QED
    BY <1>1, <1>2, <1>3, <1>5, <2>4, <2>5, <2>6, LoadPasses
<1> QED
  BY <1>6, <1>7

WithLast(w, z) == [w EXCEPT !.last = z]

LEMMA LastGiven ==
  ASSUME NEW hdr, NEW type, NEW at, NEW i, NEW x, NEW z
  PROVE  WithLast(Labelled(hdr, type, at, i, x), z) = Labelled(hdr, type, at, i, z)
<1> DEFINE w == [hdr |-> hdr, type |-> type, at |-> at, i |-> i, last |-> x]
           v == [hdr |-> hdr, type |-> type, at |-> at, i |-> i, last |-> z]
           u == [w EXCEPT !.last = z]
           Shape == [hdr : {hdr}, type : {type}, at : {at}, i : {i}, last : {x, z}]
<1>1. w \in Shape /\ v \in Shape
  BY SMT
<1>2. u \in Shape
  BY <1>1, SMT
<1>3. u.hdr = hdr /\ u.type = type /\ u.at = at /\ u.i = i /\ u.last = z
  BY SMT
<1>4. v.hdr = hdr /\ v.type = type /\ v.at = at /\ v.i = i /\ v.last = z
  BY SMT
<1> HIDE DEF u, v
<1>5. u = v
  BY <1>1, <1>2, <1>3, <1>4, SMT
<1>6. v = Labelled(hdr, type, at, i, z) /\ w = Labelled(hdr, type, at, i, x)
  BY Zenon DEF v, Labelled
<1>7. WithLast(w, z) = u
  BY Zenon DEF u, WithLast
<1> HIDE DEF w
<1> QED
  BY <1>5, <1>6, <1>7, Zenon

KeepLast(w, keep) == [w EXCEPT !.last = @ /\ keep]

LEMMA CWordGiven ==
  ASSUME NEW k, NEW x, NEW z
  PROVE  CWord(k, x).last = x /\ WithLast(CWord(k, x), z) = CWord(k, z)
<1>1. PICK h, p, j : /\ h = FALSE
                     /\ p = <<((k - 1) \div CBEAT) \div S, ((k - 1) \div CBEAT) % S>>
                     /\ j = (k - 1) % CBEAT
  OBVIOUS
<1>2. CWord(k, x) = Labelled(h, "C_DATA", p, j, x) /\ CWord(k, z) = Labelled(h, "C_DATA", p, j, z)
  BY <1>1, Zenon DEF CWord, Payload, Labelled
<1>3. Labelled(h, "C_DATA", p, j, x).last = x
  BY Zenon DEF Labelled
<1>4. WithLast(Labelled(h, "C_DATA", p, j, x), z) = Labelled(h, "C_DATA", p, j, z)
  BY LastGiven
<1> QED
  BY <1>2, <1>3, <1>4, Zenon

LEMMA CWordFields ==
  ASSUME NEW k, NEW x \in BOOLEAN, NEW keep \in BOOLEAN, NEW y \in BOOLEAN, y <=> (x /\ keep)
  PROVE  (CWord(k, x).last <=> x) /\ KeepLast(CWord(k, x), keep) = CWord(k, y)
<1> DEFINE w == CWord(k, x)
<1>1. w.last = x /\ WithLast(w, y) = CWord(k, y)
  BY CWordGiven, Zenon
<1> HIDE DEF w
<1>2. y = (x /\ keep)
  OBVIOUS
<1>3. KeepLast(w, keep) = WithLast(w, y)
  BY <1>1, <1>2, Zenon DEF KeepLast, WithLast
<1> QED
  BY <1>1, <1>3, Zenon DEF w

(* The word that passes is the next one of cPass, and its TLAST ends the    *)
(* group.                                                                  *)
LEMMA CNextUp ==
  ASSUME NEW b \in Position, FromUpC(b), NEW c \in Nat, c < CUpBeats(b),
         NEW keep \in BOOLEAN, keep <=> ~FromLeftC(b), NEW w,
         w = Word(InUp(b), FramesUp(b) + CrossUpWords(b) + 1 + (c + 1))
  PROVE  /\ w.last <=> c + 1 = CUpBeats(b)
         /\ KeepLast(w, keep) = Word(<<"cPass", b>>, c + 1)
<1>1. c + 1 \in Nat \ {0}
  OBVIOUS
<1>2. PICK x \in BOOLEAN, y \in BOOLEAN :
         (x <=> c + 1 = CUpBeats(b)) /\ (y <=> c + 1 = CPassed(b))
  OBVIOUS
<1>3. w = CWord(c + 1, c + 1 = CUpBeats(b))
  BY <1>1, CLinkWords
<1>4. CFirst(b) = 0 /\ CFirst(b) + (c + 1) = c + 1
  BY CCounts DEF FromUpC
<1>5. Word(<<"cPass", b>>, c + 1) = CWord(CFirst(b) + (c + 1), c + 1 = CPassed(b))
  BY CPassWords
<1>6. y <=> (x /\ keep)
  BY <1>2, CCounts
<1>7. x = (c + 1 = CUpBeats(b)) /\ y = (c + 1 = CPassed(b))
  BY <1>2
<1>8. w = CWord(c + 1, x) /\ Word(<<"cPass", b>>, c + 1) = CWord(c + 1, y)
  BY <1>3, <1>4, <1>5, <1>7, Zenon
<1>9. (CWord(c + 1, x).last <=> x) /\ KeepLast(CWord(c + 1, x), keep) = CWord(c + 1, y)
  BY <1>6, CWordFields
<1> QED
  BY <1>2, <1>8, <1>9, Zenon

LEMMA CNextLeft ==
  ASSUME NEW b \in Position, FromLeftC(b), NEW c \in Nat, c < CLeftBeats(b), NEW w,
         w = Word(InLeft(b), FramesLeft(b) + CrossLeftWords(b) + 1 + (c + 1))
  PROVE  /\ w.last <=> c + 1 = CLeftBeats(b)
         /\ KeepLast(w, TRUE) = Word(<<"cPass", b>>, CUpBeats(b) + c + 1)
<1>1. c + 1 \in Nat \ {0} /\ ~IsCol0(b)
  BY DEF FromLeftC
<1>2. PICK x \in BOOLEAN, y \in BOOLEAN, k \in {CBeats(b[1] * S) + (c + 1)} :
         /\ x <=> c + 1 = CLeftBeats(b)
         /\ y <=> CUpBeats(b) + c + 1 = CPassed(b)
         /\ k = CBeats(b[1] * S) + (c + 1)
  OBVIOUS
<1>3. w = CWord(CBeats(b[1] * S) + (c + 1), c + 1 = CLeftBeats(b))
  BY <1>1, CLinkWords
<1>4. CFirst(b) + (CUpBeats(b) + c + 1) = k
  BY <1>2, CCounts
<1>5. Word(<<"cPass", b>>, CUpBeats(b) + c + 1)
        = CWord(CFirst(b) + (CUpBeats(b) + c + 1), CUpBeats(b) + c + 1 = CPassed(b))
  BY CPassWords
<1>6. y <=> (x /\ TRUE)
  BY <1>2, CCounts
<1>7. x = (c + 1 = CLeftBeats(b)) /\ y = (CUpBeats(b) + c + 1 = CPassed(b))
  BY <1>2
<1>8. w = CWord(k, x) /\ Word(<<"cPass", b>>, CUpBeats(b) + c + 1) = CWord(k, y)
  BY <1>2, <1>3, <1>4, <1>5, <1>7, Zenon
<1>9. (CWord(k, x).last <=> x) /\ KeepLast(CWord(k, x), TRUE) = CWord(k, y)
  BY <1>6, CWordFields
<1> QED
  BY <1>2, <1>8, <1>9, Zenon

LEMMA PassCStep ==
  ASSUME NEW b \in Blocks, NEW tk \in Counts, NEW sn \in Counts, TileInv(tk, sn), PassC(b)
  PROVE  LoadStep(b, tk, sn)
<1> DEFINE to == <<"cPass", b>>
           sn2 == Past(sn, {to})
<1>1. /\ b \in Position /\ LoadInv(b, ld[b], tk, sn) /\ UNCHANGED <<cp, st>> /\ AllHold(chan, tk, sn)
      /\ start \in [Blocks -> BOOLEAN] /\ ld \in [Blocks -> LoadStates]
  BY Constants DEF TileInv, PassC
<1>2. PICK phase \in {"cUp", "cLeft"} :
       LET port == IF phase = "cUp" THEN InUp(b) ELSE InLeft(b)
           w    == Head(chan[port])
           keep == phase = "cUp" => UpKeepsLast(ld[b].at)
       IN  /\ ld[b].pc = phase
           /\ Fire({port}, Put(<<"cPass", b>>, [w EXCEPT !.last = @ /\ keep]))
           /\ IF w.last THEN LeaveLoad(b, phase) ELSE UNCHANGED <<ld, start>>
  BY DEF PassC
<1>3. ld[b].at = b
  BY <1>1, <1>2, LoadWhere
<1>4. CUpWords(b) \in Nat /\ CUpBeats(b) \in Nat /\ CLeftBeats(b) \in Nat
      /\ CPassed(b) = CUpBeats(b) + CLeftBeats(b)
      /\ (FromUpC(b) => CUpWords(b) = 1 + CUpBeats(b)) /\ (FromLeftC(b) => CLeftWords(b) = 1 + CLeftBeats(b))
      /\ FramesLeft(b) \in Nat /\ FramesUp(b) \in Nat
      /\ CrossLeftWords(b) \in Nat /\ CrossUpWords(b) \in Nat
  BY <1>1, CCounts, Neighbours, LinkCounts DEF CUpWords, CLeftWords
<1>5. PICK c \in Nat :
         /\ phase = "cUp" => FromUpC(b) /\ c < CUpBeats(b) /\ CPoint(b, 0, 1 + c, c, tk, sn)
         /\ phase = "cLeft" => FromLeftC(b) /\ c < CLeftBeats(b)
                               /\ CPoint(b, 1 + c, CUpWords(b), CUpBeats(b) + c, tk, sn)
  <2> HIDE DEF CPoint
  <2> QED
    BY <1>1, <1>2, CWhere
<1>6. /\ {InUp(b)} \in SUBSET ReadByLoad(b) /\ {InLeft(b)} \in SUBSET ReadByLoad(b)
      /\ InUp(b) \in Channels /\ InLeft(b) \in Channels /\ {to} \subseteq SentByLoad(b)
  BY OwnChannels DEF ReadByLoad, SentByLoad, LoadFifos
<1>7. UNCHANGED <<ld, start>> =>
        ld'[b] = ld[b] /\ ld[b].pc # "idle" /\ start'[b] = start[b] /\ LoadMoves(b)
  BY <1>1, <1>2 DEF LoadMoves
<1>8. CASE phase = "cUp"
  <2> DEFINE w == Head(chan[InUp(b)])
             tk2 == Past(tk, {InUp(b)})
             v == KeepLast(w, ~FromLeftC(b))
  <2>1. Fire({InUp(b)}, Put(to, v)) /\ IF w.last THEN LeaveLoad(b, "cUp") ELSE UNCHANGED <<ld, start>>
    BY <1>2, <1>3, <1>8 DEF UpKeepsLast, KeepLast
  <2>2. w = Word(InUp(b), tk[InUp(b)] + 1)
    BY <1>1, <1>6, <2>1, NextWord DEF Fire
  <2>3. tk[InUp(b)] + 1 = FramesUp(b) + CrossUpWords(b) + 1 + (c + 1) /\ sn[to] = c
    BY <1>4, <1>5, <1>8 DEF CPoint
  <2> HIDE DEF w
  <2>4. /\ w.last <=> c + 1 = CUpBeats(b)
        /\ v = Word(to, sn[to] + 1)
    <3>1. PICK keep \in BOOLEAN : keep = ~FromLeftC(b)
      BY DEF FromLeftC
    <3>2. w = Word(InUp(b), FramesUp(b) + CrossUpWords(b) + 1 + (c + 1))
      BY <2>2, <2>3
    <3>3. /\ w.last <=> c + 1 = CUpBeats(b)
          /\ KeepLast(w, keep) = Word(<<"cPass", b>>, c + 1)
      BY <1>1, <1>5, <1>8, <3>1, <3>2, CNextUp
    <3>4. v = KeepLast(w, keep)
      BY <3>1
    <3> QED
      BY <2>3, <3>3, <3>4
  <2>5. DOMAIN Put(to, v) = {to} /\ \A d \in {to} : Put(to, v)[d] = Word(d, sn[d] + 1)
    <3> HIDE DEF to, v
    <3> QED
      BY <2>4, NothingPut
  <2>6. CPoint(b, 0, 1 + c + 1, c + 1, tk2, sn2)
    BY <1>5, <1>8, CPointMoves, 1 + c \in Nat
  <2>7. CASE c + 1 = CUpBeats(b)
    <3>1. 1 + c + 1 = CUpWords(b)
      BY <1>4, <1>5, <1>8, <2>7
    <3>2. LoadGoesOn(b, AfterLoad(b, "cUp"), tk2, sn2)
      BY <1>1, <1>5, <1>8, <2>6, <2>7, <3>1, CGoesOn
    <3>3. AfterLoad(b, "cUp") \in {"idle", "cLeftHeader"} /\ LeaveLoad(b, "cUp")
      BY <1>1, <2>1, <2>4, <2>7, LoadPhases
    <3> HIDE DEF v, to
    <3> QED
      BY <1>1, <1>3, <1>6, <2>1, <2>5, <3>2, <3>3, LoadPasses DEF tk2, sn2
  <2>8. CASE c + 1 # CUpBeats(b)
    <3>1. UNCHANGED <<ld, start>>
      BY <2>1, <2>4, <2>8
    <3>2. ld'[b] = ld[b] /\ ld[b].pc # "idle" /\ start'[b] = start[b] /\ LoadMoves(b)
      BY <1>7, <3>1
    <3>3. c + 1 < CUpBeats(b)
      BY <1>4, <1>5, <1>8, <2>8
    <3>4. LoadC(b, ld[b], tk2, sn2)
      <4> HIDE DEF tk2, sn2
      <4>1. PICK f, g : f = FramesLeft(b) + CrossLeftWords(b) /\ g = FramesUp(b) + CrossUpWords(b)
        OBVIOUS
      <4>2. f \in Nat /\ g \in Nat
        BY <1>4, <4>1
      <4> QED
        BY <1>2, <1>5, <1>8, <2>6, <3>3, <4>1, <4>2 DEF LoadC, CPoint
    <3>5. LoadInv(b, ld'[b], tk2, sn2)
      BY <1>1, <1>3, <2>6, <3>2, <3>4 DEF LoadInv, LoadBusy, CPoint
    <3> HIDE DEF v, to
    <3> QED
      BY <1>1, <1>6, <2>1, <2>5, <3>2, <3>5, LoadDone DEF tk2, sn2
  <2> QED
    BY <2>7, <2>8
<1>9. CASE phase = "cLeft"
  <2> DEFINE w == Head(chan[InLeft(b)])
             tk2 == Past(tk, {InLeft(b)})
             v == KeepLast(w, TRUE)
  <2>1. Fire({InLeft(b)}, Put(to, v)) /\ IF w.last THEN LeaveLoad(b, "cLeft") ELSE UNCHANGED <<ld, start>>
    BY <1>2, <1>3, <1>9 DEF KeepLast
  <2>2. w = Word(InLeft(b), tk[InLeft(b)] + 1)
    BY <1>1, <1>6, <2>1, NextWord DEF Fire
  <2>3. /\ tk[InLeft(b)] + 1 = FramesLeft(b) + CrossLeftWords(b) + 1 + (c + 1)
        /\ sn[to] + 1 = CUpBeats(b) + c + 1
    BY <1>4, <1>5, <1>9 DEF CPoint
  <2> HIDE DEF w
  <2>4. /\ w.last <=> c + 1 = CLeftBeats(b)
        /\ v = Word(to, sn[to] + 1)
    <3>1. w = Word(InLeft(b), FramesLeft(b) + CrossLeftWords(b) + 1 + (c + 1))
      BY <2>2, <2>3
    <3>2. /\ w.last <=> c + 1 = CLeftBeats(b)
          /\ KeepLast(w, TRUE) = Word(<<"cPass", b>>, CUpBeats(b) + c + 1)
      BY <1>1, <1>5, <1>9, <3>1, CNextLeft
    <3> QED
      BY <2>3, <3>2
  <2>5. DOMAIN Put(to, v) = {to} /\ \A d \in {to} : Put(to, v)[d] = Word(d, sn[d] + 1)
    <3> HIDE DEF to, v
    <3> QED
      BY <2>4, NothingPut
  <2>6. CPoint(b, 1 + c + 1, CUpWords(b), CUpBeats(b) + c + 1, tk2, sn2)
    <3>1. 1 + c \in Nat /\ CUpBeats(b) + c \in Nat
      BY <1>4
    <3> QED
      BY <1>4, <1>5, <1>9, <3>1, CPointMoves
  <2>7. CASE c + 1 = CLeftBeats(b)
    <3>1. 1 + c + 1 = CLeftWords(b) /\ CUpBeats(b) + c + 1 = CPassed(b)
      BY <1>4, <1>5, <1>9, <2>7
    <3>2. LoadGoesOn(b, "idle", tk2, sn2)
      BY <1>1, <1>5, <1>9, <2>6, <2>7, <3>1, CGoesOn
    <3>3. "idle" = AfterLoad(b, "cLeft") /\ LeaveLoad(b, "cLeft")
      BY <1>1, <2>1, <2>4, <2>7, LoadPhases
    <3> HIDE DEF v, to
    <3> QED
      BY <1>1, <1>3, <1>6, <2>1, <2>5, <3>2, <3>3, LoadPasses DEF tk2, sn2
  <2>8. CASE c + 1 # CLeftBeats(b)
    <3>1. UNCHANGED <<ld, start>>
      BY <2>1, <2>4, <2>8
    <3>2. ld'[b] = ld[b] /\ ld[b].pc # "idle" /\ start'[b] = start[b] /\ LoadMoves(b)
      BY <1>7, <3>1
    <3>3. c + 1 < CLeftBeats(b)
      BY <1>4, <1>5, <1>9, <2>8
    <3>4. LoadC(b, ld[b], tk2, sn2)
      <4> HIDE DEF tk2, sn2
      <4>1. PICK f, g : f = FramesLeft(b) + CrossLeftWords(b) /\ g = FramesUp(b) + CrossUpWords(b)
        OBVIOUS
      <4>2. f \in Nat /\ g \in Nat
        BY <1>4, <4>1
      <4> QED
        BY <1>2, <1>4, <1>5, <1>9, <2>6, <3>3, <4>1, <4>2 DEF LoadC, CPoint
    <3>5. LoadInv(b, ld'[b], tk2, sn2)
      BY <1>1, <1>3, <2>6, <3>2, <3>4 DEF LoadInv, LoadBusy, CPoint
    <3> HIDE DEF v, to
    <3> QED
      BY <1>1, <1>6, <2>1, <2>5, <3>2, <3>5, LoadDone DEF tk2, sn2
  <2> QED
    BY <2>7, <2>8
<1> QED
  BY <1>8, <1>9

(* Every step of load is a step of load on the counts. *)
LEMMA LoadIsStep ==
  ASSUME NEW b \in Blocks, NEW tk \in Counts, NEW sn \in Counts, TileInv(tk, sn), Load(b)
  PROVE  LoadStep(b, tk, sn)
<1>1. CASE GroupHeader(b)
  BY <1>1, GroupHeaderMoves
<1>2. CASE ForwardHeader(b)
  BY <1>2, ForwardHeaderMoves
<1>3. CASE FramePayload(b)
  BY <1>3, FramePayloadMoves
<1> QED
  BY <1>1, <1>2, <1>3, LoadStartStep, PickStep, SendPosStep, CrossHeadersStep, CrossLeftStep,
     CrossUpStep, DropCHeaderStep, PassCStep DEF Load

-----------------------------------------------------------------------------
(* compute *)

(* What a step of compute does; it takes a position at most once in a tile. *)
ComputeMoves(b) ==
  /\ cp' \in [Blocks -> ComputeStates] /\ \A a \in Blocks \ {b} : cp'[a] = cp[a]
  /\ start' = start /\ ld' = ld /\ st' = st

ComputeStep(b, tk, sn) ==
  \E rd \in SUBSET ReadByCompute(b), sd \in SUBSET SentByCompute(b) :
    /\ AllHold(chan', Past(tk, rd), Past(sn, sd))
    /\ ComputeInv(b, cp'[b], Past(tk, rd), Past(sn, sd)) /\ ComputeMoves(b)
    /\ cp[b].pc = "pos" => tk[<<"posC", b>>] = 0

(* FIFOs of a block, by their names. *)
Of(names, b) == names \X {b}

LEMMA ComputeDone ==
  ASSUME NEW b \in Blocks, NEW tk \in Counts, NEW sn \in Counts, TileInv(tk, sn),
         NEW fs \in SUBSET ComputeFifos, NEW gs \in SUBSET {"xaOut", "xbOut", "cMine"},
         NEW wr, DOMAIN wr = Of(gs, b), Fire(Of(fs, b), wr),
         \A c \in DOMAIN wr : wr[c] = Word(c, sn[c] + 1),
         ComputeInv(b, cp'[b], Past(tk, Of(fs, b)), Past(sn, Of(gs, b))), ComputeMoves(b),
         cp[b].pc = "pos" => tk[<<"posC", b>>] = 0
  PROVE  ComputeStep(b, tk, sn)
<1> DEFINE rd == Of(fs, b)
           sd == Of(gs, b)
<1>1. rd \in SUBSET ReadByCompute(b) /\ sd \in SUBSET SentByCompute(b)
  BY DEF ReadByCompute, SentByCompute, Of
<1>2. rd \in SUBSET Channels /\ sd \subseteq Channels
  BY <1>1, OwnChannels
<1> HIDE DEF rd, sd
<1>3. AllHold(chan', Past(tk, rd), Past(sn, sd))
  <2>1. Fire(rd, wr) /\ DOMAIN wr = sd /\ AllHold(chan, tk, sn)
    BY DEF rd, sd, TileInv
  <2> QED
    BY <1>2, <2>1, Moved
<1> QED
  BY <1>1, <1>3 DEF ComputeStep, rd, sd

(* IterateCompute, for a block that knows where it is. *)
ComputeIterated(b, bound, next) ==
  /\ ComputeMoves(b)
  /\ cp[b].n < bound - 1 =>
       cp'[b].pc = cp[b].pc /\ cp'[b].at = b /\ cp'[b].n = cp[b].n + 1
  /\ ~(cp[b].n < bound - 1) =>
       IF next = "pos" THEN cp'[b] = ComputeIdle
                       ELSE cp'[b].pc = next /\ cp'[b].at = b /\ cp'[b].n = 0

LEMMA ComputeIterates ==
  ASSUME NEW b \in Blocks, NEW tk, NEW sn, TileInv(tk, sn), cp[b].at = b,
         NEW phase, NEW bound \in Nat \ {0}, IterateCompute(b, phase, bound),
         UNCHANGED <<start, ld, st>>,
         NEW next, next = Following(ComputeOrder, ComputeHas, b, phase),
         next \in {"recvB", "step", "drain", "pos"}
  PROVE  ComputeIterated(b, bound, next)
<1>1. cp \in [Blocks -> ComputeStates]
  BY DEF TileInv
<1>2. PICK l \in ComputeStates : l = cp[b]
  BY <1>1
<1>3. CASE cp[b].n < bound - 1
  <2> DEFINE l2 == [l EXCEPT !.n = @ + 1]
  <2>1. cp' = [cp EXCEPT ![b] = l2]
    BY <1>2, <1>3 DEF IterateCompute
  <2>2. l2 \in ComputeStates /\ l2.pc = l.pc /\ l2.at = l.at /\ l2.n = l.n + 1
    BY DEF ComputeStates
  <2> HIDE DEF l2
  <2>3. cp' \in [Blocks -> ComputeStates] /\ cp'[b] = l2 /\ \A a \in Blocks \ {b} : cp'[a] = cp[a]
    BY <1>1, <2>1, <2>2
  <2> QED
    BY <1>2, <1>3, <2>2, <2>3 DEF ComputeIterated, ComputeMoves
<1>4. CASE ~(cp[b].n < bound - 1) /\ next = "pos"
  <2>1. cp' = [cp EXCEPT ![b] = ComputeIdle]
    BY <1>4 DEF IterateCompute
  <2>2. /\ cp' \in [Blocks -> ComputeStates] /\ cp'[b] = ComputeIdle
        /\ \A a \in Blocks \ {b} : cp'[a] = cp[a]
    BY <1>1, <2>1, IdleStates
  <2> QED
    BY <1>4, <2>2 DEF ComputeIterated, ComputeMoves
<1>5. CASE ~(cp[b].n < bound - 1) /\ next # "pos"
  <2> DEFINE l2 == [l EXCEPT !.pc = next, !.n = 0]
  <2>1. cp' = [cp EXCEPT ![b] = l2]
    BY <1>2, <1>5 DEF IterateCompute
  <2>2. l2 \in ComputeStates /\ l2.pc = next /\ l2.at = l.at /\ l2.n = 0
    BY <1>5 DEF ComputeStates
  <2> HIDE DEF l2
  <2>3. cp' \in [Blocks -> ComputeStates] /\ cp'[b] = l2 /\ \A a \in Blocks \ {b} : cp'[a] = cp[a]
    BY <1>1, <2>1, <2>2
  <2> QED
    BY <1>2, <1>5, <2>2, <2>3 DEF ComputeIterated, ComputeMoves
<1> QED
  BY <1>3, <1>4, <1>5

(* One FIFO, or none. *)
LEMMA OneFifo ==
  ASSUME NEW b \in Blocks, NEW n \in Counts, NEW name \in FifoNames
  PROVE  /\ Of({name}, b) = {<<name, b>>}
         /\ Past(n, Of({name}, b))[<<name, b>>] = n[<<name, b>>] + 1
         /\ \A g \in FifoNames \ {name} : Past(n, Of({name}, b))[<<g, b>>] = n[<<g, b>>]
<1>1. Of({name}, b) = {<<name, b>>}
  BY DEF Of
<1>2. /\ Past(n, {<<name, b>>})[<<name, b>>] = n[<<name, b>>] + 1
      /\ \A g \in FifoNames \ {name} : Past(n, {<<name, b>>})[<<g, b>>] = n[<<g, b>>]
  BY FifoPut
<1> QED
  BY <1>1, <1>2, Zenon

LEMMA NoFifo ==
  ASSUME NEW b, NEW n \in Counts
  PROVE  Of({}, b) = {} /\ Past(n, Of({}, b)) = n
<1>1. Of({}, b) = {}
  BY DEF Of
<1> QED
  BY <1>1, PastNone

LEMMA OfPast ==
  ASSUME NEW b \in Blocks, NEW n \in Counts, NEW fs
  PROVE  \A g \in FifoNames : Past(n, Of(fs, b))[<<g, b>>] = IF g \in fs THEN n[<<g, b>>] + 1 ELSE n[<<g, b>>]
<1>1. \A g \in FifoNames : Past(n, fs \X {b})[<<g, b>>] = IF g \in fs THEN n[<<g, b>>] + 1 ELSE n[<<g, b>>]
  BY FifoPast
<1> QED
  BY <1>1 DEF Of

LEMMA ComputePosStep ==
  ASSUME NEW b \in Blocks, NEW tk \in Counts, NEW sn \in Counts, TileInv(tk, sn), ComputePos(b)
  PROVE  ComputeStep(b, tk, sn)
<1> DEFINE c == <<"posC", b>>
           tk2 == Past(tk, Of({"posC"}, b))
           l2 == [ComputeIdle EXCEPT !.at = b, !.pc = FirstFrom(ComputeOrder, ComputeHas, b, 1)]
<1>1. /\ cp[b].pc = "pos" /\ Fire({c}, Nothing) /\ UNCHANGED <<start, ld, st>>
      /\ cp' = [cp EXCEPT ![b].at = Head(chan[c]),
                          ![b].pc = FirstFrom(ComputeOrder, ComputeHas, Head(chan[c]), 1)]
  BY DEF ComputePos
<1>2. /\ b \in Position /\ ComputeInv(b, cp[b], tk, sn) /\ LoadInv(b, ld[b], tk, sn)
      /\ AllHold(chan, tk, sn) /\ cp \in [Blocks -> ComputeStates]
      /\ c \in Channels /\ K \in Nat \ {0} /\ STEPS \in Nat \ {0}
  BY Constants, OwnChannels DEF TileInv, FifoNames
<1>3. Head(chan[c]) = Word(c, tk[c] + 1) /\ tk[c] < sn[c] /\ tk[c] \in Nat /\ sn[c] \in Nat
  BY <1>1, <1>2, NextWord DEF Fire
<1>4. sn[c] \in {0, 1}
  BY <1>2 DEF LoadInv, LoadNew, LoadBusy, LoadOver
<1>5. tk[c] = 0 /\ Head(chan[c]) = b
  <2>1. \A k : Word(c, k) = b
    BY PosWords
  <2> HIDE DEF c
  <2> QED
    BY <1>3, <1>4, <2>1
<1>6. ComputeNew(b, cp[b], tk, sn)
  BY <1>1, <1>2, <1>5 DEF ComputeInv, ComputeBusy, ComputeOver
<1>7. FirstFrom(ComputeOrder, ComputeHas, b, 1) =
        IF IsCol0(b) THEN "recvA" ELSE IF IsRow0(b) THEN "recvB" ELSE "step"
  BY <1>2, ComputePhases
<1>8. l2 \in ComputeStates /\ l2.at = b /\ l2.n = 0
      /\ l2.pc = IF IsCol0(b) THEN "recvA" ELSE IF IsRow0(b) THEN "recvB" ELSE "step"
  BY <1>2, <1>7 DEF ComputeStates, ComputeIdle
<1>9. cp' = [cp EXCEPT ![b] = l2]
  <2>1. cp[b] = ComputeIdle
    BY <1>6 DEF ComputeNew
  <2> QED
    BY <1>1, <1>2, <1>5, <2>1
<1> HIDE DEF l2
<1>10. cp' \in [Blocks -> ComputeStates] /\ cp'[b] = l2 /\ \A a \in Blocks \ {b} : cp'[a] = cp[a]
  BY <1>2, <1>8, <1>9
<1>11. ComputeMoves(b)
  BY <1>1, <1>10 DEF ComputeMoves
<1>12. "posC" \in FifoNames
  BY DEF FifoNames
<1>13. /\ tk2[<<"posC", b>>] = 1
       /\ \A g \in FifoNames \ {"posC"} : tk2[<<g, b>>] = tk[<<g, b>>]
  BY <1>5, <1>12, OneFifo
<1> HIDE DEF tk2
<1>14. /\ tk2[<<"bufA", b>>] = tk[<<"bufA", b>>] /\ tk2[<<"bufB", b>>] = tk[<<"bufB", b>>]
       /\ tk2[<<"xaIn", b>>] = tk[<<"xaIn", b>>] /\ tk2[<<"xbIn", b>>] = tk[<<"xbIn", b>>]
  BY <1>13 DEF FifoNames
<1>15. ComputeBusy(b, l2, tk2, sn)
  BY <1>2, <1>6, <1>8, <1>13, <1>14 DEF ComputeNew, ComputeBusy, Stepped, Received
<1>16. Of({}, b) = {} /\ Past(sn, Of({}, b)) = sn /\ DOMAIN Nothing = {} /\ {c} = Of({"posC"}, b)
  BY <1>12, OneFifo, NoFifo, NothingPut
<1>17. ComputeInv(b, cp'[b], tk2, Past(sn, Of({}, b)))
  BY <1>8, <1>10, <1>15, <1>16 DEF ComputeInv
<1>18. {"posC"} \in SUBSET ComputeFifos /\ {} \in SUBSET {"xaOut", "xbOut", "cMine"}
  BY DEF ComputeFifos
<1> QED
  BY <1>1, <1>5, <1>11, <1>16, <1>17, <1>18, ComputeDone DEF tk2

LEMMA RecvOperandsStep ==
  ASSUME NEW b \in Blocks, NEW tk \in Counts, NEW sn \in Counts, TileInv(tk, sn), RecvOperands(b)
  PROVE  ComputeStep(b, tk, sn)
<1>1. PICK phase \in {"recvA", "recvB"} :
        /\ cp[b].pc = phase
        /\ Fire({<<IF phase = "recvA" THEN "bufA" ELSE "bufB", b>>}, Nothing)
        /\ IterateCompute(b, phase, K)
  BY DEF RecvOperands
<1> DEFINE f == IF phase = "recvA" THEN "bufA" ELSE "bufB"
           tk2 == Past(tk, Of({f}, b))
           next == IF phase = "recvA" /\ IsRow0(b) THEN "recvB" ELSE "step"
<1>2. /\ b \in Position /\ ComputeInv(b, cp[b], tk, sn) /\ UNCHANGED <<start, ld, st>>
      /\ K \in Nat \ {0} /\ STEPS \in Nat \ {0} /\ cp[b] \in ComputeStates
  BY Constants DEF TileInv, RecvOperands
<1>3. ComputeBusy(b, cp[b], tk, sn)
  BY <1>1, <1>2 DEF ComputeInv, ComputeNew, ComputeOver, ComputeIdle
<1>4. cp[b].at = b /\ cp[b].n \in Nat
  BY <1>2, <1>3 DEF ComputeBusy, ComputeStates
<1>5. next = Following(ComputeOrder, ComputeHas, b, phase)
  BY <1>2, ComputePhases
<1>6. ComputeIterated(b, K, next)
  <2>1. next \in {"recvB", "step", "drain", "pos"}
    OBVIOUS
  <2> HIDE DEF next
  <2> QED
    BY <1>1, <1>2, <1>4, <1>5, <2>1, ComputeIterates
<1>7. /\ f \in FifoNames /\ f # "posC" /\ {f} \in SUBSET ComputeFifos
      /\ {} \in SUBSET {"xaOut", "xbOut", "cMine"}
  BY DEF FifoNames, ComputeFifos
<1>8. \A g \in FifoNames : tk2[<<g, b>>] = IF g = f THEN tk[<<g, b>>] + 1 ELSE tk[<<g, b>>]
  <2>1. f \in FifoNames
    BY <1>7
  <2> HIDE DEF f
  <2>2. /\ Past(tk, Of({f}, b))[<<f, b>>] = tk[<<f, b>>] + 1
        /\ \A g \in FifoNames \ {f} : Past(tk, Of({f}, b))[<<g, b>>] = tk[<<g, b>>]
    BY <2>1, OneFifo
  <2> QED
    BY <2>2
<1> HIDE DEF tk2
<1>9. /\ tk2[<<"posC", b>>] = tk[<<"posC", b>>]
      /\ tk2[<<"bufA", b>>] = (IF phase = "recvA" THEN tk[<<"bufA", b>>] + 1 ELSE tk[<<"bufA", b>>])
      /\ tk2[<<"bufB", b>>] = (IF phase = "recvA" THEN tk[<<"bufB", b>>] ELSE tk[<<"bufB", b>>] + 1)
      /\ tk2[<<"xaIn", b>>] = tk[<<"xaIn", b>>] /\ tk2[<<"xbIn", b>>] = tk[<<"xbIn", b>>]
  BY <1>8 DEF FifoNames
<1>10. ComputeBusy(b, cp'[b], tk2, sn)
  <2>1. CASE cp[b].n < K - 1
    BY <1>1, <1>2, <1>3, <1>4, <1>6, <1>9, <2>1 DEF ComputeIterated, ComputeBusy, Stepped
  <2>2. CASE ~(cp[b].n < K - 1)
    BY <1>1, <1>2, <1>3, <1>4, <1>6, <1>9, <2>2 DEF ComputeIterated, ComputeBusy, Stepped, Received
  <2> QED
    BY <2>1, <2>2
<1>11. ComputeMoves(b) /\ cp'[b] \in ComputeStates
  BY <1>6 DEF ComputeIterated, ComputeMoves
<1>12. Of({}, b) = {} /\ Past(sn, Of({}, b)) = sn /\ DOMAIN Nothing = {} /\ {<<f, b>>} = Of({f}, b)
  BY <1>7, OneFifo, NoFifo, NothingPut
<1>13. ComputeInv(b, cp'[b], tk2, Past(sn, Of({}, b)))
  BY <1>10, <1>11, <1>12 DEF ComputeInv
<1>14. cp[b].pc # "pos" /\ Fire({<<f, b>>}, Nothing)
  BY <1>1
<1> HIDE DEF f, next
<1> QED
  BY <1>7, <1>11, <1>12, <1>13, <1>14, ComputeDone DEF tk2

LEMMA StepStep ==
  ASSUME NEW b \in Blocks, NEW tk \in Counts, NEW sn \in Counts, TileInv(tk, sn), Step(b)
  PROVE  ComputeStep(b, tk, sn)
<1> DEFINE in  == (IF IsCol0(b) THEN {} ELSE {"xaIn"}) \cup (IF IsRow0(b) THEN {} ELSE {"xbIn"})
           out == (IF IsLastCol(b) THEN {} ELSE {"xaOut"}) \cup
                  (IF IsLastRow(b) THEN {} ELSE {"xbOut"})
           wrote == [c \in Of(out, b) |-> CrossingWord(b, c[1])]
           tk2 == Past(tk, Of(in, b))
           sn2 == Past(sn, Of(out, b))
           m == cp[b].n
<1>1. /\ b \in Position /\ ComputeInv(b, cp[b], tk, sn) /\ UNCHANGED <<start, ld, st>>
      /\ STEPS \in Nat \ {0} /\ ACCS \in Nat \ {0} /\ cp[b] \in ComputeStates /\ cp[b].pc = "step"
  BY Constants DEF TileInv, Step
<1>2. ComputeBusy(b, cp[b], tk, sn)
  BY <1>1 DEF ComputeInv, ComputeNew, ComputeOver, ComputeIdle
<1>3. cp[b].at = b /\ m \in Nat /\ m < STEPS /\ Received(b, tk) /\ Stepped(b, m, tk, sn)
      /\ sn[<<"cMine", b>>] = 0 /\ tk[<<"posC", b>>] = 1
  BY <1>1, <1>2 DEF ComputeBusy, ComputeStates
<1>4. Fire(Of(in, b), wrote) /\ IterateCompute(b, "step", STEPS)
  BY <1>3 DEF Step, Of
<1>5. ComputeIterated(b, STEPS, "drain")
  BY <1>1, <1>3, <1>4, ComputeIterates, ComputePhases
<1>6. /\ in \in SUBSET ComputeFifos /\ out \in SUBSET {"xaOut", "xbOut", "cMine"}
  BY DEF ComputeFifos
<1>7. /\ "xaIn" \in in <=> ~IsCol0(b)
      /\ "xbIn" \in in <=> ~IsRow0(b)
      /\ "xaOut" \in out <=> ~IsLastCol(b)
      /\ "xbOut" \in out <=> ~IsLastRow(b)
      /\ "bufA" \notin in /\ "bufB" \notin in /\ "posC" \notin in /\ "cMine" \notin out
      /\ out \subseteq {"xaOut", "xbOut"}
  OBVIOUS
<1>8. \A c \in Of(out, b) : CrossingWord(b, c[1]) = Word(c, sn[c] + 1)
  <2> SUFFICES ASSUME NEW name \in out
               PROVE  CrossingWord(b, name) = Word(<<name, b>>, sn[<<name, b>>] + 1)
    BY DEF Of
  <2>1. sn[<<name, b>>] = m
    BY <1>3, <1>7 DEF Stepped
  <2>2. PICK k : k = m + 1
    OBVIOUS
  <2>3. k - 1 = m
    BY <1>3, <2>2
  <2>4. /\ Word(<<"xaOut", b>>, k) = Payload("A_CROSS", RightOf(b), k - 1, FALSE)
        /\ Word(<<"xbOut", b>>, k) = Payload("B_CROSS", Below(b), k - 1, FALSE)
    BY CrossFifoWords
  <2>5. name \in {"xaOut", "xbOut"}
    BY <1>7
  <2> HIDE DEF m, out
  <2>6. CrossingWord(b, name) = IF name = "xaOut" THEN Payload("A_CROSS", RightOf(b), m, FALSE)
                                                  ELSE Payload("B_CROSS", Below(b), m, FALSE)
    BY <1>3 DEF CrossingWord, m
  <2> QED
    BY <2>1, <2>2, <2>3, <2>4, <2>5, <2>6
<1>9. DOMAIN wrote = Of(out, b) /\ \A c \in DOMAIN wrote : wrote[c] = Word(c, sn[c] + 1)
  BY <1>8
<1> HIDE DEF in, out
<1>10. /\ \A g \in FifoNames : tk2[<<g, b>>] = IF g \in in THEN tk[<<g, b>>] + 1 ELSE tk[<<g, b>>]
       /\ \A g \in FifoNames : sn2[<<g, b>>] = IF g \in out THEN sn[<<g, b>>] + 1 ELSE sn[<<g, b>>]
  BY OfPast
<1> HIDE DEF tk2, sn2
<1>11. /\ Received(b, tk2) /\ Stepped(b, m + 1, tk2, sn2)
       /\ sn2[<<"cMine", b>>] = 0 /\ tk2[<<"posC", b>>] = 1
  <2>1. /\ tk2[<<"bufA", b>>] = tk[<<"bufA", b>>] /\ tk2[<<"bufB", b>>] = tk[<<"bufB", b>>]
        /\ tk2[<<"posC", b>>] = tk[<<"posC", b>>] /\ sn2[<<"cMine", b>>] = sn[<<"cMine", b>>]
        /\ tk2[<<"xaIn", b>>] = IF IsCol0(b) THEN tk[<<"xaIn", b>>] ELSE tk[<<"xaIn", b>>] + 1
        /\ tk2[<<"xbIn", b>>] = IF IsRow0(b) THEN tk[<<"xbIn", b>>] ELSE tk[<<"xbIn", b>>] + 1
        /\ sn2[<<"xaOut", b>>] = IF IsLastCol(b) THEN sn[<<"xaOut", b>>] ELSE sn[<<"xaOut", b>>] + 1
        /\ sn2[<<"xbOut", b>>] = IF IsLastRow(b) THEN sn[<<"xbOut", b>>] ELSE sn[<<"xbOut", b>>] + 1
    BY <1>7, <1>10 DEF FifoNames
  <2> HIDE DEF m
  <2> QED
    BY <1>3, <2>1 DEF Received, Stepped
<1>12. ComputeBusy(b, cp'[b], tk2, sn2)
  <2>1. CASE m < STEPS - 1
    BY <1>1, <1>3, <1>5, <1>11, <2>1 DEF ComputeIterated, ComputeBusy
  <2>2. CASE ~(m < STEPS - 1)
    <3>1. m + 1 = STEPS
      BY <1>1, <1>3, <2>2
    <3> QED
      BY <1>1, <1>5, <1>11, <2>2, <3>1 DEF ComputeIterated, ComputeBusy
  <2> QED
    BY <2>1, <2>2
<1>13. ComputeMoves(b) /\ ComputeInv(b, cp'[b], tk2, sn2)
  BY <1>5, <1>12 DEF ComputeInv, ComputeIterated, ComputeMoves
<1>14. cp[b].pc # "pos"
  BY <1>1
<1> HIDE DEF wrote
<1> QED
  BY <1>4, <1>6, <1>9, <1>13, <1>14, ComputeDone DEF tk2, sn2

LEMMA DrainStep ==
  ASSUME NEW b \in Blocks, NEW tk \in Counts, NEW sn \in Counts, TileInv(tk, sn), Drain(b)
  PROVE  ComputeStep(b, tk, sn)
<1> DEFINE to == <<"cMine", b>>
           v == Payload("C_DATA", b, cp[b].n, FALSE)
           sn2 == Past(sn, Of({"cMine"}, b))
           m == cp[b].n
<1>1. /\ b \in Position /\ ComputeInv(b, cp[b], tk, sn) /\ UNCHANGED <<start, ld, st>>
      /\ STEPS \in Nat \ {0} /\ ACCS \in Nat \ {0} /\ cp[b] \in ComputeStates /\ cp[b].pc = "drain"
  BY Constants DEF TileInv, Drain
<1>2. ComputeBusy(b, cp[b], tk, sn)
  BY <1>1 DEF ComputeInv, ComputeNew, ComputeOver, ComputeIdle
<1>3. cp[b].at = b /\ m \in Nat /\ m < ACCS /\ Received(b, tk) /\ Stepped(b, STEPS, tk, sn)
      /\ sn[to] = m /\ tk[<<"posC", b>>] = 1
  BY <1>1, <1>2 DEF ComputeBusy, ComputeStates
<1>4. Fire({}, Put(to, v)) /\ IterateCompute(b, "drain", ACCS)
  BY <1>3 DEF Drain
<1>5. ComputeIterated(b, ACCS, "pos")
  BY <1>1, <1>3, <1>4, ComputeIterates, ComputePhases
<1>6. v = Word(to, sn[to] + 1)
  <2>1. PICK k : k = m + 1
    OBVIOUS
  <2>2. Word(to, k) = Payload("C_DATA", b, k - 1, FALSE)
    BY CMineWords
  <2>3. k - 1 = m
    BY <1>3, <2>1
  <2> QED
    BY <1>3, <2>1, <2>2, <2>3
<1>7. /\ Of({"cMine"}, b) = {to} /\ Of({}, b) = {} /\ Past(tk, Of({}, b)) = tk
      /\ sn2[to] = m + 1
      /\ \A g \in FifoNames \ {"cMine"} : sn2[<<g, b>>] = sn[<<g, b>>]
  <2>1. "cMine" \in FifoNames
    BY DEF FifoNames
  <2>2. /\ Of({"cMine"}, b) = {to} /\ sn2[to] = sn[to] + 1
        /\ \A g \in FifoNames \ {"cMine"} : sn2[<<g, b>>] = sn[<<g, b>>]
    BY <2>1, OneFifo
  <2>3. Of({}, b) = {} /\ Past(tk, Of({}, b)) = tk
    BY NoFifo
  <2> QED
    BY <1>3, <2>2, <2>3
<1>8. DOMAIN Put(to, v) = Of({"cMine"}, b) /\ \A c \in Of({"cMine"}, b) : Put(to, v)[c] = Word(c, sn[c] + 1)
  <2> HIDE DEF to, v
  <2> QED
    BY <1>6, <1>7, NothingPut
<1> HIDE DEF sn2, v
<1>9. Stepped(b, STEPS, tk, sn2)
  <2>1. sn2[<<"xaOut", b>>] = sn[<<"xaOut", b>>] /\ sn2[<<"xbOut", b>>] = sn[<<"xbOut", b>>]
    BY <1>7 DEF FifoNames
  <2> QED
    BY <1>3, <2>1 DEF Stepped
<1>10. ComputeBusy(b, cp'[b], tk, sn2) \/ ComputeOver(b, cp'[b], tk, sn2)
  <2>1. CASE m < ACCS - 1
    BY <1>1, <1>3, <1>5, <1>7, <1>9, <2>1 DEF ComputeIterated, ComputeBusy
  <2>2. CASE ~(m < ACCS - 1)
    <3>1. m + 1 = ACCS
      BY <1>1, <1>3, <2>2
    <3> QED
      BY <1>1, <1>3, <1>5, <1>7, <1>9, <2>2, <3>1 DEF ComputeIterated, ComputeOver
  <2> QED
    BY <2>1, <2>2
<1>11. ComputeMoves(b) /\ ComputeInv(b, cp'[b], tk, sn2)
  BY <1>5, <1>10 DEF ComputeInv, ComputeIterated, ComputeMoves
<1>12. cp[b].pc # "pos" /\ {} \in SUBSET ComputeFifos /\ {"cMine"} \in SUBSET {"xaOut", "xbOut", "cMine"}
  BY <1>1
<1> HIDE DEF to
<1> QED
  BY <1>4, <1>7, <1>8, <1>11, <1>12, ComputeDone DEF sn2

LEMMA ComputeIsStep ==
  ASSUME NEW b \in Blocks, NEW tk \in Counts, NEW sn \in Counts, TileInv(tk, sn), Compute(b)
  PROVE  ComputeStep(b, tk, sn)
BY ComputePosStep, RecvOperandsStep, StepStep, DrainStep DEF Compute

-----------------------------------------------------------------------------
(* store *)

(* What a step of store does; it takes a position at most once in a tile. *)
StoreMoves(b) ==
  /\ st' \in [Blocks -> StoreStates] /\ \A a \in Blocks \ {b} : st'[a] = st[a]
  /\ start' = start /\ ld' = ld /\ cp' = cp

StoreStep(b, tk, sn) ==
  \E rd \in SUBSET ReadByStore(b), sd \in SUBSET SentByStore(b) :
    /\ AllHold(chan', Past(tk, rd), Past(sn, sd))
    /\ StoreInv(b, st'[b], Past(tk, rd), Past(sn, sd)) /\ StoreMoves(b)
    /\ st[b].pc = "pos" => tk[<<"posS", b>>] = 0

LEMMA StoreDone ==
  ASSUME NEW b \in Blocks, NEW tk \in Counts, NEW sn \in Counts, TileInv(tk, sn),
         NEW fs \in SUBSET StoreFifos, NEW sd \in SUBSET SentByStore(b),
         NEW wr, DOMAIN wr = sd, Fire(Of(fs, b), wr),
         \A c \in DOMAIN wr : wr[c] = Word(c, sn[c] + 1),
         StoreInv(b, st'[b], Past(tk, Of(fs, b)), Past(sn, sd)), StoreMoves(b),
         st[b].pc = "pos" => tk[<<"posS", b>>] = 0
  PROVE  StoreStep(b, tk, sn)
<1>1. Of(fs, b) \in SUBSET ReadByStore(b)
  BY DEF ReadByStore, Of
<1>2. Of(fs, b) \in SUBSET Channels /\ sd \subseteq Channels /\ AllHold(chan, tk, sn)
  BY <1>1, OwnChannels DEF TileInv
<1>3. AllHold(chan', Past(tk, Of(fs, b)), Past(sn, sd))
  BY <1>2, Moved
<1> QED
  BY <1>1, <1>3 DEF StoreStep

(* Store goes on to its next phase, which next is. *)
StoreGoesOn(b, next, tk, sn) ==
  IF next = "pos" THEN StoreOver(b, StoreIdle, tk, sn)
  ELSE \A l \in StoreStates :
         l.pc = next /\ l.at = b /\ l.n = 0 /\ l.nRight = st[b].nRight /\ l.nDown = st[b].nDown
         => StoreInv(b, l, tk, sn)

StorePhaseNames == {"frameRight", "frameDown", "headerRight", "headerDown", "cross", "cHeader",
                    "cPass", "emit", "pos"}

LEMMA StorePasses ==
  ASSUME NEW b \in Blocks, NEW tk \in Counts, NEW sn \in Counts, TileInv(tk, sn),
         NEW fs \in SUBSET StoreFifos, NEW sd \in SUBSET SentByStore(b),
         NEW wr, DOMAIN wr = sd, Fire(Of(fs, b), wr),
         \A c \in DOMAIN wr : wr[c] = Word(c, sn[c] + 1),
         st[b].at = b, st[b].pc # "pos", NEW phase, LeaveStore(b, phase), UNCHANGED <<start, ld, cp>>,
         NEW next \in StorePhaseNames, next = AfterStore(b, phase),
         StoreGoesOn(b, next, Past(tk, Of(fs, b)), Past(sn, sd))
  PROVE  StoreStep(b, tk, sn)
<1> DEFINE tk2 == Past(tk, Of(fs, b))
           sn2 == Past(sn, sd)
<1>1. st \in [Blocks -> StoreStates]
  BY DEF TileInv
<1>2. PICK l \in StoreStates : l = st[b]
  BY <1>1
<1>3. StoreGoesOn(b, next, tk2, sn2)
  OBVIOUS
<1> HIDE DEF tk2, sn2
<1>4. StoreMoves(b) /\ StoreInv(b, st'[b], tk2, sn2)
  <2>1. CASE next = "pos"
    <3>1. st' = [st EXCEPT ![b] = StoreIdle]
      BY <2>1 DEF LeaveStore
    <3>2. /\ st' \in [Blocks -> StoreStates] /\ st'[b] = StoreIdle
          /\ \A a \in Blocks \ {b} : st'[a] = st[a]
      BY <1>1, <3>1, IdleStates
    <3>3. StoreOver(b, StoreIdle, tk2, sn2)
      BY <1>3, <2>1 DEF StoreGoesOn
    <3> QED
      BY <3>2, <3>3, IdleStates DEF StoreMoves, StoreInv
  <2>2. CASE next # "pos"
    <3> DEFINE l2 == [l EXCEPT !.pc = next, !.n = 0]
    <3>1. st' = [st EXCEPT ![b] = l2]
      BY <1>2, <2>2 DEF LeaveStore
    <3>2. /\ l2 \in StoreStates /\ l2.pc = next /\ l2.at = l.at /\ l2.n = 0
          /\ l2.nRight = l.nRight /\ l2.nDown = l.nDown
      BY <2>2 DEF StoreStates, StorePhaseNames
    <3> HIDE DEF l2
    <3>3. /\ st' \in [Blocks -> StoreStates] /\ st'[b] = l2
          /\ \A a \in Blocks \ {b} : st'[a] = st[a]
      BY <1>1, <3>1, <3>2
    <3>4. StoreInv(b, l2, tk2, sn2)
      BY <1>2, <1>3, <2>2, <3>2 DEF StoreGoesOn
    <3> QED
      BY <3>3, <3>4 DEF StoreMoves
  <2> QED
    BY <2>1, <2>2
<1> QED
  BY <1>4, StoreDone DEF tk2, sn2

(* Before the crossing: right and down words are on the links. *)
SPoint(b, fr, fd, right, down, tk, sn) ==
  /\ tk[<<"posS", b>>] = 1
  /\ Forwarded(b, fr, fd, tk) /\ Crossed(b, 0, 0, tk) /\ Gathering(b, 0, 0, tk)
  /\ sn[OutRight(b)] = right /\ sn[OutDown(b)] = down

(* From the C phase on: pass beats from cPass, mine accumulators and c words are past. *)
SCTaken(b, pass, mine, tk) ==
  /\ tk[<<"posS", b>>] = 1 /\ Forwarded(b, FramesRight(b), FramesDown(b), tk)
  /\ Crossed(b, STEPS, STEPS, tk) /\ Gathering(b, pass, mine, tk)

SCSent(b, c, sn) == SentRight(b, 1 + STEPS, c, sn) /\ SentDown(b, 1 + STEPS, c, sn)

LEMMA CStoreGoesOn ==
  ASSUME NEW b \in Position, NEW tk, NEW sn
  PROVE  /\ SCTaken(b, 0, 0, tk) /\ SCSent(b, 0, sn) => StoreGoesOn(b, "cHeader", tk, sn)
         /\ SCTaken(b, 0, 0, tk) /\ SCSent(b, 1, sn) => StoreGoesOn(b, AfterStore(b, "cHeader"), tk, sn)
         /\ SCTaken(b, CPassed(b), 0, tk) /\ SCSent(b, 1 + CPassed(b), sn) => StoreGoesOn(b, "emit", tk, sn)
         /\ SCTaken(b, CPassed(b), ACCS, tk) /\ SCSent(b, 1 + CPassed(b) + CBEAT, sn) =>
              StoreGoesOn(b, "pos", tk, sn)
<1>1. /\ CPassed(b) \in Nat /\ ACCS \in Nat \ {0} /\ 0 \div APB = 0
      /\ (FromUpC(b) \/ FromLeftC(b) => CPassed(b) > 0)
      /\ (~(FromUpC(b) \/ FromLeftC(b)) => CPassed(b) = 0)
  BY CCounts, Constants, EmitBeats
<1>2. SCTaken(b, 0, 0, tk) /\ SCSent(b, 0, sn) => StoreGoesOn(b, "cHeader", tk, sn)
  BY DEF SCTaken, SCSent, StoreGoesOn, StoreInv, StoreBusy, StoreCInv
<1>3. SCTaken(b, CPassed(b), 0, tk) /\ SCSent(b, 1 + CPassed(b), sn) => StoreGoesOn(b, "emit", tk, sn)
  <2> SUFFICES ASSUME SCTaken(b, CPassed(b), 0, tk), SCSent(b, 1 + CPassed(b), sn),
                      NEW l \in StoreStates, l.pc = "emit", l.at = b, l.n = 0
               PROVE  StoreInv(b, l, tk, sn)
    BY DEF StoreGoesOn
  <2>1. 1 + CPassed(b) + l.n \div APB = 1 + CPassed(b)
    BY <1>1
  <2>2. l.n < ACCS
    BY <1>1
  <2> QED
    BY <2>1, <2>2 DEF SCTaken, SCSent, StoreInv, StoreBusy, StoreCInv
<1>4. SCTaken(b, CPassed(b), ACCS, tk) /\ SCSent(b, 1 + CPassed(b) + CBEAT, sn) =>
              StoreGoesOn(b, "pos", tk, sn)
  BY DEF SCTaken, SCSent, StoreGoesOn, StoreOver
<1>5. ASSUME SCTaken(b, 0, 0, tk), SCSent(b, 1, sn)
      PROVE  StoreGoesOn(b, AfterStore(b, "cHeader"), tk, sn)
  <2>1. CASE FromUpC(b) \/ FromLeftC(b)
    <3>1. StoreGoesOn(b, "cPass", tk, sn)
      BY <1>1, <1>5, <2>1 DEF SCTaken, SCSent, StoreGoesOn, StoreInv, StoreBusy, StoreCInv, Gathering
    <3> QED
      BY <2>1, <3>1, StorePhases
  <2>2. CASE ~(FromUpC(b) \/ FromLeftC(b))
    <3>1. SCTaken(b, CPassed(b), 0, tk) /\ SCSent(b, 1 + CPassed(b), sn)
      <4>1. CPassed(b) = 0 /\ 1 + CPassed(b) = 1
        BY <1>1, <2>2
      <4> QED
        BY <1>5, <4>1
    <3> QED
      BY <1>3, <2>2, <3>1, StorePhases
  <2> QED
    BY <2>1, <2>2
<1> QED
  BY <1>2, <1>3, <1>4, <1>5

LEMMA StoreGoesDown ==
  ASSUME NEW b \in Position, NEW tk, NEW sn, st[b].nRight = 0, st[b].nDown = 0,
         NEW fr, NEW fd, NEW right, NEW down,
         fr = FramesRight(b), fd = FramesDown(b),
         right = fr + (IF IsLastCol(b) THEN 0 ELSE 1), down = fd + (IF IsLastRow(b) THEN 0 ELSE 1)
  PROVE  /\ SPoint(b, fr, fd, right, down, tk, sn) => StoreGoesOn(b, StoreNext(b, 5), tk, sn)
         /\ SPoint(b, fr, fd, right, fd, tk, sn) => StoreGoesOn(b, StoreNext(b, 4), tk, sn)
         /\ SPoint(b, fr, fd, fr, fd, tk, sn) => StoreGoesOn(b, StoreNext(b, 3), tk, sn)
         /\ SPoint(b, fr, 0, fr, 0, tk, sn) => StoreGoesOn(b, StoreNext(b, 2), tk, sn)
         /\ SPoint(b, 0, 0, 0, 0, tk, sn) => StoreGoesOn(b, StoreNext(b, 1), tk, sn)
<1>1. /\ fr \in Nat /\ fd \in Nat /\ STEPS \in Nat \ {0}
      /\ (IsLastCol(b) \/ ~IsRow0(b) => fr = 0) /\ (IsLastRow(b) \/ ~IsCol0(b) => fd = 0)
      /\ (IsRow0(b) /\ ~IsLastCol(b) => fr > 0) /\ (IsCol0(b) /\ ~IsLastRow(b) => fd > 0)
  BY FrameCounts, Constants
<1>2. ASSUME SPoint(b, fr, fd, right, down, tk, sn)
      PROVE  StoreGoesOn(b, StoreNext(b, 5), tk, sn)
  <2>1. CASE IsLastCol(b) /\ IsLastRow(b)
    <3>1. SCTaken(b, 0, 0, tk) /\ SCSent(b, 0, sn)
      BY <1>1, <1>2, <2>1 DEF SPoint, SCTaken, SCSent, Crossed, SentRight, SentDown
    <3> QED
      BY <2>1, <3>1, CStoreGoesOn, StorePhases
  <2>2. CASE ~(IsLastCol(b) /\ IsLastRow(b))
    <3> SUFFICES ASSUME NEW l \in StoreStates, l.pc = "cross", l.at = b, l.nRight = 0, l.nDown = 0
                 PROVE  StoreInv(b, l, tk, sn)
      BY <2>2, StorePhases DEF StoreGoesOn
    <3>1. ~StoreCrossDone(b, l.nRight, l.nDown)
      BY <1>1, <2>2 DEF StoreCrossDone
    <3>2. SentRight(b, 1 + l.nRight, 0, sn) /\ SentDown(b, 1 + l.nDown, 0, sn)
      BY <1>1, <1>2 DEF SPoint, SentRight, SentDown
    <3>3. StoreCrossInv(b, l, tk, sn)
      BY <1>1, <1>2, <3>1, <3>2 DEF SPoint, StoreCrossInv
    <3> QED
      BY <1>2, <3>3 DEF StoreInv, StoreBusy, SPoint
  <2> QED
    BY <2>1, <2>2
<1>3. ASSUME SPoint(b, fr, fd, right, fd, tk, sn)
      PROVE  StoreGoesOn(b, StoreNext(b, 4), tk, sn)
  <2>1. CASE IsLastRow(b)
    <3>1. fd = down
      BY <1>1, <2>1
    <3> QED
      BY <1>2, <1>3, <2>1, <3>1, StorePhases
  <2>2. CASE ~IsLastRow(b)
    <3> SUFFICES ASSUME NEW l \in StoreStates, l.pc = "headerDown", l.at = b, l.nRight = 0, l.nDown = 0
                 PROVE  StoreInv(b, l, tk, sn)
      BY <2>2, StorePhases DEF StoreGoesOn
    <3>1. SentRight(b, 1, 0, sn) /\ SentDown(b, 0, 0, sn)
      BY <1>1, <1>3 DEF SPoint, SentRight, SentDown
    <3>2. StoreFrameInv(b, l, tk, sn)
      BY <1>3, <2>2, <3>1 DEF SPoint, StoreFrameInv
    <3> QED
      BY <1>3, <3>2 DEF StoreInv, StoreBusy, SPoint
  <2> QED
    BY <2>1, <2>2
<1>4. ASSUME SPoint(b, fr, fd, fr, fd, tk, sn)
      PROVE  StoreGoesOn(b, StoreNext(b, 3), tk, sn)
  <2>1. CASE IsLastCol(b)
    <3>1. fr = right
      BY <1>1, <2>1
    <3> QED
      BY <1>3, <1>4, <2>1, <3>1, StorePhases
  <2>2. CASE ~IsLastCol(b)
    <3> SUFFICES ASSUME NEW l \in StoreStates, l.pc = "headerRight", l.at = b, l.nRight = 0, l.nDown = 0
                 PROVE  StoreInv(b, l, tk, sn)
      BY <2>2, StorePhases DEF StoreGoesOn
    <3>1. SentRight(b, 0, 0, sn) /\ SentDown(b, 0, 0, sn)
      BY <1>1, <1>4 DEF SPoint, SentRight, SentDown
    <3>2. StoreFrameInv(b, l, tk, sn)
      BY <1>4, <2>2, <3>1 DEF SPoint, StoreFrameInv
    <3> QED
      BY <1>4, <3>2 DEF StoreInv, StoreBusy, SPoint
  <2> QED
    BY <2>1, <2>2
<1>5. ASSUME SPoint(b, fr, 0, fr, 0, tk, sn)
      PROVE  StoreGoesOn(b, StoreNext(b, 2), tk, sn)
  <2>1. CASE ~(IsCol0(b) /\ ~IsLastRow(b))
    <3>1. fd = 0
      BY <1>1, <2>1
    <3> QED
      BY <1>4, <1>5, <2>1, <3>1, StorePhases
  <2>2. CASE IsCol0(b) /\ ~IsLastRow(b)
    <3> SUFFICES ASSUME NEW l \in StoreStates, l.pc = "frameDown", l.at = b, l.nRight = 0, l.nDown = 0
                 PROVE  StoreInv(b, l, tk, sn)
      BY <2>2, StorePhases DEF StoreGoesOn
    <3>1. StoreFrameInv(b, l, tk, sn)
      BY <1>1, <1>5, <2>2 DEF SPoint, StoreFrameInv, Forwarded
    <3> QED
      BY <1>5, <3>1 DEF StoreInv, StoreBusy, SPoint
  <2> QED
    BY <2>1, <2>2
<1>6. ASSUME SPoint(b, 0, 0, 0, 0, tk, sn)
      PROVE  StoreGoesOn(b, StoreNext(b, 1), tk, sn)
  <2>1. CASE ~(IsRow0(b) /\ ~IsLastCol(b))
    <3>1. fr = 0
      BY <1>1, <2>1
    <3> QED
      BY <1>5, <1>6, <2>1, <3>1, StorePhases
  <2>2. CASE IsRow0(b) /\ ~IsLastCol(b)
    <3> SUFFICES ASSUME NEW l \in StoreStates, l.pc = "frameRight", l.at = b, l.nRight = 0, l.nDown = 0
                 PROVE  StoreInv(b, l, tk, sn)
      BY <2>2, StorePhases DEF StoreGoesOn
    <3>1. StoreFrameInv(b, l, tk, sn)
      BY <1>1, <1>6, <2>2 DEF SPoint, StoreFrameInv, Forwarded
    <3> QED
      BY <1>6, <3>1 DEF StoreInv, StoreBusy, SPoint
  <2> QED
    BY <2>1, <2>2
<1> QED
  BY <1>2, <1>3, <1>4, <1>5, <1>6

-----------------------------------------------------------------------------
(* What store sends is what the neighbours expect. *)

LEMMA StorePast ==
  ASSUME NEW b \in Blocks, NEW n \in Counts, NEW sd
  PROVE  /\ OutRight(b) \in Channels /\ OutDown(b) \in Channels /\ OutRight(b) # OutDown(b)
         /\ Past(n, sd)[OutRight(b)] = IF OutRight(b) \in sd THEN n[OutRight(b)] + 1 ELSE n[OutRight(b)]
         /\ Past(n, sd)[OutDown(b)] = IF OutDown(b) \in sd THEN n[OutDown(b)] + 1 ELSE n[OutDown(b)]
         /\ n[OutRight(b)] \in Nat /\ n[OutDown(b)] \in Nat
<1>1. OutRight(b) \in Channels /\ OutDown(b) \in Channels
  BY OwnChannels DEF SentByStore
<1>2. OutRight(b) # OutDown(b)
  BY SMT DEF OutRight, OutDown, InLeft, InUp
<1>3. n[OutRight(b)] \in Nat /\ n[OutDown(b)] \in Nat
  BY <1>1 DEF Counts
<1> QED
  BY <1>1, <1>2, <1>3, PastCounts

LEMMA RightFrames ==
  ASSUME NEW b \in Position, IsRow0(b), NEW k \in 1 .. FramesRight(b)
  PROVE  Word(OutRight(b), k) = Word(<<"fwdRight", b>>, k)
<1>1. /\ RightOf(b) \in Place /\ ~IsCol0(RightOf(b)) /\ IsRow0(RightOf(b))
      /\ RightOf(b)[2] = b[2] + 1 /\ FramesRight(b) = FramesLeft(RightOf(b))
      /\ FramesRight(b) \in Nat
  BY Neighbours, FrameCounts
<1>2. k \in Nat \ {0} /\ k <= FramesLeft(RightOf(b))
  BY <1>1
<1>3. LeftWord(RightOf(b), k) = Transfer("B_FRAME")[FrameWords(RightOf(b)[2]) + k]
  BY <1>1, <1>2, LeftFrameWords
<1>4. Word(<<"fwdRight", b>>, k) = Transfer("B_FRAME")[FrameWords(b[2] + 1) + k]
  BY FrameFifoWords
<1>5. Word(OutRight(b), k) = LeftWord(RightOf(b), k)
  BY LinkWords DEF OutRight
<1> QED
  BY <1>1, <1>3, <1>4, <1>5, Zenon

LEMMA DownFrames ==
  ASSUME ~TAP, NEW b \in Position, IsCol0(b), NEW k \in 1 .. FramesDown(b)
  PROVE  Word(OutDown(b), k) = Word(<<"fwdDown", b>>, k)
<1>1. /\ Below(b) \in Place /\ Below(b)[1] = b[1] + 1 /\ FramesDown(b) = FramesUp(Below(b))
  BY Neighbours, FrameCounts
<1>2. UpWord(Below(b), k) = Transfer("A_FRAME")[FrameWords(Below(b)[1]) + k]
  BY <1>1, UpFrameWords
<1>3. Word(<<"fwdDown", b>>, k) = Transfer("A_FRAME")[FrameWords(b[1] + 1) + k]
  BY FrameFifoWords
<1>4. Word(OutDown(b), k) = UpWord(Below(b), k)
  BY LinkWords DEF OutDown
<1> QED
  BY <1>1, <1>2, <1>3, <1>4, Zenon

LEMMA RightCrossing ==
  ASSUME NEW b \in Position, NEW f, f = FramesRight(b)
  PROVE  /\ Word(OutRight(b), f + 1) = Header("A_CROSS", RightOf(b))
         /\ \A n \in 0 .. STEPS - 1 :
              Word(OutRight(b), f + 2 + n) = Payload("A_CROSS", RightOf(b), n, n = STEPS - 1)
<1>1. RightOf(b) \in Place /\ ~IsCol0(RightOf(b)) /\ f = FramesLeft(RightOf(b))
  BY Neighbours, FrameCounts
<1>2. /\ LeftWord(RightOf(b), f + 1) = Header("A_CROSS", RightOf(b))
      /\ \A n \in 0 .. STEPS - 1 :
           LeftWord(RightOf(b), f + 2 + n) = Payload("A_CROSS", RightOf(b), n, n = STEPS - 1)
  BY <1>1, LeftCrossWords
<1>3. \A k : Word(OutRight(b), k) = LeftWord(RightOf(b), k)
  BY LinkWords DEF OutRight
<1> QED
  BY <1>2, <1>3, Zenon

LEMMA DownCrossing ==
  ASSUME ~TAP, NEW b \in Position, ~IsLastRow(b), NEW f, f = FramesDown(b)
  PROVE  /\ Word(OutDown(b), f + 1) = Header("B_CROSS", Below(b))
         /\ \A n \in 0 .. STEPS - 1 :
              Word(OutDown(b), f + 2 + n) = Payload("B_CROSS", Below(b), n, n = STEPS - 1)
<1>1. Below(b) \in Place /\ ~IsRow0(Below(b)) /\ Below(b)[1] # R /\ f = FramesUp(Below(b))
  BY Neighbours, FrameCounts
<1>2. /\ UpWord(Below(b), f + 1) = Header("B_CROSS", Below(b))
      /\ \A n \in 0 .. STEPS - 1 :
           UpWord(Below(b), f + 2 + n) = Payload("B_CROSS", Below(b), n, n = STEPS - 1)
  BY <1>1, UpCrossWords
<1>3. \A k : Word(OutDown(b), k) = UpWord(Below(b), k)
  BY LinkWords DEF OutDown
<1> QED
  BY <1>2, <1>3, Zenon

(* Where C leaves block b, and the words that go there before it. *)
COf(b)   == IF IsLastCol(b) THEN OutDown(b) ELSE OutRight(b)
CBefore(b) ==
  IF IsLastCol(b) THEN FramesDown(b) + (IF IsLastRow(b) THEN 0 ELSE 1 + STEPS)
  ELSE FramesRight(b) + 1 + STEPS

LEMMA CHeaderSent ==
  ASSUME ~TAP, NEW b \in Position
  PROVE  Word(COf(b), CBefore(b) + 1) = Header("C_DATA", b)
<1>1. CASE IsLastCol(b)
  <2>1. PICK f, x : f = FramesDown(b) /\ x = IF IsLastRow(b) THEN 0 ELSE 1 + STEPS
    OBVIOUS
  <2>2. /\ Below(b) \in Place /\ f = FramesUp(Below(b)) /\ x = CrossUpWords(Below(b))
        /\ <<Below(b)[1] - 1, Below(b)[2]>> = b
    BY <2>1, Neighbours, FrameCounts DEF CrossUpWords
  <2>3. UpWord(Below(b), f + x + 1) = Header("C_DATA", <<Below(b)[1] - 1, Below(b)[2]>>)
    BY <2>2, UpCrossWords
  <2>4. Word(OutDown(b), f + x + 1) = UpWord(Below(b), f + x + 1)
    BY LinkWords DEF OutDown
  <2> QED
    BY <1>1, <2>1, <2>2, <2>3, <2>4 DEF COf, CBefore
<1>2. CASE ~IsLastCol(b)
  <2>1. PICK f : f = FramesRight(b)
    OBVIOUS
  <2>2. /\ RightOf(b) \in Place /\ ~IsCol0(RightOf(b)) /\ f = FramesLeft(RightOf(b)) /\ f \in Nat
        /\ <<RightOf(b)[1], RightOf(b)[2] - 1>> = b /\ STEPS \in Nat
    BY <2>1, Neighbours, FrameCounts, Constants
  <2>3. LeftWord(RightOf(b), f + 2 + STEPS) = Header("C_DATA", <<RightOf(b)[1], RightOf(b)[2] - 1>>)
    BY <2>2, LeftCrossWords
  <2>4. Word(OutRight(b), f + 2 + STEPS) = LeftWord(RightOf(b), f + 2 + STEPS)
    BY LinkWords DEF OutRight
  <2>5. f + 1 + STEPS + 1 = f + 2 + STEPS
    BY <2>2
  <2> QED
    BY <1>2, <2>1, <2>2, <2>3, <2>4, <2>5 DEF COf, CBefore
<1> QED
  BY <1>1, <1>2

LEMMA CBeatSent ==
  ASSUME ~TAP, NEW b \in Position, NEW n \in Nat \ {0}
  PROVE  Word(COf(b), CBefore(b) + 1 + n) = CWord(CFirst(b) + n, n = CPassed(b) + CBEAT)
<1>1. CASE IsLastCol(b)
  <2>1. PICK f, x : f = FramesDown(b) /\ x = IF IsLastRow(b) THEN 0 ELSE 1 + STEPS
    OBVIOUS
  <2>2. /\ Below(b) \in Place /\ f = FramesUp(Below(b)) /\ x = CrossUpWords(Below(b))
    BY <2>1, Neighbours, FrameCounts DEF CrossUpWords
  <2>3. CUpBeats(Below(b)) = CPassed(b) + CBEAT /\ CFirst(b) = 0 /\ 0 + n = n
    BY <1>1, CCounts
  <2>4. \A m \in Nat \ {0} : UpWord(Below(b), f + x + 1 + m) = CWord(m, m = CUpBeats(Below(b)))
    BY <2>2, UpCWords
  <2>5. UpWord(Below(b), f + x + 1 + n) = CWord(n, n = CUpBeats(Below(b)))
    BY <2>4, Zenon
  <2>6. Word(OutDown(b), f + x + 1 + n) = UpWord(Below(b), f + x + 1 + n)
    BY LinkWords DEF OutDown
  <2>7. COf(b) = OutDown(b) /\ CBefore(b) = f + x
    BY <1>1, <2>1 DEF COf, CBefore
  <2> QED
    BY <2>3, <2>5, <2>6, <2>7, Zenon
<1>2. CASE ~IsLastCol(b)
  <2>1. PICK f : f = FramesRight(b)
    OBVIOUS
  <2>2. /\ RightOf(b) \in Place /\ ~IsCol0(RightOf(b)) /\ f = FramesLeft(RightOf(b)) /\ f \in Nat
        /\ RightOf(b)[1] = b[1] /\ STEPS \in Nat
    BY <2>1, Neighbours, FrameCounts, Constants
  <2>3. CLeftBeats(RightOf(b)) = CPassed(b) + CBEAT /\ CFirst(b) = CBeats(b[1] * S)
    BY <1>2, CCounts
  <2>4. \A m \in Nat \ {0} :
          LeftWord(RightOf(b), f + 2 + STEPS + m) = CWord(CBeats(RightOf(b)[1] * S) + m, m = CLeftBeats(RightOf(b)))
    BY <2>2, LeftCWords
  <2>5. LeftWord(RightOf(b), f + 2 + STEPS + n) = CWord(CBeats(RightOf(b)[1] * S) + n, n = CLeftBeats(RightOf(b)))
    BY <2>4, Zenon
  <2>6. Word(OutRight(b), f + 2 + STEPS + n) = LeftWord(RightOf(b), f + 2 + STEPS + n)
    BY LinkWords DEF OutRight
  <2>7. f + 1 + STEPS + 1 + n = f + 2 + STEPS + n
    BY <2>2
  <2>8. COf(b) = OutRight(b) /\ CBefore(b) = f + 1 + STEPS
    BY <1>2, <2>1 DEF COf, CBefore
  <2> QED
    BY <2>2, <2>3, <2>5, <2>6, <2>7, <2>8, Zenon
<1> QED
  BY <1>1, <1>2

LEMMA StorePosStep ==
  ASSUME NEW b \in Blocks, NEW tk \in Counts, NEW sn \in Counts, TileInv(tk, sn), StorePos(b)
  PROVE  StoreStep(b, tk, sn)
<1> DEFINE c == <<"posS", b>>
           tk2 == Past(tk, Of({"posS"}, b))
           l2 == [StoreIdle EXCEPT !.at = b, !.pc = StoreNext(b, 1)]
<1>1. /\ st[b].pc = "pos" /\ Fire({c}, Nothing) /\ UNCHANGED <<start, ld, cp>>
      /\ st' = [st EXCEPT ![b].at = Head(chan[c]), ![b].pc = StoreNext(Head(chan[c]), 1)]
  BY DEF StorePos, StoreNext
<1>2. /\ b \in Position /\ StoreInv(b, st[b], tk, sn) /\ LoadInv(b, ld[b], tk, sn)
      /\ AllHold(chan, tk, sn) /\ st \in [Blocks -> StoreStates]
      /\ c \in Channels /\ "posS" \in FifoNames
  BY Constants, OwnChannels DEF TileInv, FifoNames
<1>3. Head(chan[c]) = Word(c, tk[c] + 1) /\ tk[c] < sn[c] /\ tk[c] \in Nat /\ sn[c] \in Nat
  BY <1>1, <1>2, NextWord DEF Fire
<1>4. sn[c] \in {0, 1}
  BY <1>2 DEF LoadInv, LoadNew, LoadBusy, LoadOver
<1>5. tk[c] = 0 /\ Head(chan[c]) = b
  <2>1. \A k : Word(c, k) = b
    BY PosWords
  <2> HIDE DEF c
  <2> QED
    BY <1>3, <1>4, <2>1
<1>6. StoreNew(b, st[b], tk, sn)
  BY <1>1, <1>2, <1>5 DEF StoreInv, StoreBusy, StoreOver
<1>7. StoreNext(b, 1) \in StorePhaseNames \ {"pos"}
  BY <1>2, StorePhases DEF StorePhaseNames
<1>8. l2 \in StoreStates /\ l2.at = b /\ l2.n = 0 /\ l2.pc = StoreNext(b, 1) /\ l2.nRight = 0 /\ l2.nDown = 0
  <2>1. PICK next \in StorePhaseNames : next = StoreNext(b, 1)
    BY <1>7
  <2> QED
    BY <1>2, <2>1 DEF StoreStates, StoreIdle, StorePhaseNames
<1>9. st' = [st EXCEPT ![b] = l2]
  <2>1. st[b] = StoreIdle
    BY <1>6 DEF StoreNew
  <2> QED
    BY <1>1, <1>2, <1>5, <2>1
<1>10. st[b].nRight = 0 /\ st[b].nDown = 0
  BY <1>6 DEF StoreNew, StoreIdle
<1> HIDE DEF l2
<1>11. st' \in [Blocks -> StoreStates] /\ st'[b] = l2 /\ \A a \in Blocks \ {b} : st'[a] = st[a]
  BY <1>2, <1>8, <1>9
<1>12. StoreMoves(b)
  BY <1>1, <1>11 DEF StoreMoves
<1>12a. "posS" \in FifoNames
  BY DEF FifoNames
<1>13. /\ tk2[<<"posS", b>>] = 1
       /\ \A g \in FifoNames \ {"posS"} : tk2[<<g, b>>] = tk[<<g, b>>]
  BY <1>5, <1>12a, OneFifo
<1> HIDE DEF tk2
<1>14. SPoint(b, 0, 0, 0, 0, tk2, sn)
  <2>1. /\ tk2[<<"fwdRight", b>>] = tk[<<"fwdRight", b>>] /\ tk2[<<"fwdDown", b>>] = tk[<<"fwdDown", b>>]
        /\ tk2[<<"xaOut", b>>] = tk[<<"xaOut", b>>] /\ tk2[<<"xbOut", b>>] = tk[<<"xbOut", b>>]
        /\ tk2[<<"cPass", b>>] = tk[<<"cPass", b>>] /\ tk2[<<"cMine", b>>] = tk[<<"cMine", b>>]
    BY <1>13 DEF FifoNames
  <2> QED
    BY <1>6, <1>13, <2>1 DEF SPoint, StoreNew, Forwarded, Crossed, Gathering
<1>15. StoreGoesOn(b, StoreNext(b, 1), tk2, sn)
  BY <1>2, <1>10, <1>14, StoreGoesDown
<1>16. StoreInv(b, l2, tk2, sn)
  BY <1>7, <1>8, <1>10, <1>15 DEF StoreGoesOn
<1>17. Past(sn, {}) = sn /\ DOMAIN Nothing = {} /\ {c} = Of({"posS"}, b)
  BY <1>12a, OneFifo, PastNone, NothingPut
<1>17a. StoreInv(b, st'[b], tk2, Past(sn, {}))
  BY <1>11, <1>16, <1>17
<1>18. {"posS"} \in SUBSET StoreFifos /\ {} \in SUBSET SentByStore(b)
  BY DEF StoreFifos
<1> QED
  BY <1>1, <1>5, <1>12, <1>17, <1>17a, <1>18, StoreDone DEF tk2

(* Store's own fields and phase, while it has a position. *)
LEMMA StoreWhere ==
  ASSUME NEW b \in Blocks, NEW tk, NEW sn, TileInv(tk, sn), st[b].pc # "pos"
  PROVE  /\ b \in Position /\ st[b] \in StoreStates /\ st \in [Blocks -> StoreStates] /\ AllHold(chan, tk, sn)
         /\ st[b].at = b /\ tk[<<"posS", b>>] = 1
         /\ st[b].pc \in {"frameRight", "frameDown", "headerRight", "headerDown"} => StoreFrameInv(b, st[b], tk, sn)
         /\ st[b].pc = "cross" => StoreCrossInv(b, st[b], tk, sn)
         /\ st[b].pc \in {"cHeader", "cPass", "emit"} => StoreCInv(b, st[b], tk, sn)
<1>1. /\ b \in Position /\ st[b] \in StoreStates /\ st \in [Blocks -> StoreStates] /\ AllHold(chan, tk, sn)
      /\ StoreInv(b, st[b], tk, sn)
  BY Constants DEF TileInv
<1>2. StoreBusy(b, st[b], tk, sn)
  BY <1>1 DEF StoreInv, StoreNew, StoreOver, StoreIdle
<1> QED
  BY <1>1, <1>2 DEF StoreBusy, StoreFrameInv, StoreCrossInv, StoreCInv

(* The words that store forwards: the last of them ends the group. *)
LEMMA ForwardedLast ==
  ASSUME NEW type \in FrameTypes, NEW b \in Position, HasGroup(type, b), NEW n, NEW k \in Nat,
         n = FrameWords(Count(type)) - FrameWords(Own(type, b) + 1), k < n
  PROVE  Word(Fwd(type, b), k + 1).last <=> k + 1 = n
<1>1. /\ FrameWords(Own(type, b) + 1) \in Nat /\ FrameWords(Count(type)) \in Nat
  <2>1. Own(type, b) \in Own(type, b) .. Count(type) - 1 /\ Count(type) \in Nat
    <3>1. b[1] \in 0 .. R - 1 /\ b[2] \in 0 .. S - 1 /\ R \in Nat /\ S \in Nat
      BY Places, Constants
    <3> QED
      BY <3>1 DEF Own, Count
  <2> QED
    BY <2>1, GroupFacts, Frames
<1>2. PICK j : j = FrameWords(Own(type, b) + 1) + (k + 1)
  OBVIOUS
<1>3. j \in 1 .. FrameWords(Count(type)) /\ (j = FrameWords(Count(type)) <=> k + 1 = n)
  BY <1>1, <1>2
<1>4. Transfer(type)[j].last = (j = FrameWords(Count(type)))
  BY <1>3, TransferLast
<1>5. Word(Fwd(type, b), k + 1) = Transfer(type)[j]
  BY <1>2, GroupFifoWords
<1> QED
  BY <1>3, <1>4, <1>5

LEMMA FrameRightStep ==
  ASSUME NEW b \in Blocks, NEW tk \in Counts, NEW sn \in Counts, TileInv(tk, sn),
         st[b].pc = "frameRight", StoreFrames(b)
  PROVE  StoreStep(b, tk, sn)
<1> DEFINE src == <<"fwdRight", b>>
           to == OutRight(b)
           w == Head(chan[src])
           k == tk[src]
           fr == FramesRight(b)
           tk2 == Past(tk, Of({"fwdRight"}, b))
           sn2 == Past(sn, {to})
<1>1. /\ Fire({src}, Put(to, w)) /\ (IF w.last THEN LeaveStore(b, "frameRight") ELSE UNCHANGED st)
      /\ UNCHANGED <<start, ld, cp>>
  BY DEF StoreFrames
<1>2. /\ b \in Position /\ AllHold(chan, tk, sn) /\ st \in [Blocks -> StoreStates]
      /\ st[b].at = b /\ tk[<<"posS", b>>] = 1 /\ StoreFrameInv(b, st[b], tk, sn)
  BY StoreWhere
<1>3. /\ Crossed(b, 0, 0, tk) /\ Gathering(b, 0, 0, tk) /\ st[b].nRight = 0 /\ st[b].nDown = 0
      /\ IsRow0(b) /\ k < fr /\ tk[<<"fwdDown", b>>] = 0 /\ sn[to] = k /\ sn[OutDown(b)] = 0
  BY <1>2 DEF StoreFrameInv
<1>4. "fwdRight" \in FifoNames /\ src \in Channels
  BY OwnChannels DEF FifoNames
<1>5. w = Word(src, k + 1) /\ k \in Nat /\ fr \in Nat
  BY <1>1, <1>2, <1>4, NextWord, FrameCounts DEF Fire
<1>6. w.last <=> k + 1 = fr
  <2>1. /\ "B_FRAME" \in FrameTypes /\ HasGroup("B_FRAME", b) /\ Fwd("B_FRAME", b) = src
        /\ fr = FrameWords(Count("B_FRAME")) - FrameWords(Own("B_FRAME", b) + 1)
    BY <1>3 DEF FrameTypes, HasGroup, Fwd, Count, Own, FramesRight
  <2> HIDE DEF w, src, fr, k
  <2> QED
    BY <1>2, <1>3, <1>5, <2>1, ForwardedLast
<1>7. w = Word(to, sn[to] + 1)
  <2>1. k + 1 \in 1 .. fr
    BY <1>3, <1>5
  <2>2. Word(to, k + 1) = Word(src, k + 1)
    BY <1>2, <1>3, <2>1, RightFrames
  <2> QED
    BY <1>3, <1>5, <2>2, Zenon
<1>8. /\ sn2[to] = k + 1 /\ sn2[OutDown(b)] = 0
  BY <1>3, StorePast
<1>9. /\ tk2[<<"fwdRight", b>>] = k + 1
      /\ \A g \in FifoNames \ {"fwdRight"} : tk2[<<g, b>>] = tk[<<g, b>>]
      /\ Of({"fwdRight"}, b) = {src}
  BY <1>4, OneFifo
<1>10. DOMAIN Put(to, w) = {to} /\ \A c \in {to} : Put(to, w)[c] = Word(c, sn[c] + 1)
  <2> HIDE DEF to, w
  <2> QED
    BY <1>7, NothingPut
<1>11. {"fwdRight"} \in SUBSET StoreFifos /\ {to} \in SUBSET SentByStore(b)
  BY DEF StoreFifos, SentByStore
<1> HIDE DEF tk2, sn2, w
<1>12. /\ tk2[<<"posS", b>>] = 1 /\ tk2[<<"fwdDown", b>>] = 0
       /\ Crossed(b, 0, 0, tk2) /\ Gathering(b, 0, 0, tk2)
  <2>1. /\ tk2[<<"posS", b>>] = tk[<<"posS", b>>] /\ tk2[<<"fwdDown", b>>] = tk[<<"fwdDown", b>>]
        /\ tk2[<<"xaOut", b>>] = tk[<<"xaOut", b>>] /\ tk2[<<"xbOut", b>>] = tk[<<"xbOut", b>>]
        /\ tk2[<<"cPass", b>>] = tk[<<"cPass", b>>] /\ tk2[<<"cMine", b>>] = tk[<<"cMine", b>>]
    BY <1>9 DEF FifoNames
  <2> QED
    BY <1>2, <1>3, <2>1 DEF Crossed, Gathering
<1>13. CASE w.last
  <2>1. k + 1 = fr
    BY <1>6, <1>13
  <2>2. SPoint(b, fr, 0, fr, 0, tk2, sn2)
    BY <1>8, <1>9, <1>12, <2>1 DEF SPoint, Forwarded
  <2>3. StoreGoesOn(b, StoreNext(b, 2), tk2, sn2)
    BY <1>2, <1>3, <2>2, StoreGoesDown
  <2>4. StoreNext(b, 2) \in StorePhaseNames /\ StoreNext(b, 2) = AfterStore(b, "frameRight")
    BY <1>2, StorePhases DEF StorePhaseNames
  <2>5. LeaveStore(b, "frameRight")
    BY <1>1, <1>13
  <2> HIDE DEF to, src
  <2> QED
    BY <1>1, <1>2, <1>9, <1>10, <1>11, <2>3, <2>4, <2>5, StorePasses DEF tk2, sn2
<1>14. CASE ~w.last
  <2>1. st' = st /\ k + 1 < fr
    BY <1>1, <1>3, <1>5, <1>6, <1>14
  <2>2. StoreFrameInv(b, st[b], tk2, sn2)
    BY <1>3, <1>8, <1>9, <1>12, <2>1 DEF StoreFrameInv
  <2>3. StoreInv(b, st'[b], tk2, sn2) /\ StoreMoves(b)
    BY <1>1, <1>2, <1>12, <2>1, <2>2 DEF StoreInv, StoreBusy, StoreMoves
  <2> HIDE DEF to, src
  <2> QED
    BY <1>1, <1>9, <1>10, <1>11, <2>3, StoreDone DEF tk2, sn2
<1> QED
  BY <1>13, <1>14

LEMMA FrameDownStep ==
  ASSUME NEW b \in Blocks, NEW tk \in Counts, NEW sn \in Counts, ~TAP, TileInv(tk, sn),
         st[b].pc = "frameDown", StoreFrames(b)
  PROVE  StoreStep(b, tk, sn)
<1> DEFINE src == <<"fwdDown", b>>
           to == OutDown(b)
           w == Head(chan[src])
           k == tk[src]
           fr == FramesRight(b)
           fd == FramesDown(b)
           tk2 == Past(tk, Of({"fwdDown"}, b))
           sn2 == Past(sn, {to})
<1>1. /\ Fire({src}, Put(to, w)) /\ (IF w.last THEN LeaveStore(b, "frameDown") ELSE UNCHANGED st)
      /\ UNCHANGED <<start, ld, cp>>
  BY DEF StoreFrames
<1>2. /\ b \in Position /\ AllHold(chan, tk, sn) /\ st \in [Blocks -> StoreStates]
      /\ st[b].at = b /\ tk[<<"posS", b>>] = 1 /\ StoreFrameInv(b, st[b], tk, sn)
  BY StoreWhere
<1>3. /\ Crossed(b, 0, 0, tk) /\ Gathering(b, 0, 0, tk) /\ st[b].nRight = 0 /\ st[b].nDown = 0
      /\ IsCol0(b) /\ k < fd /\ tk[<<"fwdRight", b>>] = fr /\ sn[to] = k /\ sn[OutRight(b)] = fr
  BY <1>2 DEF StoreFrameInv
<1>4. "fwdDown" \in FifoNames /\ src \in Channels
  BY OwnChannels DEF FifoNames
<1>5. w = Word(src, k + 1) /\ k \in Nat /\ fd \in Nat
  BY <1>1, <1>2, <1>4, NextWord, FrameCounts DEF Fire
<1>6. w.last <=> k + 1 = fd
  <2>1. /\ "A_FRAME" \in FrameTypes /\ HasGroup("A_FRAME", b) /\ Fwd("A_FRAME", b) = src
        /\ fd = FrameWords(Count("A_FRAME")) - FrameWords(Own("A_FRAME", b) + 1)
    BY <1>3 DEF FrameTypes, HasGroup, Fwd, Count, Own, FramesDown
  <2> HIDE DEF w, src, fd, k
  <2> QED
    BY <1>2, <1>3, <1>5, <2>1, ForwardedLast
<1>7. w = Word(to, sn[to] + 1)
  <2>1. k + 1 \in 1 .. fd
    BY <1>3, <1>5
  <2>2. Word(to, k + 1) = Word(src, k + 1)
    BY <1>2, <1>3, <2>1, DownFrames
  <2> QED
    BY <1>3, <1>5, <2>2, Zenon
<1>8. /\ sn2[to] = k + 1 /\ sn2[OutRight(b)] = fr
  BY <1>3, StorePast
<1>9. /\ tk2[<<"fwdDown", b>>] = k + 1
      /\ \A g \in FifoNames \ {"fwdDown"} : tk2[<<g, b>>] = tk[<<g, b>>]
      /\ Of({"fwdDown"}, b) = {src}
  BY <1>4, OneFifo
<1>10. DOMAIN Put(to, w) = {to} /\ \A c \in {to} : Put(to, w)[c] = Word(c, sn[c] + 1)
  <2> HIDE DEF to, w
  <2> QED
    BY <1>7, NothingPut
<1>11. {"fwdDown"} \in SUBSET StoreFifos /\ {to} \in SUBSET SentByStore(b)
  BY DEF StoreFifos, SentByStore
<1> HIDE DEF tk2, sn2, w
<1>12. /\ tk2[<<"posS", b>>] = 1 /\ tk2[<<"fwdRight", b>>] = fr
       /\ Crossed(b, 0, 0, tk2) /\ Gathering(b, 0, 0, tk2)
  <2>1. /\ tk2[<<"posS", b>>] = tk[<<"posS", b>>] /\ tk2[<<"fwdRight", b>>] = tk[<<"fwdRight", b>>]
        /\ tk2[<<"xaOut", b>>] = tk[<<"xaOut", b>>] /\ tk2[<<"xbOut", b>>] = tk[<<"xbOut", b>>]
        /\ tk2[<<"cPass", b>>] = tk[<<"cPass", b>>] /\ tk2[<<"cMine", b>>] = tk[<<"cMine", b>>]
    BY <1>9 DEF FifoNames
  <2> QED
    BY <1>2, <1>3, <2>1 DEF Crossed, Gathering
<1>13. CASE w.last
  <2>1. k + 1 = fd
    BY <1>6, <1>13
  <2>2. SPoint(b, fr, fd, fr, fd, tk2, sn2)
    BY <1>8, <1>9, <1>12, <2>1 DEF SPoint, Forwarded
  <2>3. StoreGoesOn(b, StoreNext(b, 3), tk2, sn2)
    BY <1>2, <1>3, <2>2, StoreGoesDown
  <2>4. StoreNext(b, 3) \in StorePhaseNames /\ StoreNext(b, 3) = AfterStore(b, "frameDown")
    BY <1>2, StorePhases DEF StorePhaseNames
  <2>5. LeaveStore(b, "frameDown")
    BY <1>1, <1>13
  <2> HIDE DEF to, src
  <2> QED
    BY <1>1, <1>2, <1>9, <1>10, <1>11, <2>3, <2>4, <2>5, StorePasses DEF tk2, sn2
<1>14. CASE ~w.last
  <2>1. st' = st /\ k + 1 < fd
    BY <1>1, <1>3, <1>5, <1>6, <1>14
  <2>2. StoreFrameInv(b, st[b], tk2, sn2)
    BY <1>3, <1>8, <1>9, <1>12, <2>1 DEF StoreFrameInv
  <2>3. StoreInv(b, st'[b], tk2, sn2) /\ StoreMoves(b)
    BY <1>1, <1>2, <1>12, <2>1, <2>2 DEF StoreInv, StoreBusy, StoreMoves
  <2> HIDE DEF to, src
  <2> QED
    BY <1>1, <1>9, <1>10, <1>11, <2>3, StoreDone DEF tk2, sn2
<1> QED
  BY <1>13, <1>14

LEMMA StoreHeadersStep ==
  ASSUME ~TAP, NEW b \in Blocks, NEW tk \in Counts, NEW sn \in Counts, TileInv(tk, sn), StoreHeaders(b)
  PROVE  StoreStep(b, tk, sn)
<1> DEFINE fr == FramesRight(b)
           fd == FramesDown(b)
           right == fr + (IF IsLastCol(b) THEN 0 ELSE 1)
           down == fd + (IF IsLastRow(b) THEN 0 ELSE 1)
<1>1. st[b].pc \in {"headerRight", "headerDown"} /\ UNCHANGED <<start, ld, cp>>
  BY DEF StoreHeaders
<1>2. /\ b \in Position /\ AllHold(chan, tk, sn) /\ st \in [Blocks -> StoreStates]
      /\ st[b].at = b /\ tk[<<"posS", b>>] = 1 /\ StoreFrameInv(b, st[b], tk, sn) /\ st[b].pc # "pos"
  BY <1>1, StoreWhere
<1>3. /\ Crossed(b, 0, 0, tk) /\ Gathering(b, 0, 0, tk) /\ st[b].nRight = 0 /\ st[b].nDown = 0
      /\ Forwarded(b, fr, fd, tk) /\ fr \in Nat /\ fd \in Nat
  BY <1>1, <1>2, FrameCounts DEF StoreFrameInv
<1>4. Of({}, b) = {} /\ Past(tk, Of({}, b)) = tk /\ {} \in SUBSET StoreFifos
  BY NoFifo
<1>5. CASE st[b].pc = "headerRight"
  <2> DEFINE to == OutRight(b)
             v == Header("A_CROSS", RightOf(b))
             sn2 == Past(sn, {to})
  <2>1. Fire({}, Put(to, v)) /\ LeaveStore(b, "headerRight")
    BY <1>2, <1>5 DEF StoreHeaders
  <2>2. ~IsLastCol(b) /\ sn[to] = fr /\ sn[OutDown(b)] = fd
    BY <1>2, <1>3, <1>5 DEF StoreFrameInv, SentRight, SentDown
  <2>3. v = Word(to, sn[to] + 1)
    <3>1. v = Word(to, fr + 1)
      BY <1>2, RightCrossing
    <3> QED
      BY <2>2, <3>1
  <2>4. sn2[to] = fr + 1 /\ sn2[OutDown(b)] = fd
    BY <2>2, StorePast
  <2>5. DOMAIN Put(to, v) = {to} /\ \A c \in {to} : Put(to, v)[c] = Word(c, sn[c] + 1)
    <3> HIDE DEF to, v
    <3> QED
      BY <2>3, NothingPut
  <2>6. {to} \in SUBSET SentByStore(b)
    BY DEF SentByStore
  <2> HIDE DEF sn2, v
  <2>7. SPoint(b, fr, fd, right, fd, tk, sn2)
    BY <1>2, <1>3, <2>2, <2>4 DEF SPoint
  <2>8. StoreGoesOn(b, StoreNext(b, 4), tk, sn2)
    BY <1>2, <1>3, <2>7, StoreGoesDown
  <2>9. StoreNext(b, 4) \in StorePhaseNames /\ StoreNext(b, 4) = AfterStore(b, "headerRight")
    BY <1>2, StorePhases DEF StorePhaseNames
  <2>10. StoreGoesOn(b, StoreNext(b, 4), Past(tk, Of({}, b)), sn2)
    BY <1>4, <2>8
  <2> HIDE DEF to
  <2> QED
    BY <1>1, <1>2, <1>4, <2>1, <2>5, <2>6, <2>9, <2>10, StorePasses DEF sn2
<1>6. CASE st[b].pc = "headerDown"
  <2> DEFINE to == OutDown(b)
             v == Header("B_CROSS", Below(b))
             sn2 == Past(sn, {to})
  <2>1. Fire({}, Put(to, v)) /\ LeaveStore(b, "headerDown")
    BY <1>2, <1>6 DEF StoreHeaders
  <2>2. ~IsLastRow(b) /\ sn[to] = fd /\ sn[OutRight(b)] = right
    BY <1>2, <1>3, <1>6 DEF StoreFrameInv, SentRight, SentDown
  <2>3. v = Word(to, sn[to] + 1)
    <3>1. v = Word(to, fd + 1)
      BY <1>2, <2>2, DownCrossing
    <3> QED
      BY <2>2, <3>1
  <2>4. sn2[to] = fd + 1 /\ sn2[OutRight(b)] = right
    BY <2>2, StorePast
  <2>5. DOMAIN Put(to, v) = {to} /\ \A c \in {to} : Put(to, v)[c] = Word(c, sn[c] + 1)
    <3> HIDE DEF to, v
    <3> QED
      BY <2>3, NothingPut
  <2>6. {to} \in SUBSET SentByStore(b)
    BY DEF SentByStore
  <2> HIDE DEF sn2, v
  <2>7. SPoint(b, fr, fd, right, down, tk, sn2)
    BY <1>2, <1>3, <2>2, <2>4 DEF SPoint
  <2>8. StoreGoesOn(b, StoreNext(b, 5), tk, sn2)
    BY <1>2, <1>3, <2>7, StoreGoesDown
  <2>9. StoreNext(b, 5) \in StorePhaseNames /\ StoreNext(b, 5) = AfterStore(b, "headerDown")
    BY <1>2, StorePhases DEF StorePhaseNames
  <2>10. StoreGoesOn(b, StoreNext(b, 5), Past(tk, Of({}, b)), sn2)
    BY <1>4, <2>8
  <2> HIDE DEF to
  <2> QED
    BY <1>1, <1>2, <1>4, <2>1, <2>5, <2>6, <2>9, <2>10, StorePasses DEF sn2
<1> QED
  BY <1>1, <1>5, <1>6

LEMMA PayloadGiven ==
  ASSUME NEW type, NEW p, NEW i, NEW x, NEW z
  PROVE  WithLast(Payload(type, p, i, x), z) = Payload(type, p, i, z)
<1>1. PICK h : h = FALSE
  OBVIOUS
<1>2. Payload(type, p, i, x) = Labelled(h, type, p, i, x) /\ Payload(type, p, i, z) = Labelled(h, type, p, i, z)
  BY <1>1, Zenon DEF Payload, Labelled
<1>3. WithLast(Labelled(h, type, p, i, x), z) = Labelled(h, type, p, i, z)
  BY LastGiven
<1> QED
  BY <1>2, <1>3, Zenon

LEMMA StoreCrossRightStep ==
  ASSUME NEW b \in Blocks, NEW tk \in Counts, NEW sn \in Counts, TileInv(tk, sn), StoreCrossRight(b)
  PROVE  StoreStep(b, tk, sn)
<1> DEFINE src == <<"xaOut", b>>
           to == OutRight(b)
           w == Head(chan[src])
           s == st[b]
           v == WithLast(w, s.nRight = STEPS - 1)
           tk2 == Past(tk, Of({"xaOut"}, b))
           sn2 == Past(sn, {to})
<1>1. s.pc = "cross" /\ UNCHANGED <<start, ld, cp>>
  BY DEF StoreCrossRight
<1>2. /\ b \in Position /\ AllHold(chan, tk, sn) /\ st \in [Blocks -> StoreStates] /\ s \in StoreStates
      /\ s.at = b /\ tk[<<"posS", b>>] = 1 /\ StoreCrossInv(b, s, tk, sn) /\ st[b].pc # "pos"
  BY <1>1, StoreWhere
<1>3. /\ ~IsLastCol(b) /\ s.nRight < STEPS /\ Fire({src}, Put(to, v))
      /\ IF StoreCrossDone(b, s.nRight + 1, s.nDown)
           THEN LeaveStore(b, "cross")
           ELSE st' = [st EXCEPT ![b].nRight = @ + 1]
  BY <1>2 DEF StoreCrossRight, WithLast
<1>4. /\ s.nRight \in 0 .. STEPS - 1 /\ s.nDown \in Nat /\ s.nDown <= STEPS /\ STEPS \in Nat
      /\ FramesRight(b) \in Nat /\ FramesDown(b) \in Nat
  BY <1>2, <1>3, Constants, FrameCounts DEF StoreStates, StoreCrossInv
<1>5. /\ Forwarded(b, FramesRight(b), FramesDown(b), tk)
      /\ Crossed(b, s.nRight, s.nDown, tk) /\ Gathering(b, 0, 0, tk)
      /\ SentRight(b, 1 + s.nRight, 0, sn) /\ SentDown(b, 1 + s.nDown, 0, sn)
  BY <1>2 DEF StoreCrossInv
<1>6. tk[src] = s.nRight /\ sn[to] = FramesRight(b) + 1 + s.nRight
  BY <1>3, <1>4, <1>5 DEF Crossed, SentRight
<1>7. "xaOut" \in FifoNames /\ src \in Channels
  BY OwnChannels DEF FifoNames
<1>8. w = Payload("A_CROSS", RightOf(b), s.nRight, FALSE)
  <2>1. w = Word(src, tk[src] + 1)
    BY <1>2, <1>3, <1>7, NextWord DEF Fire
  <2>2. PICK k : k = s.nRight + 1
    OBVIOUS
  <2>3. Word(src, k) = Payload("A_CROSS", RightOf(b), k - 1, FALSE)
    BY CrossFifoWords
  <2>4. k - 1 = s.nRight
    BY <1>4, <2>2
  <2> HIDE DEF w, s, src
  <2> QED
    BY <1>6, <2>1, <2>2, <2>3, <2>4
<1>9. v = Word(to, sn[to] + 1)
  <2>1. PICK z \in BOOLEAN : z = (s.nRight = STEPS - 1)
    OBVIOUS
  <2> HIDE DEF s
  <2>1a. PICK h, i : h = FALSE /\ i = s.nRight
    OBVIOUS
  <2>2. WithLast(Payload("A_CROSS", RightOf(b), i, h), z) = Payload("A_CROSS", RightOf(b), i, z)
    BY PayloadGiven
  <2>3. WithLast(w, z) = Payload("A_CROSS", RightOf(b), s.nRight, z)
    BY <1>8, <2>1a, <2>2, Zenon
  <2>4. v = Payload("A_CROSS", RightOf(b), s.nRight, z)
    BY <2>1, <2>3, Zenon
  <2>5. \A n \in 0 .. STEPS - 1 :
          Word(OutRight(b), FramesRight(b) + 2 + n) = Payload("A_CROSS", RightOf(b), n, n = STEPS - 1)
    BY <1>2, RightCrossing
  <2>6. Word(OutRight(b), FramesRight(b) + 2 + s.nRight) = Payload("A_CROSS", RightOf(b), s.nRight, s.nRight = STEPS - 1)
    BY <1>4, <2>5, Zenon
  <2>7. sn[to] + 1 = FramesRight(b) + 2 + s.nRight
    BY <1>4, <1>6
  <2> QED
    BY <2>1, <2>4, <2>6, <2>7, Zenon
<1>10. sn2[to] = sn[to] + 1 /\ sn2[OutDown(b)] = sn[OutDown(b)]
  BY StorePast
<1>11. /\ tk2[src] = tk[src] + 1
       /\ \A g \in FifoNames \ {"xaOut"} : tk2[<<g, b>>] = tk[<<g, b>>]
       /\ Of({"xaOut"}, b) = {src}
  BY <1>7, OneFifo
<1>12. DOMAIN Put(to, v) = {to} /\ \A c \in {to} : Put(to, v)[c] = Word(c, sn[c] + 1)
  <2> HIDE DEF to, v
  <2> QED
    BY <1>9, NothingPut
<1>13. {"xaOut"} \in SUBSET StoreFifos /\ {to} \in SUBSET SentByStore(b)
  BY DEF StoreFifos, SentByStore
<1> HIDE DEF tk2, sn2, w, v
<1>13a. Fire(Of({"xaOut"}, b), Put(to, v))
  BY <1>3, <1>11
<1>14. /\ tk2[<<"posS", b>>] = 1 /\ Forwarded(b, FramesRight(b), FramesDown(b), tk2)
       /\ Crossed(b, s.nRight + 1, s.nDown, tk2) /\ Gathering(b, 0, 0, tk2)
       /\ SentRight(b, 1 + s.nRight + 1, 0, sn2) /\ SentDown(b, 1 + s.nDown, 0, sn2)
  <2>1. /\ tk2[<<"posS", b>>] = tk[<<"posS", b>>]
        /\ tk2[<<"fwdRight", b>>] = tk[<<"fwdRight", b>>] /\ tk2[<<"fwdDown", b>>] = tk[<<"fwdDown", b>>]
        /\ tk2[<<"xbOut", b>>] = tk[<<"xbOut", b>>]
        /\ tk2[<<"cPass", b>>] = tk[<<"cPass", b>>] /\ tk2[<<"cMine", b>>] = tk[<<"cMine", b>>]
    BY <1>11 DEF FifoNames
  <2>2. Crossed(b, s.nRight + 1, s.nDown, tk2)
    BY <1>3, <1>5, <1>6, <1>11, <2>1 DEF Crossed
  <2>3. SentRight(b, 1 + s.nRight + 1, 0, sn2)
    BY <1>3, <1>4, <1>6, <1>10 DEF SentRight
  <2>4. SentDown(b, 1 + s.nDown, 0, sn2)
    BY <1>5, <1>10 DEF SentDown
  <2> QED
    BY <1>2, <1>5, <2>1, <2>2, <2>3, <2>4 DEF Forwarded, Gathering
<1>15. CASE StoreCrossDone(b, s.nRight + 1, s.nDown)
  <2>1. s.nRight + 1 = STEPS /\ (IsLastRow(b) \/ s.nDown = STEPS)
    BY <1>3, <1>15 DEF StoreCrossDone
  <2>2. SCTaken(b, 0, 0, tk2)
    BY <1>14, <2>1 DEF SCTaken, Crossed
  <2>3. SCSent(b, 0, sn2)
    BY <1>4, <1>14, <2>1 DEF SCSent, SentRight, SentDown
  <2>4. StoreGoesOn(b, "cHeader", tk2, sn2)
    BY <1>2, <2>2, <2>3, CStoreGoesOn
  <2>5. "cHeader" \in StorePhaseNames /\ "cHeader" = AfterStore(b, "cross") /\ LeaveStore(b, "cross")
    BY <1>2, <1>3, <1>15, StorePhases DEF StorePhaseNames
  <2> HIDE DEF to, src
  <2> QED
    BY <1>1, <1>2, <1>12, <1>13, <1>13a, <2>4, <2>5, StorePasses DEF tk2, sn2
<1>16. CASE ~StoreCrossDone(b, s.nRight + 1, s.nDown)
  <2> DEFINE l2 == [s EXCEPT !.nRight = @ + 1]
  <2>1. st' = [st EXCEPT ![b] = l2]
    BY <1>3, <1>16
  <2>2. PICK l \in StoreStates : l = s
    BY <1>2
  <2> HIDE DEF s
  <2>3. /\ l2 \in StoreStates /\ l2.pc = "cross" /\ l2.at = b
        /\ l2.nRight = s.nRight + 1 /\ l2.nDown = s.nDown
    BY <1>1, <1>2, <1>4, <2>2 DEF StoreStates
  <2> HIDE DEF l2
  <2>4. StoreCrossInv(b, l2, tk2, sn2)
    BY <1>4, <1>14, <1>16, <2>3 DEF StoreCrossInv, SentRight
  <2>5. st' \in [Blocks -> StoreStates] /\ st'[b] = l2 /\ \A a \in Blocks \ {b} : st'[a] = st[a]
    BY <1>2, <2>1, <2>3
  <2>6. StoreMoves(b) /\ StoreInv(b, st'[b], tk2, sn2)
    BY <1>1, <1>14, <2>3, <2>4, <2>5 DEF StoreMoves, StoreInv, StoreBusy
  <2> HIDE DEF to, src
  <2> QED
    BY <1>2, <1>12, <1>13, <1>13a, <2>6, StoreDone DEF tk2, sn2
<1> QED
  BY <1>15, <1>16

LEMMA StoreCrossDownStep ==
  ASSUME ~TAP, NEW b \in Blocks, NEW tk \in Counts, NEW sn \in Counts, TileInv(tk, sn), StoreCrossDown(b)
  PROVE  StoreStep(b, tk, sn)
<1> DEFINE src == <<"xbOut", b>>
           to == OutDown(b)
           w == Head(chan[src])
           s == st[b]
           v == WithLast(w, s.nDown = STEPS - 1)
           tk2 == Past(tk, Of({"xbOut"}, b))
           sn2 == Past(sn, {to})
<1>1. s.pc = "cross" /\ UNCHANGED <<start, ld, cp>>
  BY DEF StoreCrossDown
<1>2. /\ b \in Position /\ AllHold(chan, tk, sn) /\ st \in [Blocks -> StoreStates] /\ s \in StoreStates
      /\ s.at = b /\ tk[<<"posS", b>>] = 1 /\ StoreCrossInv(b, s, tk, sn) /\ st[b].pc # "pos"
  BY <1>1, StoreWhere
<1>3. /\ ~IsLastRow(b) /\ s.nDown < STEPS /\ Fire({src}, Put(to, v))
      /\ IF StoreCrossDone(b, s.nRight, s.nDown + 1)
           THEN LeaveStore(b, "cross")
           ELSE st' = [st EXCEPT ![b].nDown = @ + 1]
  BY <1>2 DEF StoreCrossDown, WithLast
<1>4. /\ s.nDown \in 0 .. STEPS - 1 /\ s.nRight \in Nat /\ s.nRight <= STEPS /\ STEPS \in Nat
      /\ FramesDown(b) \in Nat /\ FramesRight(b) \in Nat
  BY <1>2, <1>3, Constants, FrameCounts DEF StoreStates, StoreCrossInv
<1>5. /\ Forwarded(b, FramesRight(b), FramesDown(b), tk)
      /\ Crossed(b, s.nRight, s.nDown, tk) /\ Gathering(b, 0, 0, tk)
      /\ SentDown(b, 1 + s.nDown, 0, sn) /\ SentRight(b, 1 + s.nRight, 0, sn)
  BY <1>2 DEF StoreCrossInv
<1>6. tk[src] = s.nDown /\ sn[to] = FramesDown(b) + 1 + s.nDown
  BY <1>3, <1>4, <1>5 DEF Crossed, SentDown
<1>7. "xbOut" \in FifoNames /\ src \in Channels
  BY OwnChannels DEF FifoNames
<1>8. w = Payload("B_CROSS", Below(b), s.nDown, FALSE)
  <2>1. w = Word(src, tk[src] + 1)
    BY <1>2, <1>3, <1>7, NextWord DEF Fire
  <2>2. PICK k : k = s.nDown + 1
    OBVIOUS
  <2>3. Word(src, k) = Payload("B_CROSS", Below(b), k - 1, FALSE)
    BY CrossFifoWords
  <2>4. k - 1 = s.nDown
    BY <1>4, <2>2
  <2> HIDE DEF w, s, src
  <2> QED
    BY <1>6, <2>1, <2>2, <2>3, <2>4
<1>9. v = Word(to, sn[to] + 1)
  <2>1. PICK z \in BOOLEAN : z = (s.nDown = STEPS - 1)
    OBVIOUS
  <2> HIDE DEF s
  <2>1a. PICK h, i : h = FALSE /\ i = s.nDown
    OBVIOUS
  <2>2. WithLast(Payload("B_CROSS", Below(b), i, h), z) = Payload("B_CROSS", Below(b), i, z)
    BY PayloadGiven
  <2>3. WithLast(w, z) = Payload("B_CROSS", Below(b), s.nDown, z)
    BY <1>8, <2>1a, <2>2, Zenon
  <2>4. v = Payload("B_CROSS", Below(b), s.nDown, z)
    BY <2>1, <2>3, Zenon
  <2>5. \A n \in 0 .. STEPS - 1 :
          Word(OutDown(b), FramesDown(b) + 2 + n) = Payload("B_CROSS", Below(b), n, n = STEPS - 1)
    BY <1>2, <1>3, DownCrossing
  <2>6. Word(OutDown(b), FramesDown(b) + 2 + s.nDown) = Payload("B_CROSS", Below(b), s.nDown, s.nDown = STEPS - 1)
    BY <1>4, <2>5, Zenon
  <2>7. sn[to] + 1 = FramesDown(b) + 2 + s.nDown
    BY <1>4, <1>6
  <2> QED
    BY <2>1, <2>4, <2>6, <2>7, Zenon
<1>10. sn2[to] = sn[to] + 1 /\ sn2[OutRight(b)] = sn[OutRight(b)]
  BY StorePast
<1>11. /\ tk2[src] = tk[src] + 1
       /\ \A g \in FifoNames \ {"xbOut"} : tk2[<<g, b>>] = tk[<<g, b>>]
       /\ Of({"xbOut"}, b) = {src}
  BY <1>7, OneFifo
<1>12. DOMAIN Put(to, v) = {to} /\ \A c \in {to} : Put(to, v)[c] = Word(c, sn[c] + 1)
  <2> HIDE DEF to, v
  <2> QED
    BY <1>9, NothingPut
<1>13. {"xbOut"} \in SUBSET StoreFifos /\ {to} \in SUBSET SentByStore(b)
  BY DEF StoreFifos, SentByStore
<1> HIDE DEF tk2, sn2, w, v
<1>13a. Fire(Of({"xbOut"}, b), Put(to, v))
  BY <1>3, <1>11
<1>14. /\ tk2[<<"posS", b>>] = 1 /\ Forwarded(b, FramesRight(b), FramesDown(b), tk2)
       /\ Crossed(b, s.nRight, s.nDown + 1, tk2) /\ Gathering(b, 0, 0, tk2)
       /\ SentDown(b, 1 + s.nDown + 1, 0, sn2) /\ SentRight(b, 1 + s.nRight, 0, sn2)
  <2>1. /\ tk2[<<"posS", b>>] = tk[<<"posS", b>>]
        /\ tk2[<<"fwdRight", b>>] = tk[<<"fwdRight", b>>] /\ tk2[<<"fwdDown", b>>] = tk[<<"fwdDown", b>>]
        /\ tk2[<<"xaOut", b>>] = tk[<<"xaOut", b>>]
        /\ tk2[<<"cPass", b>>] = tk[<<"cPass", b>>] /\ tk2[<<"cMine", b>>] = tk[<<"cMine", b>>]
    BY <1>11 DEF FifoNames
  <2>2. Crossed(b, s.nRight, s.nDown + 1, tk2)
    BY <1>3, <1>5, <1>6, <1>11, <2>1 DEF Crossed
  <2>3. SentDown(b, 1 + s.nDown + 1, 0, sn2)
    BY <1>3, <1>4, <1>6, <1>10 DEF SentDown
  <2>4. SentRight(b, 1 + s.nRight, 0, sn2)
    BY <1>5, <1>10 DEF SentRight
  <2> QED
    BY <1>2, <1>5, <2>1, <2>2, <2>3, <2>4 DEF Forwarded, Gathering
<1>15. CASE StoreCrossDone(b, s.nRight, s.nDown + 1)
  <2>1. s.nDown + 1 = STEPS /\ (IsLastCol(b) \/ s.nRight = STEPS)
    BY <1>3, <1>15 DEF StoreCrossDone
  <2>2. SCTaken(b, 0, 0, tk2)
    BY <1>14, <2>1 DEF SCTaken, Crossed
  <2>3. SCSent(b, 0, sn2)
    BY <1>4, <1>14, <2>1 DEF SCSent, SentDown, SentRight
  <2>4. StoreGoesOn(b, "cHeader", tk2, sn2)
    BY <1>2, <2>2, <2>3, CStoreGoesOn
  <2>5. "cHeader" \in StorePhaseNames /\ "cHeader" = AfterStore(b, "cross") /\ LeaveStore(b, "cross")
    BY <1>2, <1>3, <1>15, StorePhases DEF StorePhaseNames
  <2> HIDE DEF to, src
  <2> QED
    BY <1>1, <1>2, <1>12, <1>13, <1>13a, <2>4, <2>5, StorePasses DEF tk2, sn2
<1>16. CASE ~StoreCrossDone(b, s.nRight, s.nDown + 1)
  <2> DEFINE l2 == [s EXCEPT !.nDown = @ + 1]
  <2>1. st' = [st EXCEPT ![b] = l2]
    BY <1>3, <1>16
  <2>2. PICK l \in StoreStates : l = s
    BY <1>2
  <2> HIDE DEF s
  <2>3. /\ l2 \in StoreStates /\ l2.pc = "cross" /\ l2.at = b
        /\ l2.nDown = s.nDown + 1 /\ l2.nRight = s.nRight
    BY <1>1, <1>2, <1>4, <2>2 DEF StoreStates
  <2> HIDE DEF l2
  <2>4. StoreCrossInv(b, l2, tk2, sn2)
    BY <1>4, <1>14, <1>16, <2>3 DEF StoreCrossInv, SentDown
  <2>5. st' \in [Blocks -> StoreStates] /\ st'[b] = l2 /\ \A a \in Blocks \ {b} : st'[a] = st[a]
    BY <1>2, <2>1, <2>3
  <2>6. StoreMoves(b) /\ StoreInv(b, st'[b], tk2, sn2)
    BY <1>1, <1>14, <2>3, <2>4, <2>5 DEF StoreMoves, StoreInv, StoreBusy
  <2> HIDE DEF to, src
  <2> QED
    BY <1>2, <1>12, <1>13, <1>13a, <2>6, StoreDone DEF tk2, sn2
<1> QED
  BY <1>15, <1>16

-----------------------------------------------------------------------------
(* The C phase of store: where it takes from and sends to. *)

LEMMA SCSends ==
  ASSUME NEW b \in Blocks, NEW sn \in Counts, NEW c \in Nat, SCSent(b, c, sn)
  PROVE  /\ sn[COf(b)] = CBefore(b) + c /\ CBefore(b) \in Nat /\ COf(b) \in Channels
         /\ SCSent(b, c + 1, Past(sn, {COf(b)})) /\ {COf(b)} \in SUBSET SentByStore(b)
<1>1. b \in Position /\ STEPS \in Nat /\ FramesRight(b) \in Nat /\ FramesDown(b) \in Nat
  BY Constants, FrameCounts
<1>2. CBefore(b) \in Nat
  BY <1>1 DEF CBefore
<1>3. /\ SentRight(b, 1 + STEPS, c, sn) /\ SentDown(b, 1 + STEPS, c, sn)
      /\ OutRight(b) # OutDown(b) /\ OutRight(b) \in Channels /\ OutDown(b) \in Channels
  BY StorePast DEF SCSent
<1>4. CASE IsLastCol(b)
  <2>1. /\ COf(b) = OutDown(b) /\ CBefore(b) = FramesDown(b) + (IF IsLastRow(b) THEN 0 ELSE 1 + STEPS)
        /\ sn[OutDown(b)] = CBefore(b) + c /\ sn[OutRight(b)] = FramesRight(b) + 0
    BY <1>3, <1>4 DEF COf, CBefore, SentRight, SentDown
  <2>2. Past(sn, {OutDown(b)})[OutDown(b)] = CBefore(b) + (c + 1) /\ Past(sn, {OutDown(b)})[OutRight(b)] = FramesRight(b) + 0
    BY <1>2, <1>3, <2>1, StorePast
  <2>3. SCSent(b, c + 1, Past(sn, {OutDown(b)}))
    BY <1>4, <2>1, <2>2 DEF SCSent, SentRight, SentDown
  <2> QED
    BY <1>2, <1>3, <2>1, <2>3 DEF SentByStore
<1>5. CASE ~IsLastCol(b)
  <2>1. /\ COf(b) = OutRight(b) /\ CBefore(b) = FramesRight(b) + 1 + STEPS
        /\ sn[OutRight(b)] = CBefore(b) + c
        /\ sn[OutDown(b)] = FramesDown(b) + (IF IsLastRow(b) THEN 0 ELSE 1 + STEPS) + 0
    BY <1>1, <1>3, <1>5 DEF COf, CBefore, SentRight, SentDown
  <2>2. /\ Past(sn, {OutRight(b)})[OutRight(b)] = FramesRight(b) + (1 + STEPS + (c + 1))
        /\ Past(sn, {OutRight(b)})[OutDown(b)] = sn[OutDown(b)]
    BY <1>1, <1>3, <2>1, StorePast
  <2>3. SCSent(b, c + 1, Past(sn, {OutRight(b)}))
    BY <1>5, <2>1, <2>2 DEF SCSent, SentRight, SentDown
  <2> QED
    BY <1>2, <1>3, <2>1, <2>3 DEF SentByStore
<1> QED
  BY <1>4, <1>5

LEMMA SCTakes ==
  ASSUME NEW b \in Blocks, NEW tk \in Counts, NEW pass, NEW mine, SCTaken(b, pass, mine, tk)
  PROVE  /\ SCTaken(b, pass + 1, mine, Past(tk, Of({"cPass"}, b)))
         /\ SCTaken(b, pass, mine + 1, Past(tk, Of({"cMine"}, b)))
         /\ tk[<<"cPass", b>>] = pass /\ tk[<<"cMine", b>>] = mine
<1>1. "cPass" \in FifoNames /\ "cMine" \in FifoNames
  BY DEF FifoNames
<1>2. PICK x : x = Past(tk, Of({"cPass"}, b))
  OBVIOUS
<1>3. PICK y : y = Past(tk, Of({"cMine"}, b))
  OBVIOUS
<1>4. x[<<"cPass", b>>] = tk[<<"cPass", b>>] + 1 /\ \A g \in FifoNames \ {"cPass"} : x[<<g, b>>] = tk[<<g, b>>]
  BY <1>1, <1>2, OneFifo
<1>5. y[<<"cMine", b>>] = tk[<<"cMine", b>>] + 1 /\ \A g \in FifoNames \ {"cMine"} : y[<<g, b>>] = tk[<<g, b>>]
  BY <1>1, <1>3, OneFifo
<1>6. /\ x[<<"posS", b>>] = tk[<<"posS", b>>] /\ x[<<"cMine", b>>] = tk[<<"cMine", b>>]
      /\ x[<<"fwdRight", b>>] = tk[<<"fwdRight", b>>] /\ x[<<"fwdDown", b>>] = tk[<<"fwdDown", b>>]
      /\ x[<<"xaOut", b>>] = tk[<<"xaOut", b>>] /\ x[<<"xbOut", b>>] = tk[<<"xbOut", b>>]
  BY <1>4 DEF FifoNames
<1>7. /\ y[<<"posS", b>>] = tk[<<"posS", b>>] /\ y[<<"cPass", b>>] = tk[<<"cPass", b>>]
      /\ y[<<"fwdRight", b>>] = tk[<<"fwdRight", b>>] /\ y[<<"fwdDown", b>>] = tk[<<"fwdDown", b>>]
      /\ y[<<"xaOut", b>>] = tk[<<"xaOut", b>>] /\ y[<<"xbOut", b>>] = tk[<<"xbOut", b>>]
  BY <1>5 DEF FifoNames
<1>8. tk[<<"cPass", b>>] = pass /\ tk[<<"cMine", b>>] = mine
  BY DEF SCTaken, Gathering
<1>9. SCTaken(b, pass + 1, mine, x)
  BY <1>4, <1>6, <1>8 DEF SCTaken, Gathering, Forwarded, Crossed
<1>10. SCTaken(b, pass, mine + 1, y)
  BY <1>5, <1>7, <1>8 DEF SCTaken, Gathering, Forwarded, Crossed
<1> QED
  BY <1>2, <1>3, <1>8, <1>9, <1>10

LEMMA StoreCHeaderStep ==
  ASSUME ~TAP, NEW b \in Blocks, NEW tk \in Counts, NEW sn \in Counts, TileInv(tk, sn), StoreCHeader(b)
  PROVE  StoreStep(b, tk, sn)
<1> DEFINE to == COf(b)
           v == Header("C_DATA", b)
           sn2 == Past(sn, {to})
<1>1. st[b].pc = "cHeader" /\ UNCHANGED <<start, ld, cp>>
  BY DEF StoreCHeader
<1>2. /\ b \in Position /\ st[b].at = b /\ tk[<<"posS", b>>] = 1 /\ StoreCInv(b, st[b], tk, sn) /\ st[b].pc # "pos"
  BY <1>1, StoreWhere
<1>3. Fire({}, Put(to, v)) /\ LeaveStore(b, "cHeader")
  BY <1>2 DEF StoreCHeader, COut, COf
<1>4. SCTaken(b, 0, 0, tk) /\ SCSent(b, 0, sn)
  BY <1>1, <1>2 DEF StoreCInv, SCTaken, SCSent
<1>5. 0 \in Nat /\ 0 + 1 = 1
  OBVIOUS
<1>6. sn[to] = CBefore(b) + 0 /\ CBefore(b) \in Nat /\ SCSent(b, 0 + 1, sn2) /\ {to} \in SUBSET SentByStore(b)
  BY <1>4, <1>5, SCSends
<1>7. v = Word(to, sn[to] + 1)
  BY <1>2, <1>6, CHeaderSent
<1>8. DOMAIN Put(to, v) = {to} /\ \A c \in {to} : Put(to, v)[c] = Word(c, sn[c] + 1)
  <2> HIDE DEF to, v
  <2> QED
    BY <1>7, NothingPut
<1> HIDE DEF to, v, sn2
<1>9. StoreGoesOn(b, AfterStore(b, "cHeader"), tk, sn2)
  <2>1. SCSent(b, 1, sn2)
    BY <1>5, <1>6
  <2> QED
    BY <1>2, <1>4, <2>1, CStoreGoesOn
<1>10. Of({}, b) = {} /\ Past(tk, Of({}, b)) = tk /\ {} \in SUBSET StoreFifos
  BY NoFifo
<1>11. StoreGoesOn(b, AfterStore(b, "cHeader"), Past(tk, Of({}, b)), sn2) /\ Fire(Of({}, b), Put(to, v))
  BY <1>3, <1>9, <1>10
<1>12. AfterStore(b, "cHeader") \in StorePhaseNames
  BY <1>2, StorePhases DEF StorePhaseNames
<1> QED
  BY <1>1, <1>2, <1>3, <1>6, <1>8, <1>10, <1>11, <1>12, StorePasses DEF sn2

LEMMA StorePassCStep ==
  ASSUME ~TAP, NEW b \in Blocks, NEW tk \in Counts, NEW sn \in Counts, TileInv(tk, sn), StorePassC(b)
  PROVE  StoreStep(b, tk, sn)
<1> DEFINE to == COf(b)
           src == <<"cPass", b>>
           w == Head(chan[src])
           v == NotLast(w)
           n == tk[src]
           tk2 == Past(tk, Of({"cPass"}, b))
           sn2 == Past(sn, {to})
<1>1. st[b].pc = "cPass" /\ UNCHANGED <<start, ld, cp>>
  BY DEF StorePassC
<1>2. /\ b \in Position /\ AllHold(chan, tk, sn) /\ st \in [Blocks -> StoreStates]
      /\ st[b].at = b /\ tk[<<"posS", b>>] = 1 /\ StoreCInv(b, st[b], tk, sn) /\ st[b].pc # "pos"
  BY <1>1, StoreWhere
<1>3. Fire({src}, Put(to, v)) /\ IF w.last THEN LeaveStore(b, "cPass") ELSE UNCHANGED st
  BY <1>2 DEF StorePassC, COut, COf, PassedOn, NotLast
<1>4. SCTaken(b, n, 0, tk) /\ SCSent(b, 1 + n, sn) /\ n < CPassed(b)
  BY <1>1, <1>2 DEF StoreCInv, SCTaken, SCSent, Gathering
<1>5. "cPass" \in FifoNames /\ src \in Channels
  BY OwnChannels DEF FifoNames
<1>6. w = Word(src, n + 1) /\ n \in Nat /\ CPassed(b) \in Nat /\ CBEAT \in Nat \ {0}
  BY <1>2, <1>3, <1>5, NextWord, CCounts, Beats DEF Fire
<1>7. /\ sn[to] = CBefore(b) + (1 + n) /\ CBefore(b) \in Nat /\ SCSent(b, (1 + n) + 1, sn2)
      /\ {to} \in SUBSET SentByStore(b)
  <2>1. 1 + n \in Nat
    BY <1>6
  <2> QED
    BY <1>4, <2>1, SCSends
<1>8. PICK x \in BOOLEAN, z \in BOOLEAN, k \in {CFirst(b) + (n + 1)} :
         x = (n + 1 = CPassed(b)) /\ z = FALSE /\ k = CFirst(b) + (n + 1)
  OBVIOUS
<1>9. w = CWord(k, x)
  <2>1. Word(<<"cPass", b>>, n + 1) = CWord(CFirst(b) + (n + 1), n + 1 = CPassed(b))
    BY CPassWords
  <2> QED
    BY <1>6, <1>8, <2>1, Zenon
<1>10. CWord(k, x).last = x /\ WithLast(CWord(k, x), z) = CWord(k, z)
  BY CWordGiven, Zenon
<1>11. w.last <=> n + 1 = CPassed(b)
  BY <1>8, <1>9, <1>10
<1>12. v = CWord(k, z)
  BY <1>8, <1>9, <1>10, Zenon DEF NotLast, WithLast
<1>13. v = Word(to, sn[to] + 1)
  <2>1. PICK m \in Nat \ {0} : m = n + 1
    BY <1>6
  <2>2. Word(COf(b), CBefore(b) + 1 + m) = CWord(CFirst(b) + m, m = CPassed(b) + CBEAT)
    BY <1>2, CBeatSent
  <2>3. sn[to] + 1 = CBefore(b) + 1 + m
    BY <1>6, <1>7, <2>1
  <2>4. z = (m = CPassed(b) + CBEAT)
    <3>1. m # CPassed(b) + CBEAT
      BY <1>4, <1>6, <2>1
    <3> QED
      BY <1>8, <3>1
  <2> QED
    BY <1>8, <1>12, <2>1, <2>2, <2>3, <2>4, Zenon
<1>14. DOMAIN Put(to, v) = {to} /\ \A c \in {to} : Put(to, v)[c] = Word(c, sn[c] + 1)
  <2> HIDE DEF to, v
  <2> QED
    BY <1>13, NothingPut
<1>15. SCTaken(b, n + 1, 0, tk2)
  BY <1>4, SCTakes
<1>16. Of({"cPass"}, b) = {src} /\ {"cPass"} \in SUBSET StoreFifos
  BY <1>5, OneFifo DEF StoreFifos
<1>17. Fire(Of({"cPass"}, b), Put(to, v))
  BY <1>3, <1>16
<1>18. tk2[src] = n + 1
  BY <1>5, OneFifo
<1> HIDE DEF to, v, w, tk2, sn2
<1>19. CASE n + 1 = CPassed(b)
  <2>1. SCTaken(b, CPassed(b), 0, tk2) /\ SCSent(b, 1 + CPassed(b), sn2)
    <3>1. (1 + n) + 1 = 1 + CPassed(b)
      BY <1>6, <1>19
    <3> QED
      BY <1>7, <1>15, <1>19, <3>1
  <2>2. StoreGoesOn(b, "emit", tk2, sn2)
    BY <1>2, <2>1, CStoreGoesOn
  <2>3. "emit" \in StorePhaseNames /\ "emit" = AfterStore(b, "cPass") /\ LeaveStore(b, "cPass")
    BY <1>2, <1>3, <1>11, <1>19, StorePhases DEF StorePhaseNames
  <2> HIDE DEF src
  <2> QED
    BY <1>1, <1>2, <1>7, <1>14, <1>16, <1>17, <2>2, <2>3, StorePasses DEF tk2, sn2
<1>20. CASE n + 1 # CPassed(b)
  <2>1. st' = st
    BY <1>3, <1>11, <1>20
  <2>2. n + 1 < CPassed(b)
    BY <1>4, <1>6, <1>20
  <2>3. SCSent(b, 1 + (n + 1), sn2)
    <3>1. (1 + n) + 1 = 1 + (n + 1)
      BY <1>6
    <3> QED
      BY <1>7, <3>1
  <2>4. StoreCInv(b, st[b], tk2, sn2) /\ tk2[<<"posS", b>>] = 1
    BY <1>1, <1>15, <1>18, <2>2, <2>3 DEF SCTaken, SCSent, StoreCInv, Gathering
  <2>5. StoreMoves(b) /\ StoreInv(b, st'[b], tk2, sn2)
    BY <1>1, <1>2, <2>1, <2>4 DEF StoreMoves, StoreInv, StoreBusy
  <2> HIDE DEF src
  <2> QED
    BY <1>2, <1>7, <1>14, <1>16, <1>17, <2>5, StoreDone DEF tk2, sn2
<1> QED
  BY <1>19, <1>20

(* The beat that APB accumulators make is the next one of C. *)
LEMMA EmittedBeat ==
  ASSUME ~TAP, NEW b \in Position, NEW n \in 0 .. ACCS - 1, BeatFull(n)
  PROVE  Word(COf(b), CBefore(b) + 1 + (CPassed(b) + n \div APB + 1))
           = Payload("C_DATA", b, n \div APB, n = ACCS - 1)
<1>1. PICK e \in 0 .. CBEAT - 1 : e = n \div APB /\ (n = ACCS - 1 <=> e = CBEAT - 1)
  BY EmitBeats
<1>2. CPassed(b) \in Nat /\ CFirst(b) \in Nat /\ CBEAT \in Nat \ {0}
      /\ CFirst(b) + CPassed(b) = CBeats(b[1] * S + b[2])
  BY CCounts, Beats
<1>3. PICK m \in Nat \ {0} : m = CPassed(b) + e + 1
  BY <1>1, <1>2
<1>4. PICK z \in BOOLEAN : z = (n = ACCS - 1)
  OBVIOUS
<1>5. z = (m = CPassed(b) + CBEAT)
  <2>1. n = ACCS - 1 <=> m = CPassed(b) + CBEAT
    BY <1>1, <1>2, <1>3
  <2> QED
    BY <1>4, <2>1
<1>6. Word(COf(b), CBefore(b) + 1 + m) = CWord(CFirst(b) + m, m = CPassed(b) + CBEAT)
  BY CBeatSent
<1>7. CFirst(b) + m = CBeats(b[1] * S + b[2]) + e + 1
  BY <1>1, <1>2, <1>3
<1>8. CWord(CBeats(b[1] * S + b[2]) + e + 1, z) = Payload("C_DATA", b, e, z)
  BY OwnBeats
<1> QED
  BY <1>1, <1>3, <1>4, <1>5, <1>6, <1>7, <1>8, Zenon

LEMMA EmitCStep ==
  ASSUME ~TAP, NEW b \in Blocks, NEW tk \in Counts, NEW sn \in Counts, TileInv(tk, sn), EmitC(b)
  PROVE  StoreStep(b, tk, sn)
<1> DEFINE to == COf(b)
           src == <<"cMine", b>>
           w == Head(chan[src])
           n == st[b].n
           e == n \div APB
           v == Payload("C_DATA", b, e, n = ACCS - 1)
           wr == IF BeatFull(n) THEN Put(to, v) ELSE Nothing
           sd == IF BeatFull(n) THEN {to} ELSE {}
           tk2 == Past(tk, Of({"cMine"}, b))
           sn2 == Past(sn, sd)
<1>1. st[b].pc = "emit" /\ UNCHANGED <<start, ld, cp>>
  BY DEF EmitC
<1>2. /\ b \in Position /\ AllHold(chan, tk, sn) /\ st \in [Blocks -> StoreStates]
      /\ st[b].at = b /\ tk[<<"posS", b>>] = 1 /\ StoreCInv(b, st[b], tk, sn) /\ st[b].pc # "pos"
  BY <1>1, StoreWhere
<1>3. SCTaken(b, CPassed(b), n, tk) /\ SCSent(b, 1 + CPassed(b) + e, sn) /\ n < ACCS /\ n \in Nat
  BY <1>1, <1>2 DEF StoreCInv, SCTaken, SCSent, StoreStates
<1>4. n \in 0 .. ACCS - 1 /\ e \in Nat /\ CPassed(b) \in Nat /\ ACCS \in Nat /\ CBEAT \in Nat \ {0}
  <2>1. n \in 0 .. ACCS - 1 /\ CPassed(b) \in Nat /\ ACCS \in Nat /\ CBEAT \in Nat \ {0}
    <3>1. ACCS \in Nat /\ CBEAT \in Nat \ {0} /\ CPassed(b) \in Nat
      BY <1>2, Constants, CCounts, Beats
    <3> HIDE DEF n
    <3> QED
      BY <1>3, <3>1
  <2>2. PICK i \in Nat : i = n
    BY <1>3
  <2>3. e \in Nat
    <3>1. PICK d \in Nat \ {0} : d = APB
      BY Constants
    <3>2. i \div d \in Nat
      BY SMT
    <3> QED
      BY <2>2, <3>1, <3>2
  <2> QED
    BY <2>1, <2>3
<1>5. "cMine" \in FifoNames /\ src \in Channels
  BY OwnChannels DEF FifoNames
<1>6. HasWord(src) /\ tk[src] = n
  <2>1. HasWord(src)
    BY DEF EmitC, Fire
  <2> QED
    BY <1>3, <2>1, SCTakes
<1>7. w.at = b /\ w.i = n
  <2>1. w = Word(src, n + 1)
    BY <1>2, <1>5, <1>6, NextWord
  <2>2. PICK k : k = n + 1
    OBVIOUS
  <2>3. Word(src, k) = Payload("C_DATA", b, k - 1, FALSE)
    BY CMineWords
  <2>4. k - 1 = n
    BY <1>3, <2>2
  <2> HIDE DEF src, w, n
  <2>5. w = Payload("C_DATA", b, n, FALSE)
    BY <2>1, <2>2, <2>3, <2>4
  <2> QED
    BY <2>5 DEF Payload
<1>8. Fire({src}, wr) /\ IF n = ACCS - 1 THEN LeaveStore(b, "emit") ELSE st' = [st EXCEPT ![b].n = @ + 1]
  BY <1>2, <1>7 DEF EmitC, COut, COf
<1> HIDE DEF w
<1>9. PICK c \in Nat : c = 1 + CPassed(b) + e
  BY <1>4
<1>10. /\ sn[to] = CBefore(b) + c /\ CBefore(b) \in Nat /\ {to} \in SUBSET SentByStore(b)
       /\ SCSent(b, c + 1, Past(sn, {to}))
  BY <1>3, <1>9, SCSends
<1>11. BeatFull(n) => v = Word(to, sn[to] + 1)
  <2> HAVE BeatFull(n)
  <2>1. Word(to, CBefore(b) + 1 + (CPassed(b) + e + 1)) = v
    <3> HIDE DEF n
    <3> QED
      BY <1>2, <1>4, EmittedBeat
  <2>2. sn[to] + 1 = CBefore(b) + 1 + (CPassed(b) + e + 1)
    BY <1>4, <1>9, <1>10
  <2> QED
    BY <2>1, <2>2, Zenon
<1>12. DOMAIN wr = sd /\ (\A d \in sd : wr[d] = Word(d, sn[d] + 1)) /\ sd \in SUBSET SentByStore(b)
  <2> HIDE DEF to, v, n
  <2>1. CASE BeatFull(n)
    BY <1>10, <1>11, <2>1, NothingPut
  <2>2. CASE ~BeatFull(n)
    BY <2>2, NothingPut
  <2> QED
    BY <2>1, <2>2
<1>13. SCSent(b, 1 + CPassed(b) + (n + 1) \div APB, sn2)
  <2> HIDE DEF n, to
  <2>1. CASE BeatFull(n)
    <3>1. (n + 1) \div APB = e + 1
      BY <1>4, <2>1, EmitBeats
    <3>2. c + 1 = 1 + CPassed(b) + (e + 1)
      BY <1>4, <1>9
    <3> HIDE DEF e
    <3> QED
      BY <1>10, <2>1, <3>1, <3>2
  <2>2. CASE ~BeatFull(n)
    <3>1. (n + 1) \div APB = e
      BY <1>4, <2>2, EmitBeats
    <3>2. sn2 = sn
      BY <2>2, PastNone
    <3> HIDE DEF e
    <3> QED
      BY <1>3, <3>1, <3>2
  <2> QED
    BY <2>1, <2>2
<1>14. SCTaken(b, CPassed(b), n + 1, tk2)
  BY <1>3, SCTakes
<1>15. Of({"cMine"}, b) = {src} /\ {"cMine"} \in SUBSET StoreFifos
  BY <1>5, OneFifo DEF StoreFifos
<1>16. Fire(Of({"cMine"}, b), wr)
  BY <1>8, <1>15
<1> HIDE DEF to, v, tk2, sn2, wr, sd, e
<1>17. CASE n = ACCS - 1
  <2>1. n + 1 = ACCS /\ ACCS \div APB = CBEAT
    BY <1>4, <1>17 DEF CBEAT
  <2>2. SCTaken(b, CPassed(b), ACCS, tk2) /\ SCSent(b, 1 + CPassed(b) + CBEAT, sn2)
    BY <1>13, <1>14, <2>1
  <2>3. StoreGoesOn(b, "pos", tk2, sn2)
    BY <1>2, <2>2, CStoreGoesOn
  <2>4. "pos" \in StorePhaseNames /\ "pos" = AfterStore(b, "emit") /\ LeaveStore(b, "emit")
    BY <1>2, <1>8, <1>17, StorePhases DEF StorePhaseNames
  <2> HIDE DEF src
  <2> QED
    BY <1>1, <1>2, <1>12, <1>15, <1>16, <2>3, <2>4, StorePasses DEF tk2, sn2
<1>18. CASE n # ACCS - 1
  <2> DEFINE l2 == [st[b] EXCEPT !.n = @ + 1]
  <2>1. st' = [st EXCEPT ![b] = l2]
    BY <1>8, <1>18
  <2>2. l2 \in StoreStates /\ l2.pc = "emit" /\ l2.at = b /\ l2.n = n + 1
    <3>1. PICK l \in StoreStates : l = st[b]
      BY <1>2
    <3> QED
      BY <1>1, <1>2, <3>1 DEF StoreStates
  <2> HIDE DEF l2
  <2>3. n + 1 < ACCS
    BY <1>4, <1>18
  <2> HIDE DEF n
  <2>4. StoreCInv(b, l2, tk2, sn2) /\ tk2[<<"posS", b>>] = 1
    BY <1>13, <1>14, <2>2, <2>3 DEF SCTaken, SCSent, StoreCInv
  <2>5. st' \in [Blocks -> StoreStates] /\ st'[b] = l2 /\ \A a \in Blocks \ {b} : st'[a] = st[a]
    BY <1>2, <2>1, <2>2
  <2>6. StoreMoves(b) /\ StoreInv(b, st'[b], tk2, sn2)
    BY <1>1, <2>2, <2>4, <2>5 DEF StoreMoves, StoreInv, StoreBusy
  <2> HIDE DEF src
  <2> QED
    BY <1>2, <1>12, <1>15, <1>16, <2>6, StoreDone DEF tk2, sn2
<1> QED
  BY <1>17, <1>18

(* With no broadcaster below, every step of store is a step of store on the counts. *)
LEMMA StoreIsStep ==
  ASSUME ~TAP, NEW b \in Blocks, NEW tk \in Counts, NEW sn \in Counts, TileInv(tk, sn), Store(b)
  PROVE  StoreStep(b, tk, sn)
<1>1. CASE StoreFrames(b)
  <2>1. st[b].pc \in {"frameRight", "frameDown"}
    BY <1>1 DEF StoreFrames
  <2> QED
    BY <1>1, <2>1, FrameRightStep, FrameDownStep
<1> QED
  BY <1>1, StorePosStep, StoreHeadersStep, StoreCrossRightStep, StoreCrossDownStep,
     StoreCHeaderStep, StorePassCStep, EmitCStep DEF Store

-----------------------------------------------------------------------------
(* A step of one block, on the counts: it changes that block's part of the  *)
(* history only, and the invariant of every block and channel holds on.     *)

ReadBy(b) == ReadByLoad(b) \cup ReadByCompute(b) \cup ReadByStore(b)
SentBy(b) == SentByLoad(b) \cup SentByCompute(b) \cup SentByStore(b)

TileStep(b, tk, sn, rd, sd) ==
  /\ rd \in SUBSET ReadBy(b) /\ sd \in SUBSET SentBy(b)
  /\ TileInv(Past(tk, rd), Past(sn, sd))'
  /\ \A a \in Blocks \ {b} : /\ start'[a] = start[a] /\ ld'[a] = ld[a]
                             /\ cp'[a] = cp[a] /\ st'[a] = st[a]
  /\ \/ start' = start /\ ld' = ld /\ Past(sn, sd)[<<"posC", b>>] = sn[<<"posC", b>>]
     \/ /\ start[b] \/ ld[b].pc # "idle"
        /\ IF ld'[b].pc = "idle" THEN ~start'[b] /\ Past(sn, sd)[<<"posC", b>>] = 1
                                 ELSE start'[b] = start[b]

LEMMA PastSame ==
  ASSUME NEW n \in Counts, NEW cs \in SUBSET Channels, NEW d, cs \cap d = {}
  PROVE  \A c \in cs : Past(n, d)[c] = n[c]
BY PastCounts

LEMMA PastUnconnected ==
  ASSUME ~TAP, NEW b \in Blocks, NEW sn \in Counts, NEW sd \in SUBSET SentBy(b), Unconnected(sn)
  PROVE  Unconnected(Past(sn, sd))
<1> SUFFICES ASSUME NEW p \in Blocks
             PROVE  /\ IsCol0(p) /\ ~IsRow0(p) => Past(sn, sd)[InLeft(p)] = 0
                    /\ IsRow0(p) => Past(sn, sd)[InUp(p)] = 0
  BY DEF Unconnected
<1>1. b \in Position /\ p \in Position
  BY Constants
<1>2. ~IsCol0(RightOf(b)) /\ ~IsRow0(Below(b))
  BY <1>1, Neighbours
<1>3. \A c \in SentByLoad(b) \cup SentByCompute(b) : c[1] \in FifoNames
  BY DEF SentByLoad, SentByCompute, LoadFifos, FifoNames
<1>4. InLeft(p)[1] \notin FifoNames /\ InUp(p)[1] \notin FifoNames
  BY DEF InLeft, InUp, FifoNames
<1>5. SentByStore(b) = {InLeft(RightOf(b)), InUp(Below(b))}
  BY DEF SentByStore, OutRight, OutDown
<1>6. InLeft(p) \in Channels /\ InUp(p) \in Channels
  BY OwnChannels DEF ReadByLoad
<1>7. ASSUME IsCol0(p)
      PROVE  InLeft(p) \notin sd
  <2>1. InLeft(p) # InLeft(RightOf(b)) /\ InLeft(p) # InUp(Below(b))
    BY <1>2, <1>7 DEF InLeft, InUp
  <2> QED
    BY <1>3, <1>4, <1>5, <2>1 DEF SentBy
<1>8. ASSUME IsRow0(p)
      PROVE  InUp(p) \notin sd
  <2>1. InUp(p) # InLeft(RightOf(b)) /\ InUp(p) # InUp(Below(b))
    BY <1>2, <1>8 DEF InLeft, InUp
  <2> QED
    BY <1>3, <1>4, <1>5, <2>1 DEF SentBy
<1> QED
  BY <1>6, <1>7, <1>8, PastCounts DEF Unconnected

LEMMA LoadKept ==
  ASSUME NEW a \in Blocks, NEW l, NEW tk \in Counts, NEW sn \in Counts, NEW rd, NEW sd,
         ReadByLoad(a) \cap rd = {}, SentByLoad(a) \cap sd = {}, LoadInv(a, l, tk, sn)
  PROVE  LoadInv(a, l, Past(tk, rd), Past(sn, sd))
<1>1. \A c \in ReadByLoad(a) : Past(tk, rd)[c] = tk[c]
  BY OwnChannels, PastSame
<1>2. \A c \in SentByLoad(a) : Past(sn, sd)[c] = sn[c]
  BY OwnChannels, PastSame
<1> QED
  BY <1>1, <1>2, LoadSame

LEMMA ComputeKept ==
  ASSUME NEW a \in Blocks, NEW l, NEW tk \in Counts, NEW sn \in Counts, NEW rd, NEW sd,
         ReadByCompute(a) \cap rd = {}, SentByCompute(a) \cap sd = {}, ComputeInv(a, l, tk, sn)
  PROVE  ComputeInv(a, l, Past(tk, rd), Past(sn, sd))
<1>1. \A c \in ReadByCompute(a) : Past(tk, rd)[c] = tk[c]
  BY OwnChannels, PastSame
<1>2. \A c \in SentByCompute(a) : Past(sn, sd)[c] = sn[c]
  BY OwnChannels, PastSame
<1> QED
  BY <1>1, <1>2, ComputeSame

LEMMA StoreKept ==
  ASSUME NEW a \in Blocks, NEW l, NEW tk \in Counts, NEW sn \in Counts, NEW rd, NEW sd,
         ReadByStore(a) \cap rd = {}, SentByStore(a) \cap sd = {}, StoreInv(a, l, tk, sn)
  PROVE  StoreInv(a, l, Past(tk, rd), Past(sn, sd))
<1>1. \A c \in ReadByStore(a) : Past(tk, rd)[c] = tk[c]
  BY OwnChannels, PastSame
<1>2. \A c \in SentByStore(a) : Past(sn, sd)[c] = sn[c]
  BY OwnChannels, PastSame
<1> QED
  BY <1>1, <1>2, StoreSame

LEMMA LoadKeeps ==
  ASSUME ~TAP, NEW b \in Blocks, NEW tk \in Counts, NEW sn \in Counts, TileInv(tk, sn), LoadStep(b, tk, sn), Load(b)
  PROVE  \E rd, sd : TileStep(b, tk, sn, rd, sd)
<1>1. PICK rd \in SUBSET ReadByLoad(b), sd \in SUBSET SentByLoad(b) :
        /\ AllHold(chan', Past(tk, rd), Past(sn, sd))
        /\ LoadInv(b, ld'[b], Past(tk, rd), Past(sn, sd)) /\ LoadMoves(b)
        /\ IF ld'[b].pc = "idle" THEN ~start'[b] /\ Past(sn, sd)[<<"posC", b>>] = 1
                                 ELSE start'[b] = start[b]
  BY DEF LoadStep
<1> DEFINE tk2 == Past(tk, rd)
           sn2 == Past(sn, sd)
<1>2. rd \in SUBSET ReadBy(b) /\ sd \in SUBSET SentBy(b)
  BY DEF ReadBy, SentBy
<1>3. Unconnected(sn2)
  BY <1>2, PastUnconnected DEF TileInv
<1>4. ASSUME NEW a \in Blocks
      PROVE  /\ (ReadByCompute(a) \cup ReadByStore(a)) \cap rd = {}
             /\ (SentByCompute(a) \cup SentByStore(a)) \cap sd = {}
             /\ a # b => ReadByLoad(a) \cap rd = {} /\ SentByLoad(a) \cap sd = {}
  BY Apart
<1>5. ASSUME NEW a \in Blocks
      PROVE  LoadInv(a, ld'[a], tk2, sn2) /\ ComputeInv(a, cp'[a], tk2, sn2) /\ StoreInv(a, st'[a], tk2, sn2)
  <2>1. LoadInv(a, ld[a], tk, sn) /\ ComputeInv(a, cp[a], tk, sn) /\ StoreInv(a, st[a], tk, sn)
    BY DEF TileInv
  <2>2. cp'[a] = cp[a] /\ st'[a] = st[a] /\ (a # b => ld'[a] = ld[a])
    BY <1>1 DEF LoadMoves
  <2>3. ComputeInv(a, cp'[a], Past(tk, rd), Past(sn, sd))
    BY <1>4, <2>1, <2>2, ComputeKept
  <2>4. StoreInv(a, st'[a], Past(tk, rd), Past(sn, sd))
    BY <1>4, <2>1, <2>2, StoreKept
  <2>5. a # b => LoadInv(a, ld'[a], Past(tk, rd), Past(sn, sd))
    BY <1>4, <2>1, <2>2, LoadKept
  <2> QED
    BY <1>1, <2>3, <2>4, <2>5
<1>6. ASSUME NEW a \in Blocks, start'[a], ld'[a].pc = "idle"
      PROVE  sn2[<<"posC", a>>] = 0
  <2>1. a # b
    BY <1>1, <1>6
  <2>2. start'[a] = start[a] /\ ld'[a] = ld[a]
    BY <1>1, <2>1 DEF LoadMoves
  <2>3. <<"posC", a>> \in SentByLoad(a) /\ <<"posC", a>> \in Channels
    BY OwnChannels DEF SentByLoad, LoadFifos
  <2>4. <<"posC", a>> \notin sd
    BY <1>4, <2>1, <2>3
  <2>5. sn2[<<"posC", a>>] = sn[<<"posC", a>>]
    BY <2>3, <2>4, PastCounts
  <2> QED
    BY <1>6, <2>2, <2>5 DEF TileInv
<1>7. TileInv(tk2, sn2)'
  <2>1. /\ start' \in [Blocks -> BOOLEAN] /\ ld' \in [Blocks -> LoadStates]
        /\ cp' \in [Blocks -> ComputeStates] /\ st' \in [Blocks -> StoreStates]
    BY <1>1 DEF LoadMoves, TileInv
  <2>2. AllHold(chan', tk2, sn2)
    BY <1>1
  <2> HIDE DEF tk2, sn2
  <2> QED
    BY <1>3, <1>5, <1>6, <2>1, <2>2 DEF TileInv
<1>8. \A a \in Blocks \ {b} : start'[a] = start[a] /\ ld'[a] = ld[a] /\ cp'[a] = cp[a] /\ st'[a] = st[a]
  BY <1>1 DEF LoadMoves
<1>9. start[b] \/ ld[b].pc # "idle"
  BY DEF Load, LoadStart, Pick, SendPos, GroupHeader, ForwardHeader, FramePayload,
         CrossHeaders, CrossLeft, CrossUp, DropCHeader, PassC
<1>10. TileStep(b, tk, sn, rd, sd)
  BY <1>1, <1>2, <1>7, <1>8, <1>9 DEF TileStep
<1> QED
  BY <1>10

LEMMA ComputeKeeps ==
  ASSUME ~TAP, NEW b \in Blocks, NEW tk \in Counts, NEW sn \in Counts, TileInv(tk, sn), ComputeStep(b, tk, sn)
  PROVE  \E rd, sd : TileStep(b, tk, sn, rd, sd)
<1>1. PICK rd \in SUBSET ReadByCompute(b), sd \in SUBSET SentByCompute(b) :
        /\ AllHold(chan', Past(tk, rd), Past(sn, sd))
        /\ ComputeInv(b, cp'[b], Past(tk, rd), Past(sn, sd)) /\ ComputeMoves(b)
  BY DEF ComputeStep
<1> DEFINE tk2 == Past(tk, rd)
           sn2 == Past(sn, sd)
<1>2. rd \in SUBSET ReadBy(b) /\ sd \in SUBSET SentBy(b)
  BY DEF ReadBy, SentBy
<1>3. Unconnected(sn2)
  BY <1>2, PastUnconnected DEF TileInv
<1>4. ASSUME NEW a \in Blocks
      PROVE  /\ (ReadByLoad(a) \cup ReadByStore(a)) \cap rd = {}
             /\ (SentByLoad(a) \cup SentByStore(a)) \cap sd = {}
             /\ a # b => ReadByCompute(a) \cap rd = {} /\ SentByCompute(a) \cap sd = {}
  <2>1. /\ (ReadByLoad(a) \cup ReadByStore(a)) \cap ReadByCompute(b) = {}
        /\ (SentByLoad(a) \cup SentByStore(a)) \cap SentByCompute(b) = {}
    BY Apart
  <2>2. a # b => ReadByCompute(a) \cap ReadByCompute(b) = {} /\ SentByCompute(a) \cap SentByCompute(b) = {}
    BY Apart
  <2> QED
    BY <2>1, <2>2
<1>5. ASSUME NEW a \in Blocks
      PROVE  LoadInv(a, ld'[a], tk2, sn2) /\ ComputeInv(a, cp'[a], tk2, sn2) /\ StoreInv(a, st'[a], tk2, sn2)
  <2>1. LoadInv(a, ld[a], tk, sn) /\ ComputeInv(a, cp[a], tk, sn) /\ StoreInv(a, st[a], tk, sn)
    BY DEF TileInv
  <2>2. ld'[a] = ld[a] /\ st'[a] = st[a] /\ (a # b => cp'[a] = cp[a])
    BY <1>1 DEF ComputeMoves
  <2>3. LoadInv(a, ld'[a], Past(tk, rd), Past(sn, sd))
    BY <1>4, <2>1, <2>2, LoadKept
  <2>4. StoreInv(a, st'[a], Past(tk, rd), Past(sn, sd))
    BY <1>4, <2>1, <2>2, StoreKept
  <2>5. a # b => ComputeInv(a, cp'[a], Past(tk, rd), Past(sn, sd))
    BY <1>4, <2>1, <2>2, ComputeKept
  <2> QED
    BY <1>1, <2>3, <2>4, <2>5
<1>6. ASSUME NEW a \in Blocks
      PROVE  sn2[<<"posC", a>>] = sn[<<"posC", a>>]
  <2>1. <<"posC", a>> \in SentByLoad(a) /\ <<"posC", a>> \in Channels
    BY OwnChannels DEF SentByLoad, LoadFifos
  <2>2. <<"posC", a>> \notin sd
    BY <1>4, <2>1
  <2> QED
    BY <2>1, <2>2, PastCounts
<1>7. TileInv(tk2, sn2)'
  <2>1. /\ start' \in [Blocks -> BOOLEAN] /\ ld' \in [Blocks -> LoadStates]
        /\ cp' \in [Blocks -> ComputeStates] /\ st' \in [Blocks -> StoreStates]
    BY <1>1 DEF ComputeMoves, TileInv
  <2>2. AllHold(chan', tk2, sn2)
    BY <1>1
  <2>3. \A a \in Blocks : start'[a] /\ ld'[a].pc = "idle" => sn2[<<"posC", a>>] = 0
    BY <1>1, <1>6 DEF ComputeMoves, TileInv
  <2> HIDE DEF tk2, sn2
  <2> QED
    BY <1>3, <1>5, <2>1, <2>2, <2>3 DEF TileInv
<1>8. \A a \in Blocks \ {b} : start'[a] = start[a] /\ ld'[a] = ld[a] /\ cp'[a] = cp[a] /\ st'[a] = st[a]
  BY <1>1 DEF ComputeMoves
<1>9. start' = start /\ ld' = ld /\ Past(sn, sd)[<<"posC", b>>] = sn[<<"posC", b>>]
  BY <1>1, <1>6 DEF ComputeMoves
<1>10. TileStep(b, tk, sn, rd, sd)
  BY <1>1, <1>2, <1>7, <1>8, <1>9 DEF TileStep
<1> QED
  BY <1>10

LEMMA StoreKeeps ==
  ASSUME ~TAP, NEW b \in Blocks, NEW tk \in Counts, NEW sn \in Counts, TileInv(tk, sn), StoreStep(b, tk, sn)
  PROVE  \E rd, sd : TileStep(b, tk, sn, rd, sd)
<1>1. PICK rd \in SUBSET ReadByStore(b), sd \in SUBSET SentByStore(b) :
        /\ AllHold(chan', Past(tk, rd), Past(sn, sd))
        /\ StoreInv(b, st'[b], Past(tk, rd), Past(sn, sd)) /\ StoreMoves(b)
  BY DEF StoreStep
<1> DEFINE tk2 == Past(tk, rd)
           sn2 == Past(sn, sd)
<1>2. rd \in SUBSET ReadBy(b) /\ sd \in SUBSET SentBy(b)
  BY DEF ReadBy, SentBy
<1>3. Unconnected(sn2)
  BY <1>2, PastUnconnected DEF TileInv
<1>4. ASSUME NEW a \in Blocks
      PROVE  /\ (ReadByLoad(a) \cup ReadByCompute(a)) \cap rd = {}
             /\ (SentByLoad(a) \cup SentByCompute(a)) \cap sd = {}
             /\ a # b => ReadByStore(a) \cap rd = {} /\ SentByStore(a) \cap sd = {}
  <2>1. /\ (ReadByLoad(a) \cup ReadByCompute(a)) \cap ReadByStore(b) = {}
        /\ (SentByLoad(a) \cup SentByCompute(a)) \cap SentByStore(b) = {}
    BY Apart
  <2>2. a # b => ReadByStore(a) \cap ReadByStore(b) = {} /\ SentByStore(a) \cap SentByStore(b) = {}
    BY Apart
  <2> QED
    BY <2>1, <2>2
<1>5. ASSUME NEW a \in Blocks
      PROVE  LoadInv(a, ld'[a], tk2, sn2) /\ ComputeInv(a, cp'[a], tk2, sn2) /\ StoreInv(a, st'[a], tk2, sn2)
  <2>1. LoadInv(a, ld[a], tk, sn) /\ ComputeInv(a, cp[a], tk, sn) /\ StoreInv(a, st[a], tk, sn)
    BY DEF TileInv
  <2>2. ld'[a] = ld[a] /\ cp'[a] = cp[a] /\ (a # b => st'[a] = st[a])
    BY <1>1 DEF StoreMoves
  <2>3. LoadInv(a, ld'[a], Past(tk, rd), Past(sn, sd))
    BY <1>4, <2>1, <2>2, LoadKept
  <2>4. ComputeInv(a, cp'[a], Past(tk, rd), Past(sn, sd))
    BY <1>4, <2>1, <2>2, ComputeKept
  <2>5. a # b => StoreInv(a, st'[a], Past(tk, rd), Past(sn, sd))
    BY <1>4, <2>1, <2>2, StoreKept
  <2> QED
    BY <1>1, <2>3, <2>4, <2>5
<1>6. ASSUME NEW a \in Blocks
      PROVE  sn2[<<"posC", a>>] = sn[<<"posC", a>>]
  <2>1. <<"posC", a>> \in SentByLoad(a) /\ <<"posC", a>> \in Channels
    BY OwnChannels DEF SentByLoad, LoadFifos
  <2>2. <<"posC", a>> \notin sd
    BY <1>4, <2>1
  <2> QED
    BY <2>1, <2>2, PastCounts
<1>7. TileInv(tk2, sn2)'
  <2>1. /\ start' \in [Blocks -> BOOLEAN] /\ ld' \in [Blocks -> LoadStates]
        /\ cp' \in [Blocks -> ComputeStates] /\ st' \in [Blocks -> StoreStates]
    BY <1>1 DEF StoreMoves, TileInv
  <2>2. AllHold(chan', tk2, sn2)
    BY <1>1
  <2>3. \A a \in Blocks : start'[a] /\ ld'[a].pc = "idle" => sn2[<<"posC", a>>] = 0
    BY <1>1, <1>6 DEF StoreMoves, TileInv
  <2> HIDE DEF tk2, sn2
  <2> QED
    BY <1>3, <1>5, <2>1, <2>2, <2>3 DEF TileInv
<1>8. \A a \in Blocks \ {b} : start'[a] = start[a] /\ ld'[a] = ld[a] /\ cp'[a] = cp[a] /\ st'[a] = st[a]
  BY <1>1 DEF StoreMoves
<1>9. start' = start /\ ld' = ld /\ Past(sn, sd)[<<"posC", b>>] = sn[<<"posC", b>>]
  BY <1>1, <1>6 DEF StoreMoves
<1>10. TileStep(b, tk, sn, rd, sd)
  BY <1>1, <1>2, <1>7, <1>8, <1>9 DEF TileStep
<1> QED
  BY <1>10

(* Over: block b has done the whole of the tile. *)
Over(b, tk, sn) ==
  LoadOver(b, ld[b], tk, sn) /\ ComputeOver(b, cp[b], tk, sn) /\ StoreOver(b, st[b], tk, sn)

LEMMA BlockKeeps ==
  ASSUME ~TAP, NEW b \in Blocks, NEW tk \in Counts, NEW sn \in Counts, TileInv(tk, sn), Block(b)
  PROVE  \E rd, sd : TileStep(b, tk, sn, rd, sd)
BY LoadIsStep, ComputeIsStep, StoreIsStep, LoadKeeps, ComputeKeeps, StoreKeeps DEF Block

LEMMA OverRests ==
  ASSUME ~TAP, NEW b \in Blocks, NEW tk \in Counts, NEW sn \in Counts, TileInv(tk, sn), Block(b)
  PROVE  ~Over(b, tk, sn)
<1> SUFFICES ASSUME Over(b, tk, sn)
             PROVE  FALSE
  OBVIOUS
<1>1. /\ ld[b] = LoadIdle /\ cp[b] = ComputeIdle /\ st[b] = StoreIdle
      /\ sn[<<"posC", b>>] = 1 /\ tk[<<"posC", b>>] = 1 /\ tk[<<"posS", b>>] = 1
  BY DEF Over, LoadOver, ComputeOver, StoreOver
<1>2. ld[b].pc = "idle" /\ cp[b].pc = "pos" /\ st[b].pc = "pos"
  BY <1>1 DEF LoadIdle, ComputeIdle, StoreIdle
<1>3. ~Load(b)
  <2>1. ~start[b]
    BY <1>1, <1>2 DEF TileInv
  <2> QED
    BY <1>2, <2>1 DEF Load, LoadStart, Pick, SendPos, GroupHeader, ForwardHeader, FramePayload,
                      CrossHeaders, CrossLeft, CrossUp, DropCHeader, PassC
<1>4. ~Compute(b)
  BY <1>1, <1>2, ComputeIsStep DEF ComputeStep
<1>5. ~Store(b)
  BY <1>1, <1>2, StoreIsStep DEF StoreStep
<1> QED
  BY <1>3, <1>4, <1>5 DEF Block
-----------------------------------------------------------------------------

LEMMA OverSame ==
  ASSUME NEW b \in Blocks, NEW tk \in Counts, NEW sn \in Counts, NEW tk2 \in Counts, NEW sn2 \in Counts,
         \A c \in ReadBy(b) : tk2[c] = tk[c], \A c \in SentBy(b) : sn2[c] = sn[c]
  PROVE  /\ \A l : LoadOver(b, l, tk, sn) <=> LoadOver(b, l, tk2, sn2)
         /\ \A l : ComputeOver(b, l, tk, sn) <=> ComputeOver(b, l, tk2, sn2)
         /\ \A l : StoreOver(b, l, tk, sn) <=> StoreOver(b, l, tk2, sn2)
<1>1. /\ tk2[InLeft(b)] = tk[InLeft(b)] /\ tk2[InUp(b)] = tk[InUp(b)]
      /\ sn2[OutRight(b)] = sn[OutRight(b)] /\ sn2[OutDown(b)] = sn[OutDown(b)]
  BY DEF ReadBy, SentBy, ReadByLoad, SentByStore
<1>2. /\ \A f \in LoadFifos \cup {"xaOut", "xbOut", "cMine"} : <<f, b>> \in SentBy(b)
      /\ \A f \in ComputeFifos \cup StoreFifos : <<f, b>> \in ReadBy(b)
  BY DEF ReadBy, SentBy, SentByLoad, SentByCompute, ReadByCompute, ReadByStore
<1>3. \A f \in {"bufA", "bufB", "fwdRight", "fwdDown", "xaIn", "xbIn", "cPass", "posC", "posS",
                "xaOut", "xbOut", "cMine"} : sn2[<<f, b>>] = sn[<<f, b>>]
  BY <1>2 DEF LoadFifos
<1>4. \A f \in {"posC", "bufA", "bufB", "xaIn", "xbIn", "posS", "fwdRight", "fwdDown", "xaOut",
                "xbOut", "cPass", "cMine"} : tk2[<<f, b>>] = tk[<<f, b>>]
  BY <1>2 DEF ComputeFifos, StoreFifos
<1>5. \A l : LoadOver(b, l, tk, sn) <=> LoadOver(b, l, tk2, sn2)
  BY <1>1, <1>3 DEF LoadOver, FramesOver, AllFrames, NoFrames, CrossingOver
<1>6. \A l : ComputeOver(b, l, tk, sn) <=> ComputeOver(b, l, tk2, sn2)
  BY <1>3, <1>4 DEF ComputeOver, Received, Stepped
<1>7. \A l : StoreOver(b, l, tk, sn) <=> StoreOver(b, l, tk2, sn2)
  BY <1>1, <1>4 DEF StoreOver, Forwarded, Crossed, Gathering, SentRight, SentDown
<1> QED
  BY <1>5, <1>6, <1>7

(* A block that has sent all of its C is over with the tile in store. *)
LEMMA SentAll ==
  ASSUME ~TAP, NEW b \in Blocks, NEW l, NEW tk \in Counts, NEW sn \in Counts, StoreInv(b, l, tk, sn),
         sn[COf(b)] >= CBefore(b) + 1 + CPassed(b) + CBEAT
  PROVE  StoreOver(b, l, tk, sn)
<1>1. b \in Position
  BY Constants
<1>2. /\ FramesRight(b) \in Nat /\ FramesDown(b) \in Nat /\ CPassed(b) \in Nat /\ CBEAT \in Nat \ {0}
      /\ STEPS \in Nat \ {0} /\ ACCS \in Nat \ {0}
      /\ (IsLastCol(b) => FramesRight(b) = 0) /\ (IsLastRow(b) => FramesDown(b) = 0)
  BY <1>1, FrameCounts, CCounts, Beats, Constants
<1>3. tk \in [Channels -> Nat] /\ sn \in [Channels -> Nat] /\ l \in StoreStates
  BY DEF Counts, StoreInv
<1>4. /\ sn[OutRight(b)] \in Nat /\ sn[OutDown(b)] \in Nat
      /\ tk[<<"fwdRight", b>>] \in Nat /\ tk[<<"fwdDown", b>>] \in Nat /\ tk[<<"cPass", b>>] \in Nat
  <2>1. SentByStore(b) \subseteq Channels /\ FifoNames \X {b} \subseteq Channels
    BY OwnChannels
  <2> QED
    BY <1>3, <2>1 DEF SentByStore, FifoNames
<1>5. /\ IsLastCol(b) => sn[OutDown(b)] >= FramesDown(b) + (IF IsLastRow(b) THEN 0 ELSE 1 + STEPS) + 1 + CPassed(b) + CBEAT
      /\ ~IsLastCol(b) => sn[OutRight(b)] >= FramesRight(b) + 1 + STEPS + 1 + CPassed(b) + CBEAT
  BY <1>2 DEF COf, CBefore
<1>6. ~StoreNew(b, l, tk, sn)
  BY <1>2, <1>5 DEF StoreNew
<1>7. ~StoreFrameInv(b, l, tk, sn)
  BY <1>2, <1>4, <1>5 DEF StoreFrameInv, SentRight, SentDown
<1>8. ~StoreCrossInv(b, l, tk, sn)
  BY <1>2, <1>3, <1>4, <1>5 DEF StoreCrossInv, SentRight, SentDown, StoreStates
<1>9. ~StoreCInv(b, l, tk, sn)
  <2> SUFFICES ASSUME StoreCInv(b, l, tk, sn) PROVE FALSE
    OBVIOUS
  <2>1. PICK c : /\ SentRight(b, 1 + STEPS, c, sn) /\ SentDown(b, 1 + STEPS, c, sn)
                 /\ \/ c = 0
                    \/ tk[<<"cPass", b>>] < CPassed(b) /\ c = 1 + tk[<<"cPass", b>>]
                    \/ l.n < ACCS /\ c = 1 + CPassed(b) + l.n \div APB
    BY Zenon DEF StoreCInv
  <2>2. l.n < ACCS => l.n \div APB \in 0 .. CBEAT - 1
    <3>1. l.n \in Nat
      BY <1>3 DEF StoreStates
    <3> QED
      BY <1>2, <3>1, EmitBeats
  <2>3. c \in Nat /\ c < 1 + CPassed(b) + CBEAT
    BY <1>2, <1>4, <2>1, <2>2
  <2> QED
    BY <1>2, <1>5, <2>1, <2>3 DEF SentRight, SentDown
<1> QED
  BY <1>6, <1>7, <1>8, <1>9 DEF StoreInv, StoreBusy

(* What store has sent on, the two others had done their part of. *)
LEMMA ComputeFirst ==
  ASSUME NEW b \in Blocks, NEW tk \in Counts, NEW sn \in Counts, NEW ch, AllHold(ch, tk, sn),
         NEW s, StoreOver(b, s, tk, sn), NEW l, ComputeInv(b, l, tk, sn)
  PROVE  ComputeOver(b, l, tk, sn)
<1>1. ACCS \in Nat \ {0} /\ tk[<<"cMine", b>>] = ACCS
  BY Constants DEF StoreOver, Gathering
<1>2. tk[<<"cMine", b>>] <= sn[<<"cMine", b>>] /\ sn[<<"cMine", b>>] \in Nat
  <2>1. <<"cMine", b>> \in Channels
    BY OwnChannels DEF SentByCompute
  <2> QED
    BY <2>1, TakenSent DEF AllHold
<1>3. l \in ComputeStates /\ ComputeInv(b, l, tk, sn)
  BY DEF ComputeInv
<1> QED
  BY <1>1, <1>2, <1>3 DEF ComputeInv, ComputeNew, ComputeBusy, ComputeStates

LEMMA LoadFirst ==
  ASSUME NEW b \in Blocks, NEW tk \in Counts, NEW sn \in Counts, NEW ch, AllHold(ch, tk, sn),
         NEW s, StoreOver(b, s, tk, sn), NEW m, ComputeOver(b, m, tk, sn), NEW l, LoadInv(b, l, tk, sn)
  PROVE  LoadOver(b, l, tk, sn)
<1>1. b \in Position
  BY Constants
<1>2. /\ K \in Nat \ {0} /\ STEPS \in Nat \ {0} /\ CPassed(b) \in Nat
      /\ CPassed(b) = CUpBeats(b) + CLeftBeats(b) /\ CUpBeats(b) \in Nat /\ CLeftBeats(b) \in Nat
      /\ (FromLeftC(b) => CLeftBeats(b) > 0) /\ (FromUpC(b) => CUpBeats(b) > 0)
  BY <1>1, Constants, CCounts
<1>3. \A f \in FifoNames : /\ tk[<<f, b>>] <= sn[<<f, b>>] /\ sn[<<f, b>>] \in Nat /\ tk[<<f, b>>] \in Nat
  <2>1. FifoNames \X {b} \subseteq Channels
    BY OwnChannels
  <2> QED
    BY <2>1, TakenSent DEF AllHold
<1>5. /\ sn[<<"posS", b>>] >= 1 /\ sn[<<"cPass", b>>] >= CPassed(b)
      /\ (IsRow0(b) => sn[<<"bufB", b>>] >= K) /\ (IsCol0(b) => sn[<<"bufA", b>>] >= K)
      /\ (~IsCol0(b) => sn[<<"xaIn", b>>] >= STEPS) /\ (~IsRow0(b) => sn[<<"xbIn", b>>] >= STEPS)
      /\ sn[<<"fwdDown", b>>] >= FramesDown(b)
  BY <1>2, <1>3 DEF FifoNames, StoreOver, Gathering, Forwarded, ComputeOver, Received, Stepped
<1>6. l \in LoadStates
  BY DEF LoadInv
<1>7. ~LoadNew(b, l, tk, sn)
  BY <1>5 DEF LoadNew
<1>8. ~LoadFrames(b, l, tk, sn)
  <2> SUFFICES ASSUME LoadFrames(b, l, tk, sn) PROVE FALSE
    OBVIOUS
  <2>1. IsRow0(b) /\ IsCol0(b)
    BY <1>2, <1>5 DEF LoadFrames, NoCrossing
  <2>2. PICK type \in FrameTypes :
          /\ HasGroup(type, b) /\ OtherFrames(type, b, tk, sn)
          /\ InGroup(type, b, l, GroupWords(type, b, tk), sn[Buf(type, b)], sn[Fwd(type, b)])
    BY DEF LoadFrames, FrameTypes
  <2>3. type = "A_FRAME"
    BY <1>2, <1>5, <2>1, <2>2 DEF OtherFrames, NoFrames, FrameTypes
  <2>4. FramesDown(b) = FrameWords(Count(type)) - FrameWords(Own(type, b) + 1)
    BY <2>1, <2>3 DEF FramesDown, Count, Own
  <2>5. PICK q \in Own(type, b) .. Count(type) - 1 :
          \/ q = Own(type, b) /\ (sn[Buf(type, b)] = 0 \/ (l.n < K /\ sn[Buf(type, b)] = l.n))
          \/ /\ q # Own(type, b)
             /\ \/ sn[Fwd(type, b)] = FrameWords(q) - FrameWords(Own(type, b) + 1)
                \/ /\ l.n < K
                   /\ sn[Fwd(type, b)] = FrameWords(q) - FrameWords(Own(type, b) + 1) + 1 + l.n
    BY <2>2 DEF InGroup
  <2>6. sn[Buf(type, b)] >= K /\ sn[Fwd(type, b)] >= FramesDown(b)
    BY <1>5, <2>1, <2>3 DEF Buf, Fwd
  <2>7. /\ FrameWords(q) \in Nat /\ FrameWords(Own(type, b) + 1) \in Nat
        /\ FrameWords(q + 1) = FrameWords(q) + 1 + K /\ q + 1 \in Nat /\ Count(type) \in Nat /\ q + 1 <= Count(type)
    BY <1>1, <2>2, <2>5, GroupFacts
  <2>8. FrameWords(q + 1) <= FrameWords(Count(type)) /\ FrameWords(Count(type)) \in Nat
    BY <2>7, Frames
  <2>9. l.n \in Nat
    BY <1>6 DEF LoadStates
  <2> QED
    BY <1>2, <2>4, <2>5, <2>6, <2>7, <2>8, <2>9
<1>9. ~LoadCross(b, l, tk, sn)
  BY <1>2, <1>5, <1>6 DEF LoadCross, NoCrossing, CrossDone, LoadStates
<1>10. ~LoadC(b, l, tk, sn)
  BY <1>2, <1>3, <1>5 DEF LoadC, FifoNames
<1> QED
  BY <1>6, <1>7, <1>8, <1>9, <1>10 DEF LoadInv, LoadBusy

-----------------------------------------------------------------------------
(* The order in which the blocks of the mesh end *)

LeftOf(p)  == <<p[1], p[2] - 1>>
AboveOf(p) == <<p[1] - 1, p[2]>>

(* The blocks whose results block p passes on, and p itself. *)
GatheredBy(p) ==
  {q \in Position : q[1] = p[1] /\ q[2] <= p[2]} \cup
  {q \in Position : q[1] < p[1] /\ IsLastCol(p)}

Upstream(tk, sn) ==
  \A p \in Blocks : StoreOver(p, st[p], tk, sn) => \A q \in GatheredBy(p) : Over(q, tk, sn)

LEMMA Mesh == Blocks = Position /\ ~TAP
BY MeshAssumption

LEMMA GatheredFrom ==
  ASSUME NEW p \in Position, NEW q \in GatheredBy(p), q # p
  PROVE  \/ ~IsCol0(p) /\ q \in GatheredBy(LeftOf(p))
         \/ IsLastCol(p) /\ ~IsRow0(p) /\ q \in GatheredBy(AboveOf(p))
<1>1. p[1] \in 0 .. R - 1 /\ p[2] \in 0 .. S - 1 /\ q[1] \in 0 .. R - 1 /\ q[2] \in 0 .. S - 1
      /\ p = <<p[1], p[2]>> /\ q = <<q[1], q[2]>> /\ q \in Position /\ R \in Nat /\ S \in Nat
  BY Places, Constants DEF GatheredBy
<1>2. LeftOf(p)[1] = p[1] /\ LeftOf(p)[2] = p[2] - 1 /\ AboveOf(p)[1] = p[1] - 1 /\ AboveOf(p)[2] = p[2]
  BY DEF LeftOf, AboveOf
<1>3. CASE q[1] = p[1] /\ q[2] <= p[2]
  <2>1. q[2] # p[2]
    BY <1>1, <1>3
  <2> QED
    BY <1>1, <1>2, <1>3, <2>1 DEF GatheredBy, IsCol0
<1>4. CASE q[1] < p[1] /\ IsLastCol(p)
  <2>1. CASE q[1] = p[1] - 1
    BY <1>1, <1>2, <1>4, <2>1 DEF GatheredBy, IsRow0, IsLastCol
  <2>2. CASE q[1] < p[1] - 1
    BY <1>1, <1>2, <1>4, <2>2 DEF GatheredBy, IsRow0, IsLastCol
  <2> QED
    BY <1>1, <1>4, <2>1, <2>2
<1> QED
  BY <1>3, <1>4 DEF GatheredBy

LEMMA Before ==
  ASSUME NEW p \in Blocks, NEW tk \in Counts, NEW sn \in Counts, NEW ch, AllHold(ch, tk, sn),
         NEW l, LoadOver(p, l, tk, sn), NEW s, \A q \in Blocks : StoreInv(q, s[q], tk, sn)
  PROVE  /\ ~IsCol0(p) => LeftOf(p) \in Blocks /\ StoreOver(LeftOf(p), s[LeftOf(p)], tk, sn)
         /\ IsLastCol(p) /\ ~IsRow0(p) => AboveOf(p) \in Blocks /\ StoreOver(AboveOf(p), s[AboveOf(p)], tk, sn)
<1>1. p \in Position /\ ~TAP
  BY Mesh
<1>2. p[1] \in 0 .. R - 1 /\ p[2] \in 0 .. S - 1 /\ p = <<p[1], p[2]>> /\ R \in Nat /\ S \in Nat
  BY <1>1, Places, Constants
<1>3. /\ tk[InLeft(p)] <= sn[InLeft(p)] /\ tk[InUp(p)] <= sn[InUp(p)]
      /\ tk[InLeft(p)] = TotalLeft(p) /\ tk[InUp(p)] = TotalUp(p)
      /\ sn[InLeft(p)] \in Nat /\ sn[InUp(p)] \in Nat
  <2>1. InLeft(p) \in Channels /\ InUp(p) \in Channels
    BY OwnChannels DEF ReadByLoad
  <2> QED
    BY <2>1, TakenSent DEF AllHold, LoadOver
<1>4. ASSUME ~IsCol0(p)
      PROVE  LeftOf(p) \in Blocks /\ StoreOver(LeftOf(p), s[LeftOf(p)], tk, sn)
  <2>1. PICK q \in Blocks : q = LeftOf(p) /\ RightOf(q) = p /\ ~IsLastCol(q)
    <3>1. <<p[1], p[2] - 1>> \in Position
      BY <1>2, <1>4 DEF Position, IsCol0
    <3>2. RightOf(<<p[1], p[2] - 1>>) = p /\ ~IsLastCol(<<p[1], p[2] - 1>>)
      BY <1>2 DEF RightOf, IsLastCol
    <3> QED
      BY <3>1, <3>2, Mesh DEF LeftOf
  <2>2. q \in Position
    BY <2>1, Mesh
  <2>3. /\ FramesRight(q) = FramesLeft(p) /\ CLeftBeats(p) = CPassed(q) + CBEAT
        /\ FramesRight(q) \in Nat /\ CPassed(q) \in Nat /\ CBEAT \in Nat /\ STEPS \in Nat
    BY <2>1, <2>2, FrameCounts, CCounts, Beats, Constants
  <2>4. sn[COf(q)] >= CBefore(q) + 1 + CPassed(q) + CBEAT
    BY <1>3, <1>4, <2>1, <2>3 DEF COf, CBefore, OutRight, TotalLeft, CrossLeftWords, CLeftWords, FromLeftC
  <2>5. StoreOver(q, s[q], tk, sn)
    BY <1>1, <2>1, <2>4, SentAll
  <2> QED
    BY <2>1, <2>5
<1>5. ASSUME IsLastCol(p), ~IsRow0(p)
      PROVE  AboveOf(p) \in Blocks /\ StoreOver(AboveOf(p), s[AboveOf(p)], tk, sn)
  <2>1. PICK q \in Blocks : q = AboveOf(p) /\ Below(q) = p /\ ~IsLastRow(q) /\ IsLastCol(q)
    <3>1. <<p[1] - 1, p[2]>> \in Position
      BY <1>2, <1>5 DEF Position, IsRow0
    <3>2. Below(<<p[1] - 1, p[2]>>) = p /\ ~IsLastRow(<<p[1] - 1, p[2]>>) /\ IsLastCol(<<p[1] - 1, p[2]>>)
      BY <1>2, <1>5 DEF Below, IsLastRow, IsLastCol
    <3> QED
      BY <3>1, <3>2, Mesh DEF AboveOf
  <2>2. q \in Position
    BY <2>1, Mesh
  <2>3. /\ FramesDown(q) = FramesUp(p) /\ CUpBeats(p) = CPassed(q) + CBEAT
        /\ FramesDown(q) \in Nat /\ CPassed(q) \in Nat /\ CBEAT \in Nat /\ STEPS \in Nat
    BY <2>1, <2>2, FrameCounts, CCounts, Beats, Constants
  <2>4. CrossUpWords(p) = 1 + STEPS
    BY <1>2, <1>5 DEF CrossUpWords
  <2>5. sn[COf(q)] >= CBefore(q) + 1 + CPassed(q) + CBEAT
    BY <1>1, <1>3, <1>5, <2>1, <2>3, <2>4 DEF COf, CBefore, OutDown, TotalUp, CUpWords, FromUpC
  <2>6. StoreOver(q, s[q], tk, sn)
    BY <1>1, <2>1, <2>5, SentAll
  <2> QED
    BY <2>1, <2>6
<1> QED
  BY <1>4, <1>5

LEMMA OthersApart ==
  ASSUME NEW a \in Blocks, NEW b \in Blocks, a # b
  PROVE  ReadBy(a) \cap ReadBy(b) = {} /\ SentBy(a) \cap SentBy(b) = {}
<1>1. /\ ReadByLoad(a) \cap (ReadByCompute(b) \cup ReadByStore(b)) = {}
      /\ ReadByLoad(b) \cap (ReadByCompute(a) \cup ReadByStore(a)) = {}
      /\ ReadByCompute(a) \cap ReadByStore(b) = {} /\ ReadByCompute(b) \cap ReadByStore(a) = {}
      /\ ReadByLoad(a) \cap ReadByLoad(b) = {} /\ ReadByCompute(a) \cap ReadByCompute(b) = {}
      /\ ReadByStore(a) \cap ReadByStore(b) = {}
  BY Apart
<1>2. /\ SentByLoad(a) \cap (SentByCompute(b) \cup SentByStore(b)) = {}
      /\ SentByLoad(b) \cap (SentByCompute(a) \cup SentByStore(a)) = {}
      /\ SentByCompute(a) \cap SentByStore(b) = {} /\ SentByCompute(b) \cap SentByStore(a) = {}
      /\ SentByLoad(a) \cap SentByLoad(b) = {} /\ SentByCompute(a) \cap SentByCompute(b) = {}
      /\ SentByStore(a) \cap SentByStore(b) = {}
  BY Apart
<1>3. ReadBy(a) \cap ReadBy(b) = {}
  BY <1>1 DEF ReadBy
<1>4. SentBy(a) \cap SentBy(b) = {}
  BY <1>2 DEF SentBy
<1> QED
  BY <1>3, <1>4

LEMMA OverKept ==
  ASSUME NEW a \in Blocks, NEW tk \in Counts, NEW sn \in Counts, NEW rd, NEW sd,
         ReadBy(a) \cap rd = {}, SentBy(a) \cap sd = {}
  PROVE  /\ \A l : LoadOver(a, l, tk, sn) <=> LoadOver(a, l, Past(tk, rd), Past(sn, sd))
         /\ \A l : ComputeOver(a, l, tk, sn) <=> ComputeOver(a, l, Past(tk, rd), Past(sn, sd))
         /\ \A l : StoreOver(a, l, tk, sn) <=> StoreOver(a, l, Past(tk, rd), Past(sn, sd))
<1>1. ReadBy(a) \in SUBSET Channels /\ SentBy(a) \in SUBSET Channels
  BY OwnChannels DEF ReadBy, SentBy
<1>2. \A c \in ReadBy(a) : Past(tk, rd)[c] = tk[c]
  BY <1>1, PastSame
<1>3. \A c \in SentBy(a) : Past(sn, sd)[c] = sn[c]
  BY <1>1, PastSame
<1>4. Past(tk, rd) \in Counts /\ Past(sn, sd) \in Counts
  BY PastCounts
<1> QED
  BY <1>2, <1>3, <1>4, OverSame

(* A step of a block keeps the order in which the blocks end. *)
LEMMA BlockKeepsUpstream ==
  ASSUME NEW b \in Blocks, NEW tk \in Counts, NEW sn \in Counts, TileInv(tk, sn), Upstream(tk, sn),
         Block(b), NEW rd, NEW sd, TileStep(b, tk, sn, rd, sd)
  PROVE  Upstream(Past(tk, rd), Past(sn, sd))'
<1> DEFINE tk2 == Past(tk, rd)
           sn2 == Past(sn, sd)
<1>1. ~TAP /\ Blocks = Position
  BY Mesh
<1>2. tk2 \in Counts /\ sn2 \in Counts
  BY PastCounts
<1>3. /\ AllHold(chan', tk2, sn2)
      /\ \A a \in Blocks : /\ LoadInv(a, ld'[a], tk2, sn2) /\ ComputeInv(a, cp'[a], tk2, sn2)
                           /\ StoreInv(a, st'[a], tk2, sn2)
  BY DEF TileStep, TileInv
<1>4. \A a \in Blocks \ {b} : ld'[a] = ld[a] /\ cp'[a] = cp[a] /\ st'[a] = st[a]
  BY DEF TileStep
<1>5. ASSUME NEW a \in Blocks \ {b}
      PROVE  /\ \A l : LoadOver(a, l, tk, sn) <=> LoadOver(a, l, tk2, sn2)
             /\ \A l : ComputeOver(a, l, tk, sn) <=> ComputeOver(a, l, tk2, sn2)
             /\ \A l : StoreOver(a, l, tk, sn) <=> StoreOver(a, l, tk2, sn2)
  <2>1. ReadBy(a) \cap rd = {} /\ SentBy(a) \cap sd = {}
    BY OthersApart DEF TileStep
  <2> QED
    BY <2>1, OverKept
<1>6. ~Over(b, tk, sn)
  BY <1>1, OverRests
<1> HIDE DEF tk2, sn2
<1>7. ASSUME NEW p \in Blocks, p # b, StoreOver(p, st'[p], tk2, sn2), NEW q \in GatheredBy(p)
      PROVE  Over(q, tk2, sn2)'
  <2>1. StoreOver(p, st[p], tk, sn)
    BY <1>4, <1>5, <1>7
  <2>2. Over(q, tk, sn)
    BY <2>1, <1>7 DEF Upstream
  <2>3. q \in Blocks /\ q # b
    BY <1>1, <1>6, <1>7, <2>2 DEF GatheredBy
  <2> QED
    BY <1>4, <1>5, <2>2, <2>3 DEF Over
<1>8. ASSUME StoreOver(b, st'[b], tk2, sn2), NEW q \in GatheredBy(b)
      PROVE  Over(q, tk2, sn2)'
  <2>1. ComputeOver(b, cp'[b], tk2, sn2)
    BY <1>2, <1>3, <1>8, ComputeFirst
  <2>2. LoadOver(b, ld'[b], tk2, sn2)
    BY <1>2, <1>3, <1>8, <2>1, LoadFirst
  <2>3. CASE q = b
    BY <1>8, <2>1, <2>2, <2>3 DEF Over
  <2>4. CASE q # b
    <3>1. /\ ~IsCol0(b) => LeftOf(b) \in Blocks /\ StoreOver(LeftOf(b), st'[LeftOf(b)], tk2, sn2)
          /\ IsLastCol(b) /\ ~IsRow0(b) => AboveOf(b) \in Blocks /\ StoreOver(AboveOf(b), st'[AboveOf(b)], tk2, sn2)
      BY <1>2, <1>3, <2>2, Before
    <3>2. PICK p \in Blocks : p # b /\ q \in GatheredBy(p) /\ StoreOver(p, st'[p], tk2, sn2)
      <4>1. LeftOf(b) # b /\ AboveOf(b) # b
        <5>1. b[1] \in Int /\ b[2] \in Int
          BY <1>1, Places
        <5> QED
          BY <5>1 DEF LeftOf, AboveOf
      <4> QED
        BY <1>1, <2>4, <3>1, <4>1, GatheredFrom
    <3> QED
      BY <1>7, <3>2
  <2> QED
    BY <2>3, <2>4
<1>9. \A p \in Blocks : StoreOver(p, st'[p], tk2, sn2) => \A q \in GatheredBy(p) : Over(q, tk2, sn2)'
  BY <1>7, <1>8
<1> QED
  BY <1>9 DEF Upstream, tk2, sn2

-----------------------------------------------------------------------------
(* The two ends of the mesh: the DMA's channels and the host *)

(* A block that the host has started has ap_start set until load has sent  *)
(* the position and gone to rest; one that it has not is untouched.        *)
Started(b, sn) == start[b] <=> ~(ld[b].pc = "idle" /\ sn[<<"posC", b>>] = 1)
Untouched(b, sn) == ~start[b] /\ ld[b] = LoadIdle /\ sn[<<"posC", b>>] = 0

HostStates == [pc : {"arm", "start", "sendB", "sendA", "wait"}, todo : SUBSET Blocks]

HostBlocks(sn) ==
  \A b \in Blocks : IF host.pc = "arm" \/ (host.pc = "start" /\ b \in host.todo)
                    THEN Untouched(b, sn) ELSE Started(b, sn)

(* MM2S: what is left of the transfer is what the head port has still to get. *)
HostSends(sn) ==
  /\ mm2s \in Seq(Words)
  /\ \A i \in 1 .. Len(mm2s) : mm2s[i] = LeftWord(<<0, 0>>, sn[HeadPort] + i)
  /\ host.pc \in {"arm", "start", "sendB"} => sn[HeadPort] = 0 /\ mm2s = << >>
  /\ host.pc = "sendA" => sn[HeadPort] + Len(mm2s) = FrameWords(S)
  /\ host.pc = "wait" => sn[HeadPort] + Len(mm2s) = FrameWords(S) + FrameWords(R)

(* S2MM: the result region holds what the tail port has given. *)
HostGets(tk) ==
  /\ mem \in Seq(Words) /\ Len(mem) = tk[TailPort] /\ Len(mem) <= RECV_BEATS
  /\ \A n \in 1 .. Len(mem) : mem[n] = UpWord(<<R, S - 1>>, n)
  /\ s2mm = IF host.pc = "arm" \/ Len(mem) = RECV_BEATS THEN "idle" ELSE "running"

HostInv(tk, sn) ==
  /\ host \in HostStates
  /\ host.pc = "arm" => \A c \in Channels : tk[c] = 0 /\ sn[c] = 0
  /\ HostBlocks(sn) /\ HostSends(sn) /\ HostGets(tk)

MeshInv(tk, sn) == TileInv(tk, sn) /\ Upstream(tk, sn) /\ HostInv(tk, sn)

Inv == \E tk \in Counts, sn \in Counts : MeshInv(tk, sn)

(* The head port is written, and the tail port read, by no block. *)
LEMMA Ends ==
  /\ HeadPort \in Channels /\ TailPort \in Channels
  /\ \A b \in Blocks : HeadPort \notin SentBy(b) /\ TailPort \notin ReadBy(b)
  /\ TailPort = InUp(<<R, S - 1>>) /\ HeadPort = InLeft(<<0, 0>>)
  /\ <<0, 0>> \in Blocks /\ <<R - 1, S - 1>> \in Blocks
<1>1. R \in Nat \ {0} /\ S \in Nat \ {0} /\ ~TAP /\ Blocks = Position
  BY Constants, Mesh
<1>2. <<0, 0>> \in Blocks /\ <<R - 1, S - 1>> \in Blocks
  BY <1>1 DEF Position
<1>3. TailPort = OutDown(<<R - 1, S - 1>>) /\ TailPort = InUp(<<R, S - 1>>) /\ HeadPort = InLeft(<<0, 0>>)
  BY <1>1 DEF TailPort, HeadPort, OutDown, Below
<1>4. HeadPort \in Channels /\ TailPort \in Channels
  <2>1. ReadByLoad(<<0, 0>>) \subseteq Channels /\ SentByStore(<<R - 1, S - 1>>) \subseteq Channels
    BY <1>2, OwnChannels
  <2> QED
    BY <1>3, <2>1 DEF ReadByLoad, SentByStore
<1>5. ASSUME NEW b \in Blocks
      PROVE  HeadPort \notin SentBy(b) /\ TailPort \notin ReadBy(b)
  <2>1. b[1] \in 0 .. R - 1 /\ b[2] \in 0 .. S - 1
    BY <1>1, Places
  <2>2. HeadPort \notin SentByStore(b)
    BY <1>1, <2>1 DEF SentByStore, OutRight, OutDown, HeadPort, InLeft, InUp, RightOf
  <2>3. TailPort \notin ReadByLoad(b)
    <3>1. b # <<R, S - 1>>
      BY <1>1, <2>1
    <3> QED
      BY <1>3, <3>1 DEF ReadByLoad, InLeft, InUp
  <2>4. \A f \in FifoNames : HeadPort # <<f, b>> /\ TailPort # <<f, b>>
    BY <1>3 DEF InLeft, InUp, FifoNames
  <2>5. HeadPort \notin SentByLoad(b) /\ HeadPort \notin SentByCompute(b)
    BY <2>4 DEF SentByLoad, SentByCompute, LoadFifos, FifoNames
  <2>6. TailPort \notin ReadByCompute(b) /\ TailPort \notin ReadByStore(b)
    BY <2>4 DEF ReadByCompute, ReadByStore, ComputeFifos, StoreFifos, FifoNames
  <2> QED
    BY <2>2, <2>3, <2>5, <2>6 DEF SentBy, ReadBy
<1> QED
  BY <1>2, <1>3, <1>4, <1>5

(* A step of a block leaves the host's and the DMA's part as it is. *)
LEMMA BlockKeepsHost ==
  ASSUME NEW b \in Blocks, NEW tk \in Counts, NEW sn \in Counts, TileInv(tk, sn), HostInv(tk, sn),
         NEW rd, NEW sd, TileStep(b, tk, sn, rd, sd), host.pc # "arm", UNCHANGED <<host, mm2s, s2mm, mem>>
  PROVE  HostInv(Past(tk, rd), Past(sn, sd))'
<1> DEFINE tk2 == Past(tk, rd)
           sn2 == Past(sn, sd)
<1>1. sn2[HeadPort] = sn[HeadPort] /\ tk2[TailPort] = tk[TailPort]
  BY Ends, PastCounts DEF TileStep
<1>2. ASSUME NEW a \in Blocks, a # b
      PROVE  start'[a] = start[a] /\ ld'[a] = ld[a] /\ sn2[<<"posC", a>>] = sn[<<"posC", a>>]
  <2>1. <<"posC", a>> \in SentBy(a) /\ <<"posC", a>> \in Channels
    BY OwnChannels DEF SentBy, SentByLoad, LoadFifos
  <2>2. <<"posC", a>> \notin sd
    BY <1>2, <2>1, OthersApart DEF TileStep
  <2> QED
    BY <1>2, <2>1, <2>2, PastCounts DEF TileStep
<1>3. HostGets(tk2)'
  BY <1>1 DEF HostInv, HostGets
<1>4. HostSends(sn2)'
  BY <1>1 DEF HostInv, HostSends
<1>5. HostBlocks(sn2)'
  <2> HIDE DEF sn2
  <2> SUFFICES ASSUME NEW a \in Blocks
               PROVE  IF host.pc = "start" /\ a \in host.todo THEN Untouched(a, sn2)' ELSE Started(a, sn2)'
    BY DEF HostBlocks
  <2>1. IF host.pc = "start" /\ a \in host.todo THEN Untouched(a, sn) ELSE Started(a, sn)
    BY DEF HostInv, HostBlocks
  <2>2. CASE a # b
    BY <1>2, <2>1, <2>2 DEF Untouched, Started
  <2>3. CASE a = b
    <3>1. CASE start' = start /\ ld' = ld /\ sn2[<<"posC", b>>] = sn[<<"posC", b>>]
      BY <2>1, <2>3, <3>1 DEF Untouched, Started
    <3>2. CASE /\ start[b] \/ ld[b].pc # "idle"
               /\ IF ld'[b].pc = "idle" THEN ~start'[b] /\ sn2[<<"posC", b>>] = 1
                                        ELSE start'[b] = start[b]
      BY <2>1, <2>3, <3>2 DEF Untouched, Started, LoadIdle
    <3> QED
      BY <3>1, <3>2 DEF TileStep, sn2
  <2> QED
    BY <2>2, <2>3
<1> QED
  BY <1>3, <1>4, <1>5 DEF HostInv

(* While the host has not started a tile nothing can move in a block. *)
LEMMA ArmedRests ==
  ASSUME NEW b \in Blocks, NEW tk \in Counts, NEW sn \in Counts, TileInv(tk, sn), HostInv(tk, sn),
         host.pc = "arm"
  PROVE  ~Block(b) /\ ~start[b] /\ ld[b] = LoadIdle /\ cp[b] = ComputeIdle /\ st[b] = StoreIdle
<1>1. ~start[b] /\ ld[b] = LoadIdle
  BY DEF HostInv, HostBlocks, Untouched
<1>2. <<"posC", b>> \in Channels /\ <<"posS", b>> \in Channels
  BY OwnChannels DEF FifoNames
<1>3. /\ tk[<<"posC", b>>] = 0 /\ tk[<<"posS", b>>] = 0 /\ ~HasWord(<<"posC", b>>) /\ ~HasWord(<<"posS", b>>)
  BY <1>2, TakenSent DEF HostInv, TileInv, AllHold, HasWord
<1>4. cp[b] = ComputeIdle /\ st[b] = StoreIdle
  <2>1. ComputeInv(b, cp[b], tk, sn) /\ StoreInv(b, st[b], tk, sn)
    BY DEF TileInv
  <2> QED
    BY <1>3, <2>1 DEF ComputeInv, ComputeNew, ComputeBusy, ComputeOver, StoreInv, StoreNew, StoreBusy, StoreOver
<1>5. ld[b].pc = "idle" /\ cp[b].pc = "pos" /\ st[b].pc = "pos"
  BY <1>1, <1>4 DEF LoadIdle, ComputeIdle, StoreIdle
<1>6. ~Load(b)
  BY <1>1, <1>5 DEF Load, LoadStart, Pick, SendPos, GroupHeader, ForwardHeader, FramePayload,
                    CrossHeaders, CrossLeft, CrossUp, DropCHeader, PassC
<1>7. ~Compute(b)
  BY <1>3, <1>5 DEF Compute, ComputePos, RecvOperands, Step, Drain, Fire
<1>8. ~Store(b)
  BY <1>3, <1>5 DEF Store, StorePos, StoreFrames, StoreHeaders, StoreCrossRight, StoreCrossDown,
                    StoreCHeader, StorePassC, EmitC, Fire
<1> QED
  BY <1>1, <1>4, <1>6, <1>7, <1>8 DEF Block

(* A word in at the head port, or out at the tail port, is no block's. *)
LEMMA PortsKeep ==
  ASSUME NEW tk \in Counts, NEW sn \in Counts, TileInv(tk, sn), Upstream(tk, sn),
         NEW rd \in SUBSET {TailPort}, NEW sd \in SUBSET {HeadPort},
         AllHold(chan', Past(tk, rd), Past(sn, sd)), UNCHANGED <<start, ld, cp, st>>
  PROVE  /\ TileInv(Past(tk, rd), Past(sn, sd))' /\ Upstream(Past(tk, rd), Past(sn, sd))'
         /\ \A b \in Blocks : Past(sn, sd)[<<"posC", b>>] = sn[<<"posC", b>>]
<1> DEFINE tk2 == Past(tk, rd)
           sn2 == Past(sn, sd)
<1>1. ASSUME NEW b \in Blocks
      PROVE  ReadBy(b) \cap rd = {} /\ SentBy(b) \cap sd = {}
  BY Ends
<1>2. ASSUME NEW b \in Blocks
      PROVE  LoadInv(b, ld[b], tk2, sn2) /\ ComputeInv(b, cp[b], tk2, sn2) /\ StoreInv(b, st[b], tk2, sn2)
  <2>1. /\ ReadByLoad(b) \cap rd = {} /\ ReadByCompute(b) \cap rd = {} /\ ReadByStore(b) \cap rd = {}
        /\ SentByLoad(b) \cap sd = {} /\ SentByCompute(b) \cap sd = {} /\ SentByStore(b) \cap sd = {}
    BY <1>1 DEF ReadBy, SentBy
  <2>2. LoadInv(b, ld[b], tk, sn) /\ ComputeInv(b, cp[b], tk, sn) /\ StoreInv(b, st[b], tk, sn)
    BY DEF TileInv
  <2> QED
    BY <2>1, <2>2, LoadKept, ComputeKept, StoreKept
<1>3. ASSUME NEW b \in Blocks
      PROVE  sn2[<<"posC", b>>] = sn[<<"posC", b>>]
  <2>1. <<"posC", b>> \in SentBy(b) /\ <<"posC", b>> \in Channels
    BY OwnChannels DEF SentBy, SentByLoad, LoadFifos
  <2> QED
    BY <1>1, <2>1, PastCounts
<1>4. Unconnected(sn2)
  <2>1. ASSUME NEW p \in Blocks
        PROVE  /\ IsCol0(p) /\ ~IsRow0(p) => sn2[InLeft(p)] = 0
               /\ IsRow0(p) => sn2[InUp(p)] = 0
    <3>1. InLeft(p) \in Channels /\ InUp(p) \in Channels
      BY OwnChannels DEF ReadByLoad
    <3>2. InUp(p) # HeadPort /\ (~IsRow0(p) => InLeft(p) # HeadPort)
      BY Ends DEF InUp, InLeft, IsRow0
    <3> QED
      BY <3>1, <3>2, PastCounts DEF TileInv, Unconnected
  <2> QED
    BY <2>1 DEF Unconnected
<1>5. TileInv(tk2, sn2)'
  <2> HIDE DEF tk2, sn2
  <2>1. AllHold(chan', tk2, sn2)
    BY DEF tk2, sn2
  <2> QED
    BY <1>2, <1>3, <1>4, <2>1 DEF TileInv
<1>6. ASSUME NEW b \in Blocks
      PROVE  /\ StoreOver(b, st[b], tk, sn) <=> StoreOver(b, st'[b], tk2, sn2)
             /\ Over(b, tk, sn) <=> Over(b, tk2, sn2)'
  <2>1. /\ \A l : LoadOver(b, l, tk, sn) <=> LoadOver(b, l, tk2, sn2)
        /\ \A l : ComputeOver(b, l, tk, sn) <=> ComputeOver(b, l, tk2, sn2)
        /\ \A l : StoreOver(b, l, tk, sn) <=> StoreOver(b, l, tk2, sn2)
    BY <1>1, OverKept
  <2> HIDE DEF tk2, sn2
  <2> QED
    BY <2>1 DEF Over
<1>7. Upstream(tk2, sn2)'
  <2> HIDE DEF tk2, sn2
  <2>1. \A p \in Blocks : \A q \in GatheredBy(p) : q \in Blocks
    BY Mesh DEF GatheredBy
  <2>2. ASSUME NEW p \in Blocks, StoreOver(p, st'[p], tk2, sn2), NEW q \in GatheredBy(p)
        PROVE  Over(q, tk2, sn2)'
    BY <1>6, <2>1, <2>2 DEF Upstream
  <2> QED
    BY <2>2 DEF Upstream
<1> QED
  BY <1>3, <1>5, <1>7

(* The words of the tail port are the result, in block row-major order. *)
LEMMA TailWords ==
  /\ RECV_BEATS = 1 + CBeats(R * S) /\ RECV_BEATS \in Nat \ {0}
  /\ \A n \in 1 .. RECV_BEATS : UpWord(<<R, S - 1>>, n) = Gathered[n]
  /\ \A n \in 1 .. RECV_BEATS : UpWord(<<R, S - 1>>, n).last <=> n = RECV_BEATS
<1> DEFINE p == <<R, S - 1>>
<1>1. R \in Nat \ {0} /\ S \in Nat \ {0}
  BY Constants
<1>2. R * S \in Nat
  BY <1>1, SMT
<1>3. RECV_BEATS = 1 + CBeats(R * S) /\ RECV_BEATS \in Nat \ {0} /\ CBeats(R * S) \in Nat
  BY <1>2, Beats DEF RECV_BEATS, CBeats
<1>4. p \in Place /\ p[1] = R /\ p[2] = S - 1
  BY <1>1 DEF Place
<1>5. FramesUp(p) = 0
  <2>1. FrameWords(R) \in Nat
    BY <1>1, Frames
  <2> QED
    BY <1>4, <2>1 DEF FramesUp
<1>6. CrossUpWords(p) = 0 /\ CUpBeats(p) = CBeats(R * S)
  BY <1>4 DEF CrossUpWords, CUpBeats, IsLastCol
<1> HIDE DEF p
<1>7. UpWord(p, 1) = Header("C_DATA", <<R - 1, S - 1>>)
  <2>1. UpWord(p, 0 + 0 + 1) = Header("C_DATA", <<p[1] - 1, p[2]>>)
    BY <1>4, <1>5, <1>6, UpCrossWords
  <2> QED
    BY <1>4, <2>1
<1>8. ASSUME NEW k \in Nat \ {0}
      PROVE  UpWord(p, k + 1) = CWord(k, k = CBeats(R * S))
  <2>1. UpWord(p, 0 + 0 + 1 + k) = CWord(k, k = CUpBeats(p))
    BY <1>4, <1>5, <1>6, UpCWords
  <2>2. 0 + 0 + 1 + k = k + 1
    OBVIOUS
  <2> QED
    BY <1>6, <2>1, <2>2
<1>9. ASSUME NEW n \in 1 .. RECV_BEATS
      PROVE  UpWord(p, n) = Gathered[n] /\ (UpWord(p, n).last <=> n = RECV_BEATS)
  <2>1. CASE n = 1
    <3>1. Gathered[n] = Header("C_DATA", <<R - 1, S - 1>>)
      BY <2>1 DEF Gathered
    <3>2. ~Header("C_DATA", <<R - 1, S - 1>>).last
      BY HeaderFields
    <3>3. RECV_BEATS # 1
      <4>1. CBeats(0) = 0 /\ CBeats(0) + CBEAT <= CBeats(R * S) /\ CBEAT \in Nat \ {0}
        <5>1. R * S > 0
          BY <1>1, SMT
        <5> QED
          BY <1>2, <5>1, Beats
      <4> QED
        BY <1>3, <4>1
    <3> QED
      BY <1>7, <2>1, <3>1, <3>2, <3>3
  <2>2. CASE n # 1
    <3>1. PICK k \in Nat \ {0} : n = k + 1 /\ k = n - 1
      <4>1. n - 1 \in Nat \ {0} /\ n = (n - 1) + 1
        BY <1>3, <2>2
      <4> QED
        BY <4>1
    <3>2. PICK z \in BOOLEAN : z = (k = CBeats(R * S))
      OBVIOUS
    <3>3. z <=> n = RECV_BEATS
      <4>1. (k = CBeats(R * S)) <=> (n = RECV_BEATS)
        BY <1>3, <3>1
      <4> QED
        BY <3>2, <4>1, Zenon
    <3>4. UpWord(p, n) = CWord(k, z)
      BY <1>8, <3>1, <3>2
    <3>5. Gathered[n] = CWord(k, n = RECV_BEATS)
      <4>1. n - 2 = k - 1
        BY <3>1
      <4> QED
        BY <2>2, <4>1 DEF Gathered, CWord
    <3>6. (n = RECV_BEATS) = z
      BY <3>3
    <3>7. CWord(k, z).last = z
      BY CWordGiven
    <3> QED
      BY <3>3, <3>4, <3>5, <3>6, <3>7
  <2> QED
    BY <2>1, <2>2
<1> QED
  BY <1>3, <1>9 DEF p

LEMMA HeadWords ==
  \A k \in Nat \ {0} : /\ Word(HeadPort, k) = LeftWord(<<0, 0>>, k)
                       /\ k <= FrameWords(S) => LeftWord(<<0, 0>>, k) = BTransfer[k]
                       /\ LeftWord(<<0, 0>>, FrameWords(S) + k) = ATransfer[k]
<1>1. <<0, 0>> \in Place /\ IsRow0(<<0, 0>>) /\ IsCol0(<<0, 0>>)
  BY Constants DEF Place, IsRow0, IsCol0
<1>2. Transfer("B_FRAME") = BTransfer /\ Transfer("A_FRAME") = ATransfer
  BY DEF Transfer
<1> QED
  BY <1>1, <1>2, Ends, LinkWords, LeftFrameWords

LEMMA Mm2sStep ==
  ASSUME NEW tk \in Counts, NEW sn \in Counts, MeshInv(tk, sn), Mm2sBeat
  PROVE  \E tk2 \in Counts, sn2 \in Counts : MeshInv(tk2, sn2)'
<1> DEFINE w == Put(HeadPort, Head(mm2s))
<1>0. PICK rd \in SUBSET {TailPort}, sd \in SUBSET {HeadPort} : rd = {} /\ sd = {HeadPort}
  OBVIOUS
<1>1. TileInv(tk, sn) /\ Upstream(tk, sn) /\ HostInv(tk, sn)
  BY DEF MeshInv
<1>2. HeadPort \in Channels /\ sn[HeadPort] \in Nat
  BY Ends DEF Counts
<1>3. mm2s # << >> /\ mm2s \in Seq(Words) /\ Len(mm2s) \in Nat \ {0} /\ Head(mm2s) = mm2s[1]
  BY <1>1 DEF Mm2sBeat, HostInv, HostSends
<1>4. Head(mm2s) = Word(HeadPort, sn[HeadPort] + 1)
  BY <1>1, <1>2, <1>3, HeadWords DEF HostInv, HostSends
<1>5. DOMAIN w = {HeadPort} /\ w[HeadPort] = Head(mm2s)
  BY NothingPut
<1>6. Fire(rd, w) /\ UNCHANGED <<start, ld, cp, st, host, s2mm, mem>> /\ mm2s' = Tail(mm2s)
  BY <1>0 DEF Mm2sBeat
<1> HIDE DEF w
<1>7. AllHold(chan', Past(tk, rd), Past(sn, DOMAIN w))
  <2>1. \A c \in DOMAIN w : w[c] = Word(c, sn[c] + 1)
    BY <1>4, <1>5
  <2>2. rd \in SUBSET Channels /\ DOMAIN w \subseteq Channels
    BY <1>0, <1>2, <1>5
  <2>3. AllHold(chan, tk, sn)
    BY <1>1 DEF TileInv
  <2> QED
    BY <1>6, <2>1, <2>2, <2>3, Moved
<1>8. AllHold(chan', Past(tk, rd), Past(sn, sd))
  BY <1>0, <1>5, <1>7
<1>9. /\ TileInv(Past(tk, rd), Past(sn, sd))' /\ Upstream(Past(tk, rd), Past(sn, sd))'
      /\ \A b \in Blocks : Past(sn, sd)[<<"posC", b>>] = sn[<<"posC", b>>]
  BY <1>1, <1>6, <1>8, PortsKeep
<1>10. /\ Past(tk, rd) \in Counts /\ Past(sn, sd) \in Counts
       /\ Past(sn, sd)[HeadPort] = sn[HeadPort] + 1 /\ Past(tk, rd)[TailPort] = tk[TailPort]
  BY <1>0, <1>2, Ends, PastCounts
<1>11. PICK tk2 \in Counts, sn2 \in Counts : tk2 = Past(tk, rd) /\ sn2 = Past(sn, sd)
  BY <1>10
<1>12. HostInv(tk2, sn2)'
  <2>1. HostGets(tk2)'
    BY <1>1, <1>6, <1>10, <1>11 DEF HostInv, HostGets
  <2>2. HostBlocks(sn2)'
    BY <1>1, <1>6, <1>9, <1>11 DEF HostInv, HostBlocks, Untouched, Started
  <2>3. HostSends(sn2)'
    <3>1. /\ mm2s' \in Seq(Words) /\ Len(mm2s') = Len(mm2s) - 1
          /\ \A i \in 1 .. Len(mm2s') : mm2s'[i] = mm2s[i + 1]
      BY <1>3, <1>6
    <3>2. sn2[HeadPort] = sn[HeadPort] + 1
      BY <1>10, <1>11
    <3>0. PICK h \in Nat, n \in Nat \ {0} : h = sn[HeadPort] /\ n = Len(mm2s) /\ Len(mm2s') = n - 1
      BY <1>2, <1>3, <3>1
    <3>3. ASSUME NEW i \in 1 .. Len(mm2s')
          PROVE  mm2s'[i] = LeftWord(<<0, 0>>, sn2[HeadPort] + i)
      <4>0. i \in 1 .. n - 1
        BY <3>0
      <4>1. i + 1 \in 1 .. Len(mm2s) /\ sn2[HeadPort] + i = sn[HeadPort] + (i + 1)
        BY <3>0, <3>2, <4>0
      <4>2. mm2s[i + 1] = LeftWord(<<0, 0>>, sn[HeadPort] + (i + 1))
        BY <1>1, <4>1 DEF HostInv, HostSends
      <4> QED
        BY <3>1, <4>1, <4>2
    <3>4. host.pc \notin {"arm", "start", "sendB"}
      BY <1>1, <1>3 DEF HostInv, HostSends
    <3>5. /\ host.pc = "sendA" => sn[HeadPort] + Len(mm2s) = FrameWords(S)
          /\ host.pc = "wait" => sn[HeadPort] + Len(mm2s) = FrameWords(S) + FrameWords(R)
      BY <1>1 DEF HostInv, HostSends
    <3>6. (sn2[HeadPort] + Len(mm2s') = sn[HeadPort] + Len(mm2s))
      BY <3>0, <3>2
    <3> QED
      BY <1>6, <3>1, <3>3, <3>4, <3>5, <3>6 DEF HostSends
  <2>4. host' \in HostStates /\ host'.pc # "arm"
    BY <1>1, <1>3, <1>6 DEF HostInv, HostSends
  <2> QED
    BY <2>1, <2>2, <2>3, <2>4 DEF HostInv
<1>13. MeshInv(tk2, sn2)'
  BY <1>9, <1>11, <1>12 DEF MeshInv
<1> QED
  BY <1>13

LEMMA S2mmStep ==
  ASSUME NEW tk \in Counts, NEW sn \in Counts, MeshInv(tk, sn), S2mmBeat
  PROVE  \E tk2 \in Counts, sn2 \in Counts : MeshInv(tk2, sn2)'
<1> DEFINE w == Head(chan[TailPort])
<1>0. PICK rd \in SUBSET {TailPort}, sd \in SUBSET {HeadPort} : rd = {TailPort} /\ sd = {}
  OBVIOUS
<1>1. TileInv(tk, sn) /\ Upstream(tk, sn) /\ HostInv(tk, sn) /\ AllHold(chan, tk, sn)
  BY DEF MeshInv, TileInv
<1>2. HeadPort \in Channels /\ TailPort \in Channels /\ sn[HeadPort] \in Nat /\ tk[TailPort] \in Nat
  BY Ends DEF Counts
<1>3. /\ s2mm = "running" /\ Fire(rd, Nothing) /\ mem' = Append(mem, w)
      /\ s2mm' = (IF w.last THEN "idle" ELSE IF Len(mem') = RECV_BEATS THEN "error" ELSE "running")
      /\ UNCHANGED <<start, ld, cp, st, host, mm2s>>
  BY <1>0 DEF S2mmBeat
<1>4. HasWord(TailPort)
  BY <1>0, <1>3 DEF Fire
<1>5. w = Word(TailPort, tk[TailPort] + 1) /\ w \in Words
  <2>1. w = Word(TailPort, tk[TailPort] + 1)
    BY <1>1, <1>2, <1>4, NextWord
  <2>2. tk[TailPort] + 1 \in Nat \ {0}
    BY <1>2
  <2> QED
    BY <1>2, <2>1, <2>2 DEF Words
<1>6. w = UpWord(<<R, S - 1>>, tk[TailPort] + 1)
  BY <1>5, Ends, LinkWords
<1> HIDE DEF w
<1>7. AllHold(chan', Past(tk, rd), Past(sn, sd))
  <2>1. DOMAIN Nothing = {}
    BY NothingPut
  <2>2. PICK nw : nw = Nothing
    OBVIOUS
  <2>3. \A c \in DOMAIN nw : nw[c] = Word(c, sn[c] + 1)
    BY <2>1, <2>2
  <2>4. rd \in SUBSET Channels /\ DOMAIN nw \subseteq Channels /\ Fire(rd, nw)
    BY <1>0, <1>2, <1>3, <2>1, <2>2
  <2>5. AllHold(chan', Past(tk, rd), Past(sn, DOMAIN nw))
    BY <1>1, <2>3, <2>4, Moved
  <2> QED
    BY <1>0, <2>1, <2>2, <2>5
<1>9. /\ TileInv(Past(tk, rd), Past(sn, sd))' /\ Upstream(Past(tk, rd), Past(sn, sd))'
      /\ \A b \in Blocks : Past(sn, sd)[<<"posC", b>>] = sn[<<"posC", b>>]
  BY <1>1, <1>3, <1>7, PortsKeep
<1>10. /\ Past(tk, rd) \in Counts /\ Past(sn, sd) \in Counts
       /\ Past(sn, sd)[HeadPort] = sn[HeadPort] /\ Past(tk, rd)[TailPort] = tk[TailPort] + 1
  BY <1>0, <1>2, PastCounts
<1>11. PICK tk2 \in Counts, sn2 \in Counts : tk2 = Past(tk, rd) /\ sn2 = Past(sn, sd)
  BY <1>10
<1>12. HostInv(tk2, sn2)'
  <2>0. host.pc # "arm"
    BY <1>1, <1>3 DEF HostInv, HostGets
  <2>1. HostGets(tk2)'
    <3>1. PICK n \in Nat : n = Len(mem) /\ n = tk[TailPort] /\ n < RECV_BEATS
      <4>1. /\ mem \in Seq(Words) /\ Len(mem) = tk[TailPort] /\ Len(mem) <= RECV_BEATS
            /\ Len(mem) # RECV_BEATS
        BY <1>1, <1>3, <2>0 DEF HostInv, HostGets
      <4> QED
        BY <1>2, <4>1, TailWords
    <3>2. /\ mem' \in Seq(Words) /\ Len(mem') = n + 1
          /\ \A i \in 1 .. n : mem'[i] = mem[i]
      BY <1>1, <1>3, <1>5, <3>1 DEF HostInv, HostGets
    <3>3. n + 1 \in 1 .. RECV_BEATS /\ (w.last <=> n + 1 = RECV_BEATS)
      <4>1. n + 1 \in 1 .. RECV_BEATS
        BY <3>1, TailWords
      <4> QED
        BY <1>6, <3>1, <4>1, TailWords
    <3>4. \A i \in 1 .. n + 1 : mem'[i] = UpWord(<<R, S - 1>>, i)
      <4>1. \A i \in 1 .. n : mem'[i] = UpWord(<<R, S - 1>>, i)
        BY <1>1, <3>1, <3>2 DEF HostInv, HostGets
      <4>2. mem'[n + 1] = UpWord(<<R, S - 1>>, n + 1)
        <5>1. mem'[n + 1] = w
          <6>1. mem \in Seq(Words)
            BY <1>1 DEF HostInv, HostGets
          <6>2. Append(mem, w)[Len(mem) + 1] = w
            BY <1>5, <6>1
          <6> QED
            BY <1>3, <3>1, <6>2
        <5> QED
          BY <1>6, <3>1, <5>1
      <4> QED
        BY <4>1, <4>2
    <3>5. s2mm' = IF Len(mem') = RECV_BEATS THEN "idle" ELSE "running"
      BY <1>3, <3>2, <3>3
    <3>6. tk2[TailPort] = n + 1 /\ n + 1 <= RECV_BEATS
      BY <1>10, <1>11, <3>1, <3>3
    <3> QED
      BY <1>3, <2>0, <3>2, <3>4, <3>5, <3>6 DEF HostGets
  <2>2. HostBlocks(sn2)'
    BY <1>1, <1>3, <1>9, <1>11 DEF HostInv, HostBlocks, Untouched, Started
  <2>3. HostSends(sn2)'
    BY <1>1, <1>3, <1>10, <1>11 DEF HostInv, HostSends
  <2>4. host' \in HostStates /\ host'.pc # "arm"
    BY <1>1, <1>3, <2>0 DEF HostInv
  <2> QED
    BY <2>1, <2>2, <2>3, <2>4 DEF HostInv
<1>13. MeshInv(tk2, sn2)'
  BY <1>9, <1>11, <1>12 DEF MeshInv
<1> QED
  BY <1>13

LEMMA HostArmStep ==
  ASSUME NEW tk \in Counts, NEW sn \in Counts, MeshInv(tk, sn), HostArm
  PROVE  MeshInv(tk, sn)'
<1>1. TileInv(tk, sn) /\ Upstream(tk, sn) /\ HostInv(tk, sn)
  BY DEF MeshInv
<1>2. UNCHANGED <<start, ld, cp, st, chan, mm2s, mem>> /\ host.pc = "arm" /\ s2mm' = "running"
  BY DEF HostArm, blockVars
<1>3. host' \in HostStates /\ host'.pc = "start" /\ host'.todo = Blocks
  BY <1>1 DEF HostArm, HostInv, HostStates
<1>4. TileInv(tk, sn)' /\ Upstream(tk, sn)'
  BY <1>1, <1>2 DEF TileInv, Upstream, Over
<1>5. HostBlocks(sn)'
  BY <1>1, <1>2, <1>3 DEF HostInv, HostBlocks, Untouched
<1>6. HostSends(sn)'
  BY <1>1, <1>2, <1>3 DEF HostInv, HostSends
<1>7. HostGets(tk)'
  <2>1. tk[TailPort] = 0 /\ RECV_BEATS # 0
    BY <1>1, <1>2, Ends, TailWords DEF HostInv
  <2> QED
    BY <1>1, <1>2, <1>3, <2>1 DEF HostInv, HostGets
<1> QED
  BY <1>3, <1>4, <1>5, <1>6, <1>7 DEF MeshInv, HostInv

LEMMA HostStartStep ==
  ASSUME NEW tk \in Counts, NEW sn \in Counts, MeshInv(tk, sn), HostStart
  PROVE  MeshInv(tk, sn)'
<1>1. TileInv(tk, sn) /\ Upstream(tk, sn) /\ HostInv(tk, sn)
  BY DEF MeshInv
<1>2. UNCHANGED <<ld, cp, st, chan, mm2s, s2mm, mem>> /\ host.pc = "start" /\ host \in HostStates
  BY <1>1 DEF HostStart, HostInv
<1>3. PICK b \in host.todo : /\ start' = [start EXCEPT ![b] = TRUE]
                             /\ host' = [host EXCEPT !.todo = @ \ {b},
                                                     !.pc = IF host.todo = {b} THEN "sendB" ELSE @]
  BY DEF HostStart, ApStart
<1>4. b \in Blocks
  BY <1>2, <1>3 DEF HostStates
<1>5. start' \in [Blocks -> BOOLEAN] /\ start'[b] /\ \A a \in Blocks \ {b} : start'[a] = start[a]
  BY <1>1, <1>3, <1>4 DEF TileInv
<1>6. /\ host' \in HostStates /\ host'.todo = host.todo \ {b}
      /\ host'.pc = IF host.todo = {b} THEN "sendB" ELSE "start"
  BY <1>2, <1>3 DEF HostStates
<1>7. Untouched(b, sn)
  BY <1>1, <1>2, <1>3, <1>4 DEF HostInv, HostBlocks
<1>8. TileInv(tk, sn)'
  <2>1. \A a \in Blocks : start'[a] /\ ld'[a].pc = "idle" => sn[<<"posC", a>>] = 0
    BY <1>1, <1>2, <1>5, <1>7 DEF TileInv, Untouched
  <2> QED
    BY <1>1, <1>2, <1>5, <2>1 DEF TileInv
<1>9. Upstream(tk, sn)'
  BY <1>1, <1>2 DEF Upstream, Over
<1>10. HostBlocks(sn)'
  <2> SUFFICES ASSUME NEW a \in Blocks
               PROVE  IF host'.pc = "start" /\ a \in host'.todo THEN Untouched(a, sn)' ELSE Started(a, sn)'
    BY <1>6 DEF HostBlocks
  <2>1. CASE a = b
    <3>1. Started(b, sn)'
      BY <1>2, <1>5, <1>7 DEF Untouched, Started
    <3>2. a \notin host'.todo
      BY <1>6, <2>1
    <3> QED
      BY <2>1, <3>1, <3>2
  <2>2. CASE a # b
    <3>1. (host'.pc = "start" /\ a \in host'.todo) <=> a \in host.todo
      BY <1>6, <2>2
    <3>2. IF a \in host.todo THEN Untouched(a, sn) ELSE Started(a, sn)
      BY <1>1, <1>2 DEF HostInv, HostBlocks
    <3> QED
      BY <1>2, <1>5, <2>2, <3>1, <3>2 DEF Untouched, Started
  <2> QED
    BY <2>1, <2>2
<1>11. HostSends(sn)'
  BY <1>1, <1>2, <1>6 DEF HostInv, HostSends
<1>12. HostGets(tk)'
  BY <1>1, <1>2, <1>6 DEF HostInv, HostGets
<1> QED
  BY <1>6, <1>8, <1>9, <1>10, <1>11, <1>12 DEF MeshInv, HostInv

LEMMA TransfersAreWords ==
  /\ BTransfer \in Seq(Words) /\ Len(BTransfer) = FrameWords(S)
  /\ ATransfer \in Seq(Words) /\ Len(ATransfer) = FrameWords(R)
  /\ FrameWords(S) \in Nat /\ FrameWords(R) \in Nat
<1>1. /\ Len(BTransfer) = FrameWords(S) /\ Len(ATransfer) = FrameWords(R)
      /\ FrameWords(S) \in Nat /\ FrameWords(R) \in Nat
      /\ DOMAIN BTransfer = 1 .. FrameWords(S) /\ DOMAIN ATransfer = 1 .. FrameWords(R)
      /\ BTransfer = [n \in 1 .. FrameWords(S) |-> BTransfer[n]]
      /\ ATransfer = [n \in 1 .. FrameWords(R) |-> ATransfer[n]]
  <2>1. FrameWords(S) \in Nat /\ FrameWords(R) \in Nat
    BY Constants, Frames
  <2>2. Transfer("B_FRAME") = BTransfer /\ Count("B_FRAME") = S /\ Transfer("A_FRAME") = ATransfer /\ Count("A_FRAME") = R
    BY DEF Transfer, Count
  <2>3. "B_FRAME" \in FrameTypes /\ "A_FRAME" \in FrameTypes
    BY DEF FrameTypes
  <2>4. DOMAIN Transfer("B_FRAME") = 1 .. FrameWords(Count("B_FRAME")) /\ Len(Transfer("B_FRAME")) = FrameWords(Count("B_FRAME"))
        /\ Transfer("B_FRAME") = [n \in 1 .. FrameWords(Count("B_FRAME")) |-> Transfer("B_FRAME")[n]]
    BY <2>3, TransferIsGroup
  <2>5. DOMAIN Transfer("A_FRAME") = 1 .. FrameWords(Count("A_FRAME")) /\ Len(Transfer("A_FRAME")) = FrameWords(Count("A_FRAME"))
        /\ Transfer("A_FRAME") = [n \in 1 .. FrameWords(Count("A_FRAME")) |-> Transfer("A_FRAME")[n]]
    BY <2>3, TransferIsGroup
  <2> QED
    BY <2>1, <2>2, <2>4, <2>5
<1>2. \A k \in 1 .. FrameWords(S) : BTransfer[k] \in Words
  <2> SUFFICES ASSUME NEW k \in 1 .. FrameWords(S)
               PROVE  BTransfer[k] \in Words
    OBVIOUS
  <2>1. k \in Nat \ {0} /\ k <= FrameWords(S)
    BY <1>1
  <2>2. Word(HeadPort, k) = BTransfer[k]
    BY <2>1, HeadWords
  <2> QED
    BY <2>1, <2>2, Ends DEF Words
<1>3. \A k \in 1 .. FrameWords(R) : ATransfer[k] \in Words
  <2> SUFFICES ASSUME NEW k \in 1 .. FrameWords(R)
               PROVE  ATransfer[k] \in Words
    OBVIOUS
  <2>1. k \in Nat \ {0} /\ FrameWords(S) + k \in Nat \ {0}
    BY <1>1
  <2>2. Word(HeadPort, FrameWords(S) + k) = ATransfer[k]
    BY <2>1, HeadWords
  <2> QED
    BY <2>1, <2>2, Ends DEF Words
<1>4. \A n \in Nat : \A f \in [1 .. n -> Words] : f \in Seq(Words)
  OBVIOUS
<1>5. BTransfer \in [1 .. FrameWords(S) -> Words] /\ ATransfer \in [1 .. FrameWords(R) -> Words]
  BY <1>1, <1>2, <1>3
<1> QED
  BY <1>1, <1>4, <1>5

LEMMA HostSendsStep ==
  ASSUME NEW tk \in Counts, NEW sn \in Counts, MeshInv(tk, sn), HostSendB \/ HostSendA
  PROVE  MeshInv(tk, sn)'
<1>1. TileInv(tk, sn) /\ Upstream(tk, sn) /\ HostInv(tk, sn)
  BY DEF MeshInv
<1>2. UNCHANGED <<start, ld, cp, st, chan, s2mm, mem>> /\ host.pc \in {"sendB", "sendA"} /\ host \in HostStates
  BY <1>1 DEF HostSendB, HostSendA, HostInv, blockVars
<1>3. host' \in HostStates /\ host'.pc = (IF host.pc = "sendB" THEN "sendA" ELSE "wait")
  BY <1>2 DEF HostSendB, HostSendA, HostStates
<1>4. TileInv(tk, sn)' /\ Upstream(tk, sn)'
  BY <1>1, <1>2 DEF TileInv, Upstream, Over
<1>5. HostBlocks(sn)'
  BY <1>1, <1>2, <1>3 DEF HostInv, HostBlocks, Started
<1>6. HostGets(tk)'
  BY <1>1, <1>2, <1>3 DEF HostInv, HostGets
<1>7. HostSends(sn)'
  <2>1. CASE HostSendB
    <3>1. mm2s' = BTransfer /\ host'.pc = "sendA" /\ sn[HeadPort] = 0
      BY <1>1, <1>3, <2>1 DEF HostSendB, HostInv, HostSends
    <3>2. \A i \in 1 .. Len(mm2s') : mm2s'[i] = LeftWord(<<0, 0>>, sn[HeadPort] + i)
      <4>1. \A i \in 1 .. FrameWords(S) : 0 + i = i /\ i \in Nat \ {0} /\ i <= FrameWords(S)
        BY TransfersAreWords
      <4> QED
        BY <3>1, <4>1, TransfersAreWords, HeadWords
    <3> QED
      BY <3>1, <3>2, TransfersAreWords DEF HostSends
  <2>2. CASE HostSendA
    <3>1. mm2s' = ATransfer /\ host'.pc = "wait" /\ sn[HeadPort] = FrameWords(S)
      <4>1. mm2s = << >> /\ host.pc = "sendA" /\ mm2s' = ATransfer
        BY <2>2 DEF HostSendA
      <4>2. sn[HeadPort] + Len(mm2s) = FrameWords(S) /\ sn[HeadPort] \in Nat
        BY <1>1, <4>1, Ends DEF HostInv, HostSends, Counts
      <4> QED
        BY <1>3, <4>1, <4>2
    <3>2. \A i \in 1 .. Len(mm2s') : mm2s'[i] = LeftWord(<<0, 0>>, sn[HeadPort] + i)
      BY <3>1, TransfersAreWords, HeadWords
    <3> QED
      BY <3>1, <3>2, TransfersAreWords DEF HostSends
  <2> QED
    BY <2>1, <2>2
<1> QED
  BY <1>2, <1>3, <1>4, <1>5, <1>6, <1>7 DEF MeshInv, HostInv

(* The whole result has come back: every block is over with the tile. *)
LEMMA AllOver ==
  ASSUME NEW tk \in Counts, NEW sn \in Counts, MeshInv(tk, sn), tk[TailPort] = RECV_BEATS
  PROVE  \A b \in Blocks : Over(b, tk, sn)
<1> DEFINE last == <<R - 1, S - 1>>
<1>1. R \in Nat \ {0} /\ S \in Nat \ {0} /\ ~TAP /\ Blocks = Position /\ last \in Blocks
  BY Constants, Mesh, Ends
<1>2. IsLastRow(last) /\ IsLastCol(last) /\ Below(last) = <<R, S - 1>>
  BY <1>1 DEF IsLastRow, IsLastCol, Below
<1>3. TailPort = OutDown(last) /\ COf(last) = TailPort /\ CBefore(last) = FramesDown(last)
  <2>1. FramesDown(last) \in Nat
    BY <1>1, FrameCounts
  <2> QED
    BY <1>2, <2>1 DEF TailPort, COf, CBefore
<1>4. FramesDown(last) = 0 /\ CPassed(last) \in Nat /\ CBEAT \in Nat
  BY <1>1, <1>2, FrameCounts, CCounts, Beats
<1>5. RECV_BEATS = 1 + CPassed(last) + CBEAT
  <2>1. CUpBeats(<<R, S - 1>>) = CBeats(R * S)
    BY <1>1 DEF CUpBeats, IsLastCol
  <2>2. CUpBeats(Below(last)) = CPassed(last) + CBEAT
    BY <1>1, <1>2, CCounts
  <2> QED
    BY <1>2, <1>4, <2>1, <2>2, TailWords
<1>6. tk[TailPort] <= sn[TailPort] /\ AllHold(chan, tk, sn)
  BY Ends, TakenSent DEF MeshInv, TileInv, AllHold
<1>7. StoreOver(last, st[last], tk, sn)
  <2>1. sn[COf(last)] >= CBefore(last) + 1 + CPassed(last) + CBEAT
    <3>1. sn[TailPort] \in Nat
      BY Ends DEF Counts
    <3> QED
      BY <1>3, <1>4, <1>5, <1>6, <3>1
  <2>2. StoreInv(last, st[last], tk, sn)
    BY <1>1 DEF MeshInv, TileInv
  <2> HIDE DEF last
  <2> QED
    BY <1>1, <2>1, <2>2, SentAll
<1>8. \A q \in Blocks : q \in GatheredBy(last)
  BY <1>1, <1>2, Places DEF GatheredBy
<1> QED
  BY <1>1, <1>7, <1>8 DEF MeshInv, Upstream

(* Then every word that was sent has been taken. *)
LEMMA FifosEmpty ==
  ASSUME NEW b \in Blocks, NEW tk \in Counts, NEW sn \in Counts, Over(b, tk, sn)
  PROVE  \A f \in FifoNames : tk[<<f, b>>] = sn[<<f, b>>]
<1>1. b \in Position
  BY Mesh
<1>2. /\ (IsRow0(b) => FramesRight(b) = FrameWords(S) - FrameWords(b[2] + 1)) /\ (~IsRow0(b) => FramesRight(b) = 0)
      /\ (IsCol0(b) => FramesDown(b) = FrameWords(R) - FrameWords(b[1] + 1)) /\ (~IsCol0(b) => FramesDown(b) = 0)
  BY DEF FramesRight, FramesDown
<1>3. \A f \in {"bufA", "bufB", "fwdRight", "fwdDown"} : tk[<<f, b>>] = sn[<<f, b>>]
  BY <1>2 DEF Over, LoadOver, FramesOver, AllFrames, NoFrames, ComputeOver, Received, StoreOver, Forwarded
<1>4. \A f \in {"xaIn", "xbIn", "xaOut", "xbOut"} : tk[<<f, b>>] = sn[<<f, b>>]
  BY DEF Over, LoadOver, CrossingOver, ComputeOver, Stepped, StoreOver, Crossed
<1>5. \A f \in {"cMine", "cPass", "posC", "posS"} : tk[<<f, b>>] = sn[<<f, b>>]
  BY DEF Over, LoadOver, ComputeOver, StoreOver, Gathering
<1> QED
  BY <1>3, <1>4, <1>5 DEF FifoNames

LEMMA InputsEmpty ==
  ASSUME NEW b \in Blocks, NEW tk \in Counts, NEW sn \in Counts, MeshInv(tk, sn),
         \A a \in Blocks : Over(a, tk, sn), sn[HeadPort] = FrameWords(S) + FrameWords(R)
  PROVE  tk[InLeft(b)] = sn[InLeft(b)] /\ tk[InUp(b)] = sn[InUp(b)]
<1>1. b \in Position /\ ~TAP /\ Blocks = Position
  BY Mesh
<1>2. b[1] \in 0 .. R - 1 /\ b[2] \in 0 .. S - 1 /\ b = <<b[1], b[2]>> /\ R \in Nat /\ S \in Nat
  BY <1>1, Places, Constants
<1>3. /\ tk[InLeft(b)] \in Nat /\ tk[InUp(b)] \in Nat
      /\ tk[InLeft(b)] <= sn[InLeft(b)] /\ tk[InUp(b)] <= sn[InUp(b)]
      /\ sn[InLeft(b)] \in Nat /\ sn[InUp(b)] \in Nat
  <2>1. InLeft(b) \in Channels /\ InUp(b) \in Channels
    BY OwnChannels DEF ReadByLoad
  <2> QED
    BY <2>1, TakenSent DEF MeshInv, TileInv, AllHold
<1>4. tk[InLeft(b)] = TotalLeft(b) /\ tk[InUp(b)] = TotalUp(b)
  BY DEF Over, LoadOver
<1>5. ASSUME ~IsCol0(b)
      PROVE  tk[InLeft(b)] = sn[InLeft(b)]
  <2>1. PICK q \in Blocks : RightOf(q) = b /\ ~IsLastCol(q)
    <3>1. <<b[1], b[2] - 1>> \in Position
      BY <1>2, <1>5 DEF Position, IsCol0
    <3>2. RightOf(<<b[1], b[2] - 1>>) = b /\ ~IsLastCol(<<b[1], b[2] - 1>>)
      BY <1>2 DEF RightOf, IsLastCol
    <3> QED
      BY <1>1, <3>1, <3>2
  <2>2. /\ FramesRight(q) = FramesLeft(b) /\ CLeftBeats(b) = CPassed(q) + CBEAT
        /\ FramesRight(q) \in Nat /\ CPassed(q) \in Nat /\ CBEAT \in Nat /\ STEPS \in Nat
    BY <1>1, <2>1, FrameCounts, CCounts, Beats, Constants
  <2>3. sn[InLeft(b)] = FramesRight(q) + 1 + STEPS + 1 + CPassed(q) + CBEAT
    <3>1. SentRight(q, 1 + STEPS, 1 + CPassed(q) + CBEAT, sn)
      BY <2>1 DEF Over, StoreOver
    <3>2. OutRight(q) = InLeft(b)
      BY <2>1 DEF OutRight
    <3>3. sn[OutRight(q)] = FramesRight(q) + (1 + STEPS + (1 + CPassed(q) + CBEAT))
      BY <2>1, <3>1 DEF SentRight
    <3> QED
      BY <2>2, <3>2, <3>3
  <2> QED
    BY <1>4, <1>5, <2>2, <2>3 DEF TotalLeft, CrossLeftWords, CLeftWords, FromLeftC
<1>6. ASSUME IsCol0(b), IsRow0(b)
      PROVE  tk[InLeft(b)] = sn[InLeft(b)]
  <2>1. InLeft(b) = HeadPort
    BY <1>2, <1>6, Ends DEF IsCol0, IsRow0
  <2>2. FrameWords(S) \in Nat /\ FrameWords(R) \in Nat
    BY TransfersAreWords
  <2> QED
    BY <1>4, <1>6, <2>1, <2>2 DEF TotalLeft, FramesLeft, CrossLeftWords, CLeftWords, FromLeftC
<1>7. ASSUME IsCol0(b), ~IsRow0(b)
      PROVE  tk[InLeft(b)] = sn[InLeft(b)]
  BY <1>3, <1>7 DEF MeshInv, TileInv, Unconnected
<1>8. ASSUME IsRow0(b)
      PROVE  tk[InUp(b)] = sn[InUp(b)]
  BY <1>3, <1>8 DEF MeshInv, TileInv, Unconnected
<1>9. ASSUME ~IsRow0(b)
      PROVE  tk[InUp(b)] = sn[InUp(b)]
  <2>1. PICK q \in Blocks : Below(q) = b /\ ~IsLastRow(q) /\ (IsLastCol(q) <=> IsLastCol(b))
    <3>1. <<b[1] - 1, b[2]>> \in Position
      BY <1>2, <1>9 DEF Position, IsRow0
    <3>2. /\ Below(<<b[1] - 1, b[2]>>) = b /\ ~IsLastRow(<<b[1] - 1, b[2]>>)
          /\ (IsLastCol(<<b[1] - 1, b[2]>>) <=> IsLastCol(b))
      BY <1>2 DEF Below, IsLastRow, IsLastCol
    <3> QED
      BY <1>1, <3>1, <3>2
  <2>2. /\ FramesDown(q) = FramesUp(b) /\ (IsLastCol(q) => CUpBeats(b) = CPassed(q) + CBEAT)
        /\ FramesDown(q) \in Nat /\ CPassed(q) \in Nat /\ CBEAT \in Nat /\ STEPS \in Nat
    BY <1>1, <2>1, FrameCounts, CCounts, Beats, Constants
  <2>3. sn[InUp(b)] = FramesDown(q) + 1 + STEPS + (IF IsLastCol(q) THEN 1 + CPassed(q) + CBEAT ELSE 0)
    <3>1. SentDown(q, 1 + STEPS, 1 + CPassed(q) + CBEAT, sn)
      BY <2>1 DEF Over, StoreOver
    <3>2. OutDown(q) = InUp(b)
      BY <1>1, <2>1 DEF OutDown
    <3>3. sn[OutDown(q)] = FramesDown(q) + (1 + STEPS) + (IF IsLastCol(q) THEN 1 + CPassed(q) + CBEAT ELSE 0)
      BY <2>1, <3>1 DEF SentDown
    <3> QED
      BY <2>2, <3>2, <3>3
  <2>4. CrossUpWords(b) = 1 + STEPS
    BY <1>2, <1>9 DEF CrossUpWords
  <2> QED
    BY <1>4, <1>9, <2>1, <2>2, <2>3, <2>4 DEF TotalUp, CUpWords, FromUpC
<1> QED
  BY <1>5, <1>6, <1>7, <1>8, <1>9

LEMMA AllEmpty ==
  ASSUME NEW tk \in Counts, NEW sn \in Counts, MeshInv(tk, sn),
         host.pc = "wait", mm2s = << >>, s2mm # "running"
  PROVE  \A c \in Channels : tk[c] = sn[c]
<1>1. tk[TailPort] = RECV_BEATS /\ sn[HeadPort] = FrameWords(S) + FrameWords(R)
  <2>1. sn[HeadPort] \in Nat
    BY Ends DEF Counts
  <2> QED
    BY <2>1 DEF MeshInv, HostInv, HostGets, HostSends
<1>2. \A b \in Blocks : Over(b, tk, sn)
  BY <1>1, AllOver
<1>3. ASSUME NEW b \in Blocks
      PROVE  tk[InLeft(b)] = sn[InLeft(b)] /\ tk[InUp(b)] = sn[InUp(b)]
  BY <1>1, <1>2, InputsEmpty
<1>4. ASSUME NEW b \in Blocks
      PROVE  tk[OutRight(b)] = sn[OutRight(b)] /\ tk[OutDown(b)] = sn[OutDown(b)]
  <2>1. b \in Position /\ Blocks = Position /\ ~TAP
    BY Mesh
  <2>2. /\ tk[OutRight(b)] \in Nat /\ tk[OutDown(b)] \in Nat
        /\ tk[OutRight(b)] <= sn[OutRight(b)] /\ tk[OutDown(b)] <= sn[OutDown(b)]
    <3>1. OutRight(b) \in Channels /\ OutDown(b) \in Channels
      BY OwnChannels DEF SentByStore
    <3> QED
      BY <3>1, TakenSent DEF MeshInv, TileInv, AllHold
  <2>3. /\ SentRight(b, 1 + STEPS, 1 + CPassed(b) + CBEAT, sn)
        /\ SentDown(b, 1 + STEPS, 1 + CPassed(b) + CBEAT, sn)
    BY <1>2 DEF Over, StoreOver
  <2>4. (IsLastCol(b) => FramesRight(b) = 0) /\ (IsLastRow(b) => FramesDown(b) = 0)
    BY <2>1, FrameCounts
  <2>5. tk[OutRight(b)] = sn[OutRight(b)]
    <3>1. CASE IsLastCol(b)
      BY <2>2, <2>3, <2>4, <3>1 DEF SentRight
    <3>2. CASE ~IsLastCol(b)
      <4>1. RightOf(b) \in Blocks
        BY <2>1, <3>2, Neighbours
      <4> QED
        BY <1>3, <4>1 DEF OutRight
    <3> QED
      BY <3>1, <3>2
  <2>6. tk[OutDown(b)] = sn[OutDown(b)]
    <3>1. CASE IsLastRow(b) /\ ~IsLastCol(b)
      BY <2>2, <2>3, <2>4, <3>1 DEF SentDown
    <3>2. CASE ~IsLastRow(b)
      <4>1. Below(b) \in Blocks
        BY <2>1, <3>2, Neighbours
      <4> QED
        BY <1>3, <2>1, <4>1 DEF OutDown
    <3>3. CASE IsLastRow(b) /\ IsLastCol(b)
      <4>1. b = <<R - 1, S - 1>>
        BY <2>1, <3>3, Places DEF IsLastRow, IsLastCol
      <4>2. OutDown(b) = TailPort
        BY <4>1 DEF TailPort
      <4>3. Below(b) = <<R, S - 1>> /\ CUpBeats(Below(b)) = CPassed(b) + CBEAT /\ CPassed(b) \in Nat /\ CBEAT \in Nat
        <5>1. R - 1 + 1 = R
          BY Constants
        <5> QED
          BY <2>1, <3>3, <4>1, <5>1, CCounts, Beats DEF Below
      <4>4. CUpBeats(<<R, S - 1>>) = CBeats(R * S)
        BY DEF CUpBeats, IsLastCol
      <4>5. sn[OutDown(b)] = 0 + 0 + (1 + CPassed(b) + CBEAT)
        BY <2>3, <2>4, <3>3 DEF SentDown
      <4> QED
        BY <1>1, <4>2, <4>3, <4>4, <4>5, TailWords
    <3> QED
      BY <3>1, <3>2, <3>3
  <2> QED
    BY <2>5, <2>6
<1>5. \A b \in Blocks : \A f \in FifoNames : tk[<<f, b>>] = sn[<<f, b>>]
  BY <1>2, FifosEmpty
<1>6. ASSUME NEW c \in Links
      PROVE  tk[c] = sn[c]
  <2>1. PICK b \in Blocks : c \in {InLeft(b), InUp(b), OutRight(b), OutDown(b)}
    BY DEF Links
  <2> QED
    BY <1>3, <1>4, <2>1
<1>7. ASSUME NEW c \in FifoNames \X Blocks
      PROVE  tk[c] = sn[c]
  BY <1>5
<1> QED
  BY <1>6, <1>7 DEF Channels

(* Before a tile: nothing has been taken or sent. *)
Zero == [c \in Channels |-> 0]

LEMMA NewTile ==
  ASSUME NEW tk \in Counts, NEW sn \in Counts, AllHold(chan, tk, sn), \A c \in Channels : tk[c] = sn[c],
         \A b \in Blocks : ~start[b] /\ ld[b] = LoadIdle /\ cp[b] = ComputeIdle /\ st[b] = StoreIdle,
         start \in [Blocks -> BOOLEAN], ld \in [Blocks -> LoadStates],
         cp \in [Blocks -> ComputeStates], st \in [Blocks -> StoreStates]
  PROVE  Zero \in Counts /\ TileInv(Zero, Zero) /\ Upstream(Zero, Zero)
<1>1. Zero \in Counts /\ \A c \in Channels : Zero[c] = 0
  BY DEF Zero, Counts
<1>2. \A b \in Blocks : /\ \A f \in FifoNames : Zero[<<f, b>>] = 0
                        /\ Zero[InLeft(b)] = 0 /\ Zero[InUp(b)] = 0 /\ Zero[OutRight(b)] = 0 /\ Zero[OutDown(b)] = 0
  BY <1>1, OwnChannels DEF ReadByLoad, SentByStore
<1>3. AllHold(chan, Zero, Zero)
  <2> SUFFICES ASSUME NEW c \in Channels
               PROVE  Holds(chan[c], c, Zero, Zero)
    BY DEF AllHold
  <2>1. chan[c] = << >> /\ 0 <= Depth(c)
    BY TakenSent, Depths DEF AllHold
  <2> QED
    BY <1>1, <2>1 DEF Holds
<1>4. ASSUME NEW b \in Blocks
      PROVE  LoadInv(b, LoadIdle, Zero, Zero) /\ ComputeInv(b, ComputeIdle, Zero, Zero) /\ StoreInv(b, StoreIdle, Zero, Zero)
  <2>1. LoadNew(b, LoadIdle, Zero, Zero)
    BY <1>2 DEF LoadNew, NothingSent, NoFrames, NoCrossing, FifoNames
  <2>2. ComputeNew(b, ComputeIdle, Zero, Zero)
    BY <1>2 DEF ComputeNew, Stepped, FifoNames
  <2>3. StoreNew(b, StoreIdle, Zero, Zero)
    BY <1>2 DEF StoreNew, Forwarded, Crossed, Gathering, FifoNames
  <2> QED
    BY <2>1, <2>2, <2>3, IdleStates DEF LoadInv, ComputeInv, StoreInv
<1>5. Unconnected(Zero)
  BY <1>2 DEF Unconnected
<1>6. TileInv(Zero, Zero)
  BY <1>3, <1>4, <1>5 DEF TileInv
<1>7. Upstream(Zero, Zero)
  <2>0. "posS" \in FifoNames
    BY DEF FifoNames
  <2>1. \A p \in Blocks : Zero[<<"posS", p>>] = 0
    BY <1>2, <2>0
  <2> QED
    BY <2>1 DEF Upstream, StoreOver
<1> QED
  BY <1>1, <1>6, <1>7

LEMMA HostCollectStep ==
  ASSUME NEW tk \in Counts, NEW sn \in Counts, MeshInv(tk, sn), HostCollect
  PROVE  Zero \in Counts /\ MeshInv(Zero, Zero)'
<1>1. /\ host.pc = "wait" /\ mm2s = << >> /\ s2mm # "running" /\ mem' = << >>
      /\ UNCHANGED <<start, ld, cp, st, chan, mm2s, s2mm>>
  BY DEF HostCollect, blockVars
<1>2. TileInv(tk, sn) /\ HostInv(tk, sn)
  BY DEF MeshInv
<1>3. host' \in HostStates /\ host'.pc = "arm"
  BY <1>2 DEF HostCollect, HostInv, HostStates
<1>4. \A c \in Channels : tk[c] = sn[c]
  BY <1>1, AllEmpty
<1>5. tk[TailPort] = RECV_BEATS /\ s2mm = "idle"
  BY <1>1, <1>2 DEF HostInv, HostGets
<1>6. \A b \in Blocks : Over(b, tk, sn)
  BY <1>5, AllOver
<1>7. \A b \in Blocks : ~start[b] /\ ld[b] = LoadIdle /\ cp[b] = ComputeIdle /\ st[b] = StoreIdle
  <2> SUFFICES ASSUME NEW b \in Blocks
               PROVE  ~start[b] /\ ld[b] = LoadIdle /\ cp[b] = ComputeIdle /\ st[b] = StoreIdle
    OBVIOUS
  <2>1. ld[b] = LoadIdle /\ cp[b] = ComputeIdle /\ st[b] = StoreIdle /\ sn[<<"posC", b>>] = 1
    BY <1>6 DEF Over, LoadOver, ComputeOver, StoreOver
  <2>2. Started(b, sn)
    BY <1>1, <1>2 DEF HostInv, HostBlocks
  <2> QED
    BY <2>1, <2>2 DEF Started, LoadIdle
<1>8. Zero \in Counts /\ TileInv(Zero, Zero) /\ Upstream(Zero, Zero)
  <2>1. /\ AllHold(chan, tk, sn) /\ start \in [Blocks -> BOOLEAN] /\ ld \in [Blocks -> LoadStates]
        /\ cp \in [Blocks -> ComputeStates] /\ st \in [Blocks -> StoreStates]
    BY <1>2 DEF TileInv
  <2> QED
    BY <1>4, <1>7, <2>1, NewTile
<1>9. TileInv(Zero, Zero)' /\ Upstream(Zero, Zero)'
  BY <1>1, <1>8 DEF TileInv, Upstream, Over
<1>10. \A c \in Channels : Zero[c] = 0
  BY DEF Zero
<1>11. HostInv(Zero, Zero)'
  <2>1. \A b \in Blocks : Zero[<<"posC", b>>] = 0
    <3>1. \A b \in Blocks : <<"posC", b>> \in Channels
      BY OwnChannels DEF FifoNames
    <3> QED
      BY <1>10, <3>1
  <2>2. HostBlocks(Zero)'
    BY <1>1, <1>3, <1>7, <2>1 DEF HostBlocks, Untouched
  <2>3. HostSends(Zero)'
    BY <1>1, <1>2, <1>3, <1>10, Ends DEF HostSends, HostInv
  <2>4. HostGets(Zero)'
    BY <1>1, <1>3, <1>5, <1>10, Ends, TailWords DEF HostGets
  <2> QED
    BY <1>3, <1>10, <2>2, <2>3, <2>4 DEF HostInv
<1> QED
  BY <1>8, <1>9, <1>11 DEF MeshInv

LEMMA InitIsInv == Init => Inv
<1> SUFFICES ASSUME Init
             PROVE  Inv
  OBVIOUS
<1>1. /\ start \in [Blocks -> BOOLEAN] /\ ld \in [Blocks -> LoadStates]
      /\ cp \in [Blocks -> ComputeStates] /\ st \in [Blocks -> StoreStates]
      /\ \A b \in Blocks : ~start[b] /\ ld[b] = LoadIdle /\ cp[b] = ComputeIdle /\ st[b] = StoreIdle
      /\ \A c \in Channels : chan[c] = << >>
      /\ host = [pc |-> "arm", todo |-> {}] /\ mm2s = << >> /\ s2mm = "idle" /\ mem = << >>
  BY IdleStates DEF Init, BlockInit
<1>2. Zero \in Counts /\ \A c \in Channels : Zero[c] = 0
  BY DEF Zero, Counts
<1>3. AllHold(chan, Zero, Zero)
  <2> SUFFICES ASSUME NEW c \in Channels
               PROVE  Holds(chan[c], c, Zero, Zero)
    BY DEF AllHold
  <2>1. chan[c] = << >> /\ 0 <= Depth(c)
    BY <1>1, Depths
  <2> QED
    BY <1>2, <2>1 DEF Holds
<1>4. TileInv(Zero, Zero) /\ Upstream(Zero, Zero)
  BY <1>1, <1>2, <1>3, NewTile
<1>5. HostInv(Zero, Zero)
  <2>1. \A b \in Blocks : Zero[<<"posC", b>>] = 0
    <3>1. \A b \in Blocks : <<"posC", b>> \in Channels
      BY OwnChannels DEF FifoNames
    <3> QED
      BY <1>2, <3>1
  <2>2. host \in HostStates /\ host.pc = "arm"
    BY <1>1 DEF HostStates
  <2>3. HostBlocks(Zero)
    BY <1>1, <2>1, <2>2 DEF HostBlocks, Untouched
  <2>4. HostSends(Zero)
    BY <1>1, <1>2, <2>2, Ends DEF HostSends
  <2>5. HostGets(Zero)
    BY <1>1, <1>2, <2>2, Ends, TailWords DEF HostGets
  <2> QED
    BY <1>2, <2>2, <2>3, <2>4, <2>5 DEF HostInv
<1> QED
  BY <1>2, <1>4, <1>5 DEF Inv, MeshInv

-----------------------------------------------------------------------------
(* The invariant *)

LEMMA BlockStep ==
  ASSUME NEW tk \in Counts, NEW sn \in Counts, MeshInv(tk, sn),
         NEW b \in Blocks, Block(b), UNCHANGED <<host, mm2s, s2mm, mem>>
  PROVE  Inv'
<1>1. TileInv(tk, sn) /\ Upstream(tk, sn) /\ HostInv(tk, sn) /\ ~TAP
  BY Mesh DEF MeshInv
<1>2. host.pc # "arm"
  BY <1>1, ArmedRests
<1>3. PICK rd, sd : TileStep(b, tk, sn, rd, sd)
  BY <1>1, BlockKeeps
<1>4. HostInv(Past(tk, rd), Past(sn, sd))'
  BY <1>1, <1>2, <1>3, BlockKeepsHost
<1>5. Upstream(Past(tk, rd), Past(sn, sd))'
  BY <1>1, <1>3, BlockKeepsUpstream
<1>6. TileInv(Past(tk, rd), Past(sn, sd))'
  BY <1>3 DEF TileStep
<1>7. Past(tk, rd) \in Counts /\ Past(sn, sd) \in Counts
  BY PastCounts
<1>8. MeshInv(Past(tk, rd), Past(sn, sd))'
  BY <1>4, <1>5, <1>6 DEF MeshInv
<1> QED
  BY <1>7, <1>8 DEF Inv

LEMMA NextKeepsInv == Inv /\ [Next]_meshVars => Inv'
<1> SUFFICES ASSUME Inv, [Next]_meshVars
             PROVE  Inv'
  OBVIOUS
<1>1. PICK tk \in Counts, sn \in Counts : MeshInv(tk, sn)
  BY DEF Inv
<1>2. CASE \E b \in Blocks : Block(b) /\ UNCHANGED <<host, mm2s, s2mm, mem>>
  BY <1>1, <1>2, BlockStep
<1>3. CASE Mm2sBeat
  BY <1>1, <1>3, Mm2sStep DEF Inv
<1>4. CASE S2mmBeat
  BY <1>1, <1>4, S2mmStep DEF Inv
<1>5. CASE HostArm
  BY <1>1, <1>5, HostArmStep DEF Inv
<1>6. CASE HostStart
  BY <1>1, <1>6, HostStartStep DEF Inv
<1>7. CASE HostSendB \/ HostSendA
  BY <1>1, <1>7, HostSendsStep DEF Inv
<1>8. CASE HostCollect
  BY <1>1, <1>8, HostCollectStep DEF Inv
<1>9. CASE UNCHANGED meshVars
  <2>1. MeshInv(tk, sn)'
    BY <1>1, <1>9 DEF meshVars, blockVars, MeshInv, TileInv, Upstream, Over, HostInv, HostBlocks,
                      Untouched, Started, HostSends, HostGets
  <2> QED
    BY <2>1 DEF Inv
<1> QED
  BY <1>2, <1>3, <1>4, <1>5, <1>6, <1>7, <1>8, <1>9 DEF Next, Dma, Host

(* In every reachable state of every mesh a history of counts explains what *)
(* every process has done and what every channel, the DMA and the result    *)
(* region hold.                                                             *)
THEOREM MeshInvariant == Spec => []Inv
BY InitIsInv, NextKeepsInv, PTL DEF Spec

(* No FIFO and no link ever overflows, S2MM never ends in an error, and the *)
(* result region is never written past its end, on any grid.                *)
THEOREM MeshTypeOK == Spec => []TypeOK
<1>1. Inv => TypeOK
  <2> SUFFICES ASSUME NEW tk \in Counts, NEW sn \in Counts, MeshInv(tk, sn)
               PROVE  TypeOK
    BY DEF Inv
  <2> QED
    BY DEF MeshInv, TileInv, AllHold, Holds, HostInv, HostStates, HostGets, TypeOK
<1> QED
  BY <1>1, MeshInvariant, PTL

(* Whatever reaches a block first, through whichever port, every process of *)
(* the block takes the place where it sits for its position (load,          *)
(* sa_grid.cpp:120), on any grid.                                           *)
THEOREM MeshSelfLocation == Spec => []SelfLocation
<1>1. Inv => SelfLocation
  <2> SUFFICES ASSUME NEW tk \in Counts, NEW sn \in Counts, MeshInv(tk, sn), NEW b \in Blocks
               PROVE  /\ ld[b].at \in {NoPosition, b} /\ cp[b].at \in {NoPosition, b}
                      /\ st[b].at \in {NoPosition, b}
    BY DEF Inv, SelfLocation
  <2>1. LoadInv(b, ld[b], tk, sn) /\ ComputeInv(b, cp[b], tk, sn) /\ StoreInv(b, st[b], tk, sn)
    BY DEF MeshInv, TileInv
  <2>2. /\ LoadIdle.at = NoPosition /\ [LoadIdle EXCEPT !.pc = "pick"].at = NoPosition
        /\ ComputeIdle.at = NoPosition /\ StoreIdle.at = NoPosition
    BY DEF LoadIdle, ComputeIdle, StoreIdle
  <2>3. ld[b].at \in {NoPosition, b}
    BY <2>1, <2>2 DEF LoadInv, LoadNew, LoadBusy, LoadOver
  <2>4. cp[b].at \in {NoPosition, b}
    BY <2>1, <2>2 DEF ComputeInv, ComputeNew, ComputeBusy, ComputeOver
  <2>5. st[b].at \in {NoPosition, b}
    BY <2>1, <2>2 DEF StoreInv, StoreNew, StoreBusy, StoreOver
  <2> QED
    BY <2>3, <2>4, <2>5
<1> QED
  BY <1>1, MeshInvariant, PTL

(* The result region fills in block row-major order, TLAST on the last beat *)
(* only, and is full when the host collects it (unpack_C), on any grid.     *)
THEOREM MeshRowMajorResult == Spec => []RowMajorResult
<1>1. Inv => RowMajorResult
  <2> SUFFICES ASSUME NEW tk \in Counts, NEW sn \in Counts, MeshInv(tk, sn)
               PROVE  RowMajorResult
    BY DEF Inv
  <2>1. HostGets(tk)
    BY DEF MeshInv, HostInv
  <2>2. \A n \in 1 .. Len(mem) : n \in 1 .. RECV_BEATS
    BY <2>1, TailWords DEF HostGets
  <2>3. InOrder(mem)
    BY <2>1, <2>2, TailWords DEF HostGets, InOrder
  <2> QED
    BY <2>1, <2>3 DEF HostGets, RowMajorResult
<1> QED
  BY <1>1, MeshInvariant, PTL

(* The host waits for S2MM only, and yet finds every block at rest and every *)
(* link empty when it goes on to the next tile (run_tiles), on any grid.     *)
THEOREM MeshCleanHandover == Spec => []CleanHandover
<1>1. Inv => CleanHandover
  <2> SUFFICES ASSUME NEW tk \in Counts, NEW sn \in Counts, MeshInv(tk, sn), host.pc = "arm"
               PROVE  /\ \A b \in Blocks : AtRest(b)
                      /\ \A c \in Links : chan[c] = << >>
    BY DEF Inv, CleanHandover
  <2>1. TileInv(tk, sn) /\ HostInv(tk, sn)
    BY DEF MeshInv
  <2>2. \A c \in Channels : chan[c] = << >>
    BY <2>1, TakenSent DEF HostInv, TileInv, AllHold
  <2>3. \A b \in Blocks : \A f \in FifoNames : <<f, b>> \in Channels
    BY DEF Channels
  <2>4. Links \subseteq Channels
    BY DEF Channels
  <2> QED
    BY <2>1, <2>2, <2>3, <2>4, ArmedRests DEF AtRest
<1> QED
  BY <1>1, MeshInvariant, PTL

-----------------------------------------------------------------------------
(* What the ports show *)

LEMMA Shown ==
  ASSUME NEW tk \in Counts, NEW sn \in Counts, TileInv(tk, sn), NEW c \in Channels, HasWord(c)
  PROVE  Head(chan[c]) = Word(c, tk[c] + 1) /\ tk[c] \in Nat /\ tk[c] < sn[c]
BY NextWord DEF TileInv

LEMMA PickShows ==
  ASSUME NEW b \in Blocks, NEW tk \in Counts, NEW sn \in Counts, TileInv(tk, sn), ld[b].pc = "pick",
         NEW c \in {InLeft(b), InUp(b)}, HasWord(c)
  PROVE  IsHeader(Head(chan[c]), Types \ {"C_DATA"}, b)
<1>1. b \in Position /\ c \in Channels
  BY Mesh, OwnChannels DEF ReadByLoad
<1>2. tk[InLeft(b)] = 0 /\ tk[InUp(b)] = 0
  <2>1. LoadNew(b, ld[b], tk, sn)
    BY LoadWhere DEF TileInv
  <2>2. ld[b] # LoadIdle /\ ld[b].pc # "sendPos"
    BY DEF LoadIdle
  <2> QED
    BY <2>1, <2>2 DEF LoadNew
<1>3. tk[c] = 0 /\ sn[c] # 0 /\ Head(chan[c]) = Word(c, 1)
  <2>1. tk[c] = 0
    BY <1>2
  <2>2. Head(chan[c]) = Word(c, 0 + 1) /\ 0 < sn[c]
    BY <1>1, <2>1, Shown
  <2> QED
    BY <2>1, <2>2
<1>4. PICK type \in Types \ {"C_DATA"} : Head(chan[c]) = Header(type, b)
  <2>1. CASE c = InLeft(b)
    <3>1. ~IsCol0(b) \/ IsRow0(b)
      BY <1>3, <2>1 DEF TileInv, Unconnected
    <3> QED
      BY <1>1, <1>3, <2>1, <3>1, FirstWords DEF Types
  <2>2. CASE c = InUp(b)
    <3>1. ~IsRow0(b)
      BY <1>3, <2>2 DEF TileInv, Unconnected
    <3> QED
      BY <1>1, <1>3, <2>2, <3>1, FirstWords DEF Types
  <2> QED
    BY <2>1, <2>2
<1> QED
  BY <1>4, HeaderFields DEF IsHeader

LEMMA FrameShows ==
  ASSUME NEW b \in Blocks, NEW tk \in Counts, NEW sn \in Counts, TileInv(tk, sn), HasWord(FramePort(b))
  PROVE  /\ ld[b].pc = "groupHeader" /\ ~ld[b].fresh =>
              Head(chan[FramePort(b)]).hdr /\ IsFrame(Head(chan[FramePort(b)]))
         /\ ld[b].pc = "payload" =>
              IsPayload(Head(chan[FramePort(b)]), ld[b].h.type, ld[b].h.at, ld[b].n)
<1> SUFFICES ASSUME ld[b].pc \in {"groupHeader", "payload"}, ld[b].pc = "groupHeader" => ~ld[b].fresh
             PROVE  /\ ld[b].pc = "groupHeader" =>
                         Head(chan[FramePort(b)]).hdr /\ IsFrame(Head(chan[FramePort(b)]))
                    /\ ld[b].pc = "payload" =>
                         IsPayload(Head(chan[FramePort(b)]), ld[b].h.type, ld[b].h.at, ld[b].n)
  OBVIOUS
<1>1. /\ b \in Position /\ ld[b] \in LoadStates /\ FramePort(b) = FrameLink(b)
      /\ \E type \in FrameTypes :
              /\ HasGroup(type, b)
              /\ InGroup(type, b, ld[b], GroupWords(type, b, tk), sn[Buf(type, b)], sn[Fwd(type, b)])
  BY InWhichGroup
<1>2. PICK type \in FrameTypes :
         /\ HasGroup(type, b)
         /\ InGroup(type, b, ld[b], GroupWords(type, b, tk), sn[Buf(type, b)], sn[Fwd(type, b)])
  BY <1>1
<1>3. PICK l \in LoadStates : l = ld[b]
  BY <1>1
<1>4. PICK g, buf, fwd : g = GroupWords(type, b, tk) /\ buf = sn[Buf(type, b)] /\ fwd = sn[Fwd(type, b)]
  OBVIOUS
<1>5. InGroup(type, b, l, g, buf, fwd)
  BY <1>2, <1>3, <1>4
<1>6. FrameLink(b) \in Channels
  BY OwnChannels DEF FrameLink, ReadByLoad
<1>7. Head(chan[FramePort(b)]) = Word(FrameLink(b), tk[FrameLink(b)] + 1) /\ tk[FrameLink(b)] \in Nat
  BY <1>1, <1>6, Shown
<1>8. ASSUME l.pc = "groupHeader"
      PROVE  Head(chan[FramePort(b)]).hdr /\ IsFrame(Head(chan[FramePort(b)]))
  <2>1. PICK q : HeaderOfFrame(type, b, l, g, buf, fwd, q)
    BY <1>1, <1>2, <1>5, <1>8, GroupHeaderStep
  <2>2. g \in Nat /\ g < FrameWords(Count(type)) /\ Transfer(type)[g + 1] = Header(type, Dest(type, q))
    BY <1>3, <1>8, <2>1 DEF HeaderOfFrame
  <2>3. Head(chan[FramePort(b)]) = Header(type, Dest(type, q))
    BY <1>1, <1>2, <1>4, <1>7, <2>2, FrameLinkWord
  <2> QED
    BY <2>3, HeaderFields DEF IsFrame, FrameTypes
<1>9. ASSUME l.pc = "payload"
      PROVE  IsPayload(Head(chan[FramePort(b)]), l.h.type, l.h.at, l.n)
  <2>1. BeatOfFrame(type, b, l, g, buf, fwd)
    BY <1>1, <1>2, <1>5, <1>9, PayloadStep
  <2>2. PICK w : w = Transfer(type)[g + 1]
    OBVIOUS
  <2>3. /\ g \in Nat /\ g < FrameWords(Count(type)) /\ l.h.type = type
        /\ w = Payload(type, l.h.at, l.n, w.last)
    BY <2>1, <2>2 DEF BeatOfFrame
  <2>4. Head(chan[FramePort(b)]) = w
    BY <1>1, <1>2, <1>4, <1>7, <2>2, <2>3, FrameLinkWord
  <2>5. ~w.hdr /\ w.type = type /\ w.at = l.h.at /\ w.i = l.n
    BY <2>3, PayloadFields
  <2> QED
    BY <2>3, <2>4, <2>5 DEF IsPayload
<1> QED
  BY <1>3, <1>8, <1>9

LEMMA CrossHeadersShow ==
  ASSUME NEW b \in Blocks, NEW tk \in Counts, NEW sn \in Counts, TileInv(tk, sn),
         ld[b].pc = "crossHeaders"
  PROVE  /\ ~IsCol0(b) /\ ~HaveHeader(b, "left") /\ HasWord(InLeft(b)) =>
              Head(chan[InLeft(b)]) = Header("A_CROSS", b)
         /\ ~IsRow0(b) /\ ~HaveHeader(b, "up") /\ HasWord(InUp(b)) =>
              Head(chan[InUp(b)]) = Header("B_CROSS", b)
<1>1. b \in Position /\ LoadCross(b, ld[b], tk, sn) /\ InLeft(b) \in Channels /\ InUp(b) \in Channels
  BY Mesh, LoadWhere, OwnChannels DEF TileInv, ReadByLoad
<1>2. b \in Place /\ b[1] # R
  BY <1>1, Neighbours, Places, Constants
<1>3. /\ ~HaveHeader(b, "left") => tk[InLeft(b)] = FramesLeft(b) + 0
      /\ ~HaveHeader(b, "up") => tk[InUp(b)] = FramesUp(b) + 0
  BY <1>1 DEF LoadCross, HaveHeader
<1>4. PICK f, g : f = FramesLeft(b) /\ g = FramesUp(b)
  OBVIOUS
<1>5. f \in Nat /\ g \in Nat
  BY <1>2, <1>4, LinkCounts
<1>6. ASSUME ~IsCol0(b), ~HaveHeader(b, "left"), HasWord(InLeft(b))
      PROVE  Head(chan[InLeft(b)]) = Header("A_CROSS", b)
  <2>1. tk[InLeft(b)] = f
    BY <1>3, <1>4, <1>5, <1>6
  <2>2. Head(chan[InLeft(b)]) = Word(InLeft(b), f + 1)
    BY <1>1, <1>6, <2>1, Shown
  <2>3. LeftWord(b, f + 1) = Header("A_CROSS", b)
    BY <1>2, <1>4, <1>6, LeftCrossWords
  <2> QED
    BY <2>2, <2>3, LinkWords
<1>7. ASSUME ~IsRow0(b), ~HaveHeader(b, "up"), HasWord(InUp(b))
      PROVE  Head(chan[InUp(b)]) = Header("B_CROSS", b)
  <2>1. tk[InUp(b)] = g
    BY <1>3, <1>4, <1>5, <1>7
  <2>2. Head(chan[InUp(b)]) = Word(InUp(b), g + 1)
    BY <1>1, <1>7, <2>1, Shown
  <2>3. UpWord(b, g + 1) = Header("B_CROSS", b)
    BY <1>2, <1>4, <1>7, UpCrossWords
  <2> QED
    BY <2>2, <2>3, LinkWords
<1> QED
  BY <1>6, <1>7

LEMMA CrossShows ==
  ASSUME NEW b \in Blocks, NEW tk \in Counts, NEW sn \in Counts, TileInv(tk, sn), ld[b].pc = "cross"
  PROVE  /\ ld[b].nLeft < STEPS /\ HasWord(InLeft(b)) =>
              IsPayload(Head(chan[InLeft(b)]), "A_CROSS", b, ld[b].nLeft)
         /\ ld[b].nUp < STEPS /\ HasWord(InUp(b)) =>
              IsPayload(Head(chan[InUp(b)]), "B_CROSS", b, ld[b].nUp)
<1>1. b \in Position /\ LoadCross(b, ld[b], tk, sn) /\ InLeft(b) \in Channels /\ InUp(b) \in Channels
  BY Mesh, LoadWhere, OwnChannels DEF TileInv, ReadByLoad
<1>2. b \in Place /\ STEPS \in Nat
  BY <1>1, Neighbours, Constants
<1>3. PICK f, g : f = FramesLeft(b) /\ g = FramesUp(b)
  OBVIOUS
<1>4. f \in Nat /\ g \in Nat
  BY <1>2, <1>3, LinkCounts
<1>5. PICK m, n : m = ld[b].nLeft /\ n = ld[b].nUp
  OBVIOUS
<1>6. m \in Nat /\ n \in Nat
  BY <1>5 DEF TileInv, LoadStates
<1>7. /\ ~(IsRow0(b) /\ IsCol0(b))
      /\ ~IsCol0(b) => tk[InLeft(b)] = f + (1 + m)
      /\ ~IsRow0(b) => tk[InUp(b)] = g + (1 + n)
  BY <1>1, <1>3, <1>5 DEF LoadCross
<1>8. ASSUME m < STEPS, HasWord(InLeft(b))
      PROVE  IsPayload(Head(chan[InLeft(b)]), "A_CROSS", b, m)
  <2>1. Head(chan[InLeft(b)]) = Word(InLeft(b), tk[InLeft(b)] + 1) /\ sn[InLeft(b)] # 0
    BY <1>1, <1>8, Shown
  <2>2. ~IsCol0(b)
    BY <1>7, <2>1 DEF TileInv, Unconnected
  <2>3. Head(chan[InLeft(b)]) = Word(InLeft(b), f + 2 + m)
    <3>1. tk[InLeft(b)] + 1 = f + 2 + m
      BY <1>4, <1>6, <1>7, <2>2
    <3> QED
      BY <2>1, <3>1
  <2>4. PICK x : Word(InLeft(b), f + 2 + m) = Payload("A_CROSS", b, m, x)
    <3>1. m \in 0 .. STEPS - 1
      BY <1>2, <1>6, <1>8
    <3> QED
      BY <1>1, <1>3, <2>2, <3>1, CrossWords
  <2> QED
    BY <2>3, <2>4, PayloadFields DEF IsPayload
<1>9. ASSUME n < STEPS, HasWord(InUp(b))
      PROVE  IsPayload(Head(chan[InUp(b)]), "B_CROSS", b, n)
  <2>1. Head(chan[InUp(b)]) = Word(InUp(b), tk[InUp(b)] + 1) /\ sn[InUp(b)] # 0
    BY <1>1, <1>9, Shown
  <2>2. ~IsRow0(b)
    BY <2>1 DEF TileInv, Unconnected
  <2>3. Head(chan[InUp(b)]) = Word(InUp(b), g + 2 + n)
    <3>1. tk[InUp(b)] + 1 = g + 2 + n
      BY <1>4, <1>6, <1>7, <2>2
    <3> QED
      BY <2>1, <3>1
  <2>4. PICK x : Word(InUp(b), g + 2 + n) = Payload("B_CROSS", b, n, x)
    <3>1. n \in 0 .. STEPS - 1
      BY <1>2, <1>6, <1>9
    <3> QED
      BY <1>1, <1>3, <2>2, <3>1, CrossWords
  <2> QED
    BY <2>3, <2>4, PayloadFields DEF IsPayload
<1> QED
  BY <1>5, <1>8, <1>9

LEMMA CShows ==
  ASSUME NEW b \in Blocks, NEW tk \in Counts, NEW sn \in Counts, TileInv(tk, sn)
  PROVE  /\ ld[b].pc = "cUpHeader" /\ HasWord(InUp(b)) =>
              Head(chan[InUp(b)]).hdr /\ Head(chan[InUp(b)]).type = "C_DATA"
         /\ ld[b].pc = "cLeftHeader" /\ HasWord(InLeft(b)) =>
              Head(chan[InLeft(b)]).hdr /\ Head(chan[InLeft(b)]).type = "C_DATA"
         /\ ld[b].pc = "cUp" /\ HasWord(InUp(b)) =>
              ~Head(chan[InUp(b)]).hdr /\ Head(chan[InUp(b)]).type = "C_DATA"
         /\ ld[b].pc = "cLeft" /\ HasWord(InLeft(b)) =>
              ~Head(chan[InLeft(b)]).hdr /\ Head(chan[InLeft(b)]).type = "C_DATA"
<1>1. b \in Position /\ LoadInv(b, ld[b], tk, sn) /\ InLeft(b) \in Channels /\ InUp(b) \in Channels
  BY Mesh, OwnChannels DEF TileInv, ReadByLoad
<1>2. b \in Place /\ STEPS \in Nat
  BY <1>1, Neighbours, Constants
<1>3. PICK f, x, g, y : f = FramesLeft(b) /\ x = CrossLeftWords(b) /\ g = FramesUp(b) /\ y = CrossUpWords(b)
  OBVIOUS
<1>4. f \in Nat /\ x \in Nat /\ g \in Nat /\ y \in Nat
  BY <1>2, <1>3, LinkCounts
<1>5. \A k, last : ~CWord(k, last).hdr /\ CWord(k, last).type = "C_DATA"
  BY PayloadFields DEF CWord
<1>6. \A p : Header("C_DATA", p).hdr /\ Header("C_DATA", p).type = "C_DATA"
  BY HeaderFields
<1>7. ASSUME ld[b].pc = "cUpHeader", HasWord(InUp(b))
      PROVE  Head(chan[InUp(b)]) = Header("C_DATA", <<b[1] - 1, b[2]>>)
  <2>1. tk[InUp(b)] = g + y + 0
    BY <1>1, <1>3, <1>7, CWhere DEF CPoint
  <2>2. tk[InUp(b)] + 1 = g + y + 1
    BY <1>4, <2>1
  <2>3. Head(chan[InUp(b)]) = Word(InUp(b), g + y + 1)
    BY <1>1, <1>7, <2>2, Shown
  <2> QED
    BY <1>2, <1>3, <2>3, UpCrossWords, LinkWords
<1>8. ASSUME ld[b].pc = "cUp", HasWord(InUp(b))
      PROVE  \E k, last : Head(chan[InUp(b)]) = CWord(k, last)
  <2>1. PICK c \in Nat : tk[InUp(b)] = g + y + (1 + c)
    BY <1>1, <1>3, <1>8, CWhere DEF CPoint
  <2>2. PICK n \in Nat \ {0} : n = c + 1
    OBVIOUS
  <2>3. tk[InUp(b)] + 1 = g + y + 1 + n
    BY <1>4, <2>1, <2>2
  <2>4. Head(chan[InUp(b)]) = Word(InUp(b), g + y + 1 + n)
    BY <1>1, <1>8, <2>3, Shown
  <2>5. Word(InUp(b), g + y + 1 + n) = CWord(n, n = CUpBeats(b))
    BY <1>1, <1>3, CLinkWords
  <2>6. Head(chan[InUp(b)]) = CWord(n, n = CUpBeats(b))
    BY <2>4, <2>5
  <2> QED
    BY <2>6, Zenon
<1>9. ASSUME ld[b].pc = "cLeftHeader", HasWord(InLeft(b))
      PROVE  Head(chan[InLeft(b)]) = Header("C_DATA", <<b[1], b[2] - 1>>)
  <2>1. tk[InLeft(b)] = f + x + 0 /\ FromLeftC(b)
    BY <1>1, <1>3, <1>9, CWhere DEF CPoint
  <2>2. ~IsCol0(b) /\ x = 1 + STEPS
    BY <1>3, <2>1 DEF FromLeftC, CrossLeftWords
  <2>3. tk[InLeft(b)] + 1 = f + 2 + STEPS
    BY <1>2, <1>4, <2>1, <2>2
  <2>4. Head(chan[InLeft(b)]) = Word(InLeft(b), f + 2 + STEPS)
    BY <1>1, <1>9, <2>3, Shown
  <2> QED
    BY <1>2, <1>3, <2>2, <2>4, LeftCrossWords, LinkWords
<1>10. ASSUME ld[b].pc = "cLeft", HasWord(InLeft(b))
       PROVE  \E k, last : Head(chan[InLeft(b)]) = CWord(k, last)
  <2>1. PICK c \in Nat : tk[InLeft(b)] = f + x + (1 + c) /\ FromLeftC(b)
    BY <1>1, <1>3, <1>10, CWhere DEF CPoint
  <2>2. PICK n \in Nat \ {0} : n = c + 1
    OBVIOUS
  <2>3. tk[InLeft(b)] + 1 = f + x + 1 + n /\ ~IsCol0(b)
    BY <1>4, <2>1, <2>2 DEF FromLeftC
  <2>4. Head(chan[InLeft(b)]) = Word(InLeft(b), f + x + 1 + n)
    BY <1>1, <1>10, <2>3, Shown
  <2>5. Word(InLeft(b), f + x + 1 + n) = CWord(CBeats(b[1] * S) + n, n = CLeftBeats(b))
    BY <1>1, <1>3, <2>3, CLinkWords
  <2>6. Head(chan[InLeft(b)]) = CWord(CBeats(b[1] * S) + n, n = CLeftBeats(b))
    BY <2>4, <2>5
  <2> QED
    BY <2>6, Zenon
<1> QED
  BY <1>5, <1>6, <1>7, <1>8, <1>9, <1>10

LEMMA ComputeShows ==
  ASSUME NEW b \in Blocks, NEW tk \in Counts, NEW sn \in Counts, TileInv(tk, sn)
  PROVE  /\ cp[b].pc = "step" /\ HasWord(<<"xaIn", b>>) =>
              IsPayload(Head(chan[<<"xaIn", b>>]), "A_CROSS", b, cp[b].n)
         /\ cp[b].pc = "step" /\ HasWord(<<"xbIn", b>>) =>
              IsPayload(Head(chan[<<"xbIn", b>>]), "B_CROSS", b, cp[b].n)
         /\ cp[b].pc = "recvA" /\ HasWord(<<"bufA", b>>) =>
              IsPayload(Head(chan[<<"bufA", b>>]), "A_FRAME", b, cp[b].n)
         /\ cp[b].pc = "recvB" /\ HasWord(<<"bufB", b>>) =>
              IsPayload(Head(chan[<<"bufB", b>>]), "B_FRAME", b, cp[b].n)
<1>1. /\ <<"xaIn", b>> \in Channels /\ <<"xbIn", b>> \in Channels
      /\ <<"bufA", b>> \in Channels /\ <<"bufB", b>> \in Channels
  BY DEF Channels, FifoNames
<1>2. PICK l \in ComputeStates : l = cp[b]
  BY DEF TileInv
<1>3. LoadInv(b, ld[b], tk, sn) /\ ComputeInv(b, l, tk, sn) /\ l.n \in Nat
  BY <1>2 DEF TileInv, ComputeStates
<1>4. /\ IsCol0(b) => sn[<<"xaIn", b>>] = 0
      /\ IsRow0(b) => sn[<<"xbIn", b>>] = 0
  BY <1>3 DEF LoadInv, LoadNew, NothingSent, NoCrossing, LoadBusy, LoadFrames, LoadCross, LoadC,
              CrossingOver, LoadOver
<1>5. l.pc \notin {"pos"} => ComputeBusy(b, l, tk, sn)
  <2>1. ComputeIdle.pc = "pos"
    BY DEF ComputeIdle
  <2> QED
    BY <1>3, <2>1 DEF ComputeInv, ComputeNew, ComputeOver
<1>6. PICK n, k : n = l.n /\ k = n + 1
  OBVIOUS
<1>7. n \in Nat /\ k - 1 = n
  BY <1>3, <1>6
<1>8. PICK z : /\ Word(<<"xaIn", b>>, k) = Payload("A_CROSS", b, n, z)
               /\ Word(<<"xbIn", b>>, k) = Payload("B_CROSS", b, n, z)
               /\ Word(<<"bufA", b>>, k) = Payload("A_FRAME", b, n, z)
               /\ Word(<<"bufB", b>>, k) = Payload("B_FRAME", b, n, z)
  <2>1. /\ Word(<<"xaIn", b>>, k) = Payload("A_CROSS", b, n, FALSE)
        /\ Word(<<"xbIn", b>>, k) = Payload("B_CROSS", b, n, FALSE)
        /\ Word(<<"bufA", b>>, k) = Payload("A_FRAME", b, n, FALSE)
        /\ Word(<<"bufB", b>>, k) = Payload("B_FRAME", b, n, FALSE)
    BY <1>7, CrossFifoWords, FrameFifoWords
  <2> QED
    BY <2>1, Zenon
<1>9. ASSUME l.pc = "step", HasWord(<<"xaIn", b>>)
      PROVE  IsPayload(Head(chan[<<"xaIn", b>>]), "A_CROSS", b, n)
  <2>1. Head(chan[<<"xaIn", b>>]) = Word(<<"xaIn", b>>, tk[<<"xaIn", b>>] + 1) /\ sn[<<"xaIn", b>>] # 0
    BY <1>1, <1>9, Shown
  <2>2. tk[<<"xaIn", b>>] = n
    BY <1>4, <1>5, <1>6, <1>9, <2>1 DEF ComputeBusy, Stepped
  <2> QED
    BY <1>6, <1>8, <2>1, <2>2, PayloadFields DEF IsPayload
<1>10. ASSUME l.pc = "step", HasWord(<<"xbIn", b>>)
       PROVE  IsPayload(Head(chan[<<"xbIn", b>>]), "B_CROSS", b, n)
  <2>1. Head(chan[<<"xbIn", b>>]) = Word(<<"xbIn", b>>, tk[<<"xbIn", b>>] + 1) /\ sn[<<"xbIn", b>>] # 0
    BY <1>1, <1>10, Shown
  <2>2. tk[<<"xbIn", b>>] = n
    BY <1>4, <1>5, <1>6, <1>10, <2>1 DEF ComputeBusy, Stepped
  <2> QED
    BY <1>6, <1>8, <2>1, <2>2, PayloadFields DEF IsPayload
<1>11. ASSUME l.pc = "recvA", HasWord(<<"bufA", b>>)
       PROVE  IsPayload(Head(chan[<<"bufA", b>>]), "A_FRAME", b, n)
  <2>1. tk[<<"bufA", b>>] = n
    BY <1>5, <1>6, <1>11 DEF ComputeBusy
  <2>2. Head(chan[<<"bufA", b>>]) = Word(<<"bufA", b>>, k)
    BY <1>1, <1>6, <1>11, <2>1, Shown
  <2> QED
    BY <1>8, <2>2, PayloadFields DEF IsPayload
<1>12. ASSUME l.pc = "recvB", HasWord(<<"bufB", b>>)
       PROVE  IsPayload(Head(chan[<<"bufB", b>>]), "B_FRAME", b, n)
  <2>1. tk[<<"bufB", b>>] = n
    BY <1>5, <1>6, <1>12 DEF ComputeBusy
  <2>2. Head(chan[<<"bufB", b>>]) = Word(<<"bufB", b>>, k)
    BY <1>1, <1>6, <1>12, <2>1, Shown
  <2> QED
    BY <1>8, <2>2, PayloadFields DEF IsPayload
<1> QED
  BY <1>2, <1>6, <1>9, <1>10, <1>11, <1>12

(* No beat is taken for what it is not: whatever the interleaving, where load *)
(* and compute are about to read a word, the port shows the header or the     *)
(* very beat that phase is for (sa_grid.cpp:120, 281), on any grid.           *)
THEOREM MeshFraming == Spec => []Framing
<1>1. Inv => Framing
  <2> SUFFICES ASSUME NEW tk \in Counts, NEW sn \in Counts, TileInv(tk, sn)
               PROVE  Framing
    BY DEF Inv, MeshInv
  <2> SUFFICES ASSUME NEW b \in Blocks
               PROVE
        /\ ld[b].pc = "pick" =>
             /\ HasWord(InLeft(b)) => IsHeader(Head(chan[InLeft(b)]), Types \ {"C_DATA"}, b)
             /\ HasWord(InUp(b)) => IsHeader(Head(chan[InUp(b)]), Types \ {"C_DATA"}, b)
        /\ ld[b].pc = "groupHeader" /\ ~ld[b].fresh =>
             (HasWord(FramePort(b)) => Head(chan[FramePort(b)]).hdr /\ IsFrame(Head(chan[FramePort(b)])))
        /\ ld[b].pc = "payload" =>
             (HasWord(FramePort(b)) =>
                IsPayload(Head(chan[FramePort(b)]), ld[b].h.type, ld[b].h.at, ld[b].n))
        /\ ld[b].pc = "crossHeaders" =>
             /\ ~IsCol0(b) /\ ~HaveHeader(b, "left") =>
                  (HasWord(InLeft(b)) => IsHeader(Head(chan[InLeft(b)]), {"A_CROSS", "B_CROSS"}, b))
             /\ ~IsRow0(b) /\ ~HaveHeader(b, "up") =>
                  (HasWord(InUp(b)) => IsHeader(Head(chan[InUp(b)]), {"A_CROSS", "B_CROSS"}, b))
        /\ ld[b].pc = "cross" /\ ld[b].nLeft < STEPS =>
             (HasWord(InLeft(b)) => IsPayload(Head(chan[InLeft(b)]), "A_CROSS", b, ld[b].nLeft))
        /\ ld[b].pc = "cross" /\ ld[b].nUp < STEPS =>
             (HasWord(InUp(b)) => IsPayload(Head(chan[InUp(b)]), "B_CROSS", b, ld[b].nUp))
        /\ ld[b].pc = "cUpHeader" =>
             (HasWord(InUp(b)) => Head(chan[InUp(b)]).hdr /\ Head(chan[InUp(b)]).type = "C_DATA")
        /\ ld[b].pc = "cLeftHeader" =>
             (HasWord(InLeft(b)) => Head(chan[InLeft(b)]).hdr /\ Head(chan[InLeft(b)]).type = "C_DATA")
        /\ ld[b].pc = "cUp" =>
             (HasWord(InUp(b)) => ~Head(chan[InUp(b)]).hdr /\ Head(chan[InUp(b)]).type = "C_DATA")
        /\ ld[b].pc = "cLeft" =>
             (HasWord(InLeft(b)) => ~Head(chan[InLeft(b)]).hdr /\ Head(chan[InLeft(b)]).type = "C_DATA")
        /\ cp[b].pc = "step" =>
             /\ HasWord(<<"xaIn", b>>) => IsPayload(Head(chan[<<"xaIn", b>>]), "A_CROSS", b, cp[b].n)
             /\ HasWord(<<"xbIn", b>>) => IsPayload(Head(chan[<<"xbIn", b>>]), "B_CROSS", b, cp[b].n)
        /\ cp[b].pc = "recvA" =>
             (HasWord(<<"bufA", b>>) => IsPayload(Head(chan[<<"bufA", b>>]), "A_FRAME", b, cp[b].n))
        /\ cp[b].pc = "recvB" =>
             (HasWord(<<"bufB", b>>) => IsPayload(Head(chan[<<"bufB", b>>]), "B_FRAME", b, cp[b].n))
    BY Zenon DEF Framing, Shows
  <2>1. \A type \in {"A_CROSS", "B_CROSS"} : IsHeader(Header(type, b), {"A_CROSS", "B_CROSS"}, b)
    BY HeaderFields DEF IsHeader
  <2>2. ld[b].pc = "pick" =>
          /\ HasWord(InLeft(b)) => IsHeader(Head(chan[InLeft(b)]), Types \ {"C_DATA"}, b)
          /\ HasWord(InUp(b)) => IsHeader(Head(chan[InUp(b)]), Types \ {"C_DATA"}, b)
    BY PickShows
  <2>3. ld[b].pc = "crossHeaders" =>
          /\ ~IsCol0(b) /\ ~HaveHeader(b, "left") =>
               (HasWord(InLeft(b)) => IsHeader(Head(chan[InLeft(b)]), {"A_CROSS", "B_CROSS"}, b))
          /\ ~IsRow0(b) /\ ~HaveHeader(b, "up") =>
               (HasWord(InUp(b)) => IsHeader(Head(chan[InUp(b)]), {"A_CROSS", "B_CROSS"}, b))
    BY <2>1, CrossHeadersShow
  <2> QED
    BY <2>2, <2>3, FrameShows, CrossShows, CShows, ComputeShows
<1> QED
  BY <1>1, MeshInvariant, PTL
=============================================================================
