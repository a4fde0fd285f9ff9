------------------------------- MODULE SaGrid -------------------------------
(***************************************************************************)
(* The control of the systolic block sa_grid (sa_grid.cpp, sa_grid.hpp)    *)
(* and of the mesh of R x S such blocks.                                   *)
(*                                                                         *)
(* A block is three DATAFLOW processes, load, compute and store, joined by *)
(* FIFOs; its four AXI-Stream ports join it to its neighbours.  One step   *)
(* of this module is one state or one loop iteration of the schedule the   *)
(* HLS tool generated (hdl/verilog): the step waits until every stream it  *)
(* reads holds a word and every stream it writes has room, then does all   *)
(* its reads and writes at once.                                           *)
(*                                                                         *)
(* Data are abstracted to what the control and its properties can tell     *)
(* apart.  A word carries what it is, whom it is for (or from) and its     *)
(* index.  The values that the PEs multiply are in SystolicArray.          *)
(***************************************************************************)
EXTENDS Integers, Sequences, FiniteSets

CONSTANTS
  R, S,    \* blocks down, blocks right
  K,       \* accumulation depth: payload beats of one frame
  STEPS,   \* systolic steps of a tile, K + R*PE + S*PE - 1 in the program
  ACCS,    \* accumulators of a block, PE*PE in the program
  APB,     \* accumulators packed into one beat, W/32 in the program
  CROSS,   \* depth of the crossing FIFOs, 4 in the program
  LINK,    \* words a link between two blocks can hold
  TAP,     \* TRUE: out_down ends in a broadcaster, not in the block below
  Blocks   \* the positions that hold a block

(* Four bit position fields in a header; a bus carries whole accumulators. *)
ASSUME GeometryAssumption ==
  /\ R \in 1 .. 16 /\ S \in 1 .. 16
  /\ K \in Nat \ {0} /\ STEPS \in Nat \ {0}
  /\ ACCS \in Nat \ {0} /\ APB \in Nat \ {0} /\ ACCS % APB = 0
  /\ CROSS \in Nat \ {0} /\ LINK \in Nat \ {0} /\ TAP \in BOOLEAN
  /\ Blocks \subseteq (0 .. R-1) \X (0 .. S-1)

VARIABLES
  start,   \* ap_start of each block's control register
  ld,      \* the load process of each block
  cp,      \* the compute process of each block
  st,      \* the store process of each block
  chan     \* every FIFO inside a block and every link between two

blockVars == <<start, ld, cp, st, chan>>
-----------------------------------------------------------------------------
(* Geometry *)

Position == (0 .. R-1) \X (0 .. S-1)

CBEAT == ACCS \div APB

MaxOf(m, n) == IF m > n THEN m ELSE n

FRAMES_MAX == MaxOf(R, S)
FWD_MAX    == (FRAMES_MAX - 1) * (1 + K)
CPASS_MAX  == ((R - 1) * S + (S - 1)) * CBEAT

IsRow0(p)    == p[1] = 0
IsCol0(p)    == p[2] = 0
IsLastRow(p) == p[1] = R - 1
IsLastCol(p) == p[2] = S - 1

RightOf(p) == <<p[1], p[2] + 1>>
Below(p)   == <<p[1] + 1, p[2]>>

(* What the C phase of a block starts with, sa_grid.cpp:169 and 407. *)
FromUpCCorner(p) == IsLastCol(p) /\ IsLastRow(p) /\ ~IsRow0(p)  \* right for R = 2
FromUpC(p) == IsLastCol(p) /\ ~IsRow0(p)
FromLeftC(p) == ~IsCol0(p)
-----------------------------------------------------------------------------
(* Words *)

Types == {"A_FRAME", "B_FRAME", "A_CROSS", "B_CROSS", "C_DATA"}

(* A header names the block that keeps what follows; a payload word carries *)
(* the same name and its index in its group.                                *)
Header(type, p) ==
  [hdr |-> TRUE, type |-> type, at |-> p, i |-> 0, last |-> FALSE]

Payload(type, p, i, last) ==
  [hdr |-> FALSE, type |-> type, at |-> p, i |-> i, last |-> last]

(* A group of frames: for each destination a header and len payload beats,  *)
(* TLAST on the last beat of the group.                                     *)
Group(type, dests, len) ==
  [n \in 1 .. Len(dests) * (1 + len) |->
     LET at == dests[1 + (n - 1) \div (1 + len)]
         i  == ((n - 1) % (1 + len)) - 1
     IN  IF i < 0 THEN Header(type, at)
                  ELSE Payload(type, at, i, n = Len(dests) * (1 + len))]

IsFrame(w) == w.type \in {"A_FRAME", "B_FRAME"}
-----------------------------------------------------------------------------
(* Channels.  <<"left", p>> is the link into in_left of position p, which  *)
(* is out_right of the block to its left; <<"up", p>> likewise, except     *)
(* where a broadcaster stands between: then out_down is <<"down", p>>.     *)

FifoNames == {"bufA", "bufB", "fwdRight", "fwdDown", "xaIn", "xbIn",
              "xaOut", "xbOut", "cMine", "cPass", "posC", "posS"}

InLeft(b)   == <<"left", b>>
InUp(b)     == <<"up", b>>
OutRight(b) == InLeft(RightOf(b))
OutDown(b)  == IF TAP THEN <<"down", b>> ELSE InUp(Below(b))

Links == UNION {{InLeft(b), InUp(b), OutRight(b), OutDown(b)} : b \in Blocks}

Channels == (FifoNames \X Blocks) \cup Links

BufDepthShort == K - 1          \* a bufA/bufB one beat shorter than a frame
BufDepth == K

CMineDepth == ACCS

Depth(c) ==
  CASE c[1] \in {"bufA", "bufB"}               -> BufDepth
    [] c[1] \in {"fwdRight", "fwdDown"}        -> FWD_MAX + 2
    [] c[1] \in {"xaIn", "xbIn", "xaOut", "xbOut"} -> CROSS
    [] c[1] = "cMine"                          -> CMineDepth
    [] c[1] = "cPass"                          -> CPASS_MAX + 2
    [] c[1] \in {"posC", "posS", "down"}       -> 2
    [] OTHER                                   -> LINK

HasWord(c) == chan[c] # << >>

HasRoomLate(c) == Len(chan[c]) <= Depth(c)   \* full seen one word late
HasRoom(c) == Len(chan[c]) < Depth(c)

(* One step's traffic: a word is taken from every channel of rd, and wr[c] *)
(* goes into every channel c of its domain, all of them or none.           *)
Fire(rd, wr) ==
  /\ \A c \in rd : HasWord(c)
  /\ \A c \in DOMAIN wr : HasRoom(c)
  /\ chan' = [c \in Channels |->
                LET kept == IF c \in rd THEN Tail(chan[c]) ELSE chan[c]
                IN  IF c \in DOMAIN wr THEN Append(kept, wr[c]) ELSE kept]

Nothing     == [c \in {} |-> 0]
Put(c, w)   == [x \in {c} |-> w]
-----------------------------------------------------------------------------
(* The phases of a process, in program order.  Which of them a block goes  *)
(* through depends on its position: Following gives the next one it does.  *)

LoadOrder == <<"groupHeader", "crossHeaders", "cross", "cUpHeader", "cUp",
               "cLeftHeader", "cLeft", "idle">>

ComputeOrder == <<"recvA", "recvB", "step", "drain", "pos">>

StoreOrder == <<"frameRight", "frameDown", "headerRight", "headerDown",
                "cross", "cHeader", "cPass", "emit", "pos">>

LoadHas(p, phase) ==
  CASE phase = "groupHeader"                 -> IsRow0(p) \/ IsCol0(p)
    [] phase \in {"crossHeaders", "cross"}   -> ~IsRow0(p) \/ ~IsCol0(p)
    [] phase \in {"cUpHeader", "cUp"}        -> FromUpC(p)
    [] phase \in {"cLeftHeader", "cLeft"}    -> FromLeftC(p)
    [] OTHER                                 -> TRUE

ComputeHas(p, phase) ==
  CASE phase = "recvA" -> IsCol0(p)
    [] phase = "recvB" -> IsRow0(p)
    [] OTHER           -> TRUE

StoreHas(p, phase) ==
  CASE phase = "frameRight"  -> IsRow0(p) /\ ~IsLastCol(p)
    [] phase = "frameDown"   -> IsCol0(p) /\ ~IsLastRow(p)
    [] phase = "headerRight" -> ~IsLastCol(p)
    [] phase = "headerDown"  -> ~IsLastRow(p)
    [] phase = "cross"       -> ~IsLastCol(p) \/ ~IsLastRow(p)
    [] phase = "cPass"       -> FromUpC(p) \/ FromLeftC(p)
    [] OTHER                 -> TRUE

(* The first phase from the i-th of order on that Has(p, _) keeps. *)
FirstFrom(order, Has(_, _), p, i) ==
  LET kept == {j \in i .. Len(order) : Has(p, order[j])}
  IN  order[CHOOSE j \in kept : \A m \in kept : j <= m]

Following(order, Has(_, _), p, phase) ==
  FirstFrom(order, Has, p, 1 + CHOOSE i \in DOMAIN order : order[i] = phase)
-----------------------------------------------------------------------------
(* load: owns both input ports for the whole life of the block.            *)
(*   pick    the first header, from whichever port has a word              *)
(*   frames  keep mine, forward the rest, one TLAST terminated group or two*)
(*   cross   one beat per step from each neighbour                         *)
(*   C       what the neighbours gathered, passed through to store         *)

NoPosition == << >>
NoHeader   == << >>

LoadIdle == [pc |-> "idle", at |-> NoPosition, h |-> NoHeader, from |-> "none",
             picked |-> FALSE, fresh |-> FALSE, groups |-> 0, n |-> 0,
             nLeft |-> 0, nUp |-> 0]

FirstLoad(p)        == FirstFrom(LoadOrder, LoadHas, p, 1)
AfterLoad(p, phase) == Following(LoadOrder, LoadHas, p, phase)

(* Leave phase for the next one of the block; at the end load is ready,    *)
(* which clears ap_start.                                                  *)
LeaveLoad(b, phase) ==
  LET next == AfterLoad(ld[b].at, phase)
  IN  IF next = "idle"
        THEN /\ ld' = [ld EXCEPT ![b] = LoadIdle]
             /\ start' = [start EXCEPT ![b] = FALSE]
        ELSE /\ ld' = [ld EXCEPT ![b].pc = next, ![b].n = 0]
             /\ UNCHANGED start

LoadStart(b) ==
  /\ ld[b].pc = "idle" /\ start[b]
  /\ ld' = [ld EXCEPT ![b].pc = "pick"]
  /\ UNCHANGED <<start, cp, st, chan>>

(* read_nb on in_left, then on in_up only if in_left had nothing. *)
Pick(b) ==
  /\ ld[b].pc = "pick"
  /\ \E side \in {"left", "up"} :
       /\ side = "up" => ~HasWord(InLeft(b))
       /\ Fire({<<side, b>>}, Nothing)
       /\ LET h == Head(chan[<<side, b>>])
          IN  ld' = [ld EXCEPT ![b].pc = "sendPos", ![b].h = h, ![b].at = h.at,
                               ![b].from = side, ![b].picked = IsFrame(h)]
  /\ UNCHANGED <<start, cp, st>>

(* The position goes to compute and store.  Block (0,0) gets two groups. *)
SendPos(b) ==
  LET p == ld[b].at IN
  /\ ld[b].pc = "sendPos"
  /\ Fire({}, [c \in {<<"posC", b>>, <<"posS", b>>} |-> p])
  /\ ld' = [ld EXCEPT ![b].pc = FirstLoad(p), ![b].fresh = ld[b].picked,
                      ![b].groups = IF IsRow0(p) /\ IsCol0(p) THEN 2 ELSE 1]
  /\ UNCHANGED <<start, cp, st>>

(* frame_group: use_up is TRUE exactly in column 0 below row 0. *)
FramePort(b) == IF IsRow0(ld[b].at) THEN InLeft(b) ELSE InUp(b)

Mine(b, h) == h.at = ld[b].at

ForwardFifo(b, h) ==
  <<IF h.type = "A_FRAME" THEN "fwdDown" ELSE "fwdRight", b>>

OperandFifo(b, h) == <<IF h.type = "A_FRAME" THEN "bufA" ELSE "bufB", b>>

GroupHeader(b) ==
  LET taken == IF ld[b].fresh THEN {} ELSE {FramePort(b)}
      h     == IF ld[b].fresh THEN ld[b].h ELSE Head(chan[FramePort(b)])
  IN  /\ ld[b].pc = "groupHeader"
      /\ Fire(taken, Nothing)
      /\ ld' = [ld EXCEPT ![b].h = h, ![b].fresh = FALSE, ![b].n = 0,
                  ![b].pc = IF Mine(b, h) THEN "payload" ELSE "forwardHeader"]
      /\ UNCHANGED <<start, cp, st>>

ForwardHeader(b) ==
  /\ ld[b].pc = "forwardHeader"
  /\ Fire({}, Put(ForwardFifo(b, ld[b].h), [ld[b].h EXCEPT !.last = FALSE]))
  /\ ld' = [ld EXCEPT ![b].pc = "payload"]
  /\ UNCHANGED <<start, cp, st>>

(* Only the last beat of a frame decides whether its group ends. *)
FramePayload(b) ==
  LET h == ld[b].h
      w == Head(chan[FramePort(b)])
  IN  /\ ld[b].pc = "payload"
      /\ Fire({FramePort(b)},
              IF Mine(b, h) THEN Put(OperandFifo(b, h), [w EXCEPT !.last = FALSE])
                            ELSE Put(ForwardFifo(b, h), w))
      /\ \/ /\ ld[b].n < K - 1
            /\ ld' = [ld EXCEPT ![b].n = @ + 1]
            /\ UNCHANGED start
         \/ /\ ld[b].n = K - 1
            /\ ~w.last \/ ld[b].groups = 2
            /\ ld' = [ld EXCEPT ![b].pc = "groupHeader",
                                ![b].groups = IF w.last THEN 1 ELSE @]
            /\ UNCHANGED start
         \/ /\ ld[b].n = K - 1
            /\ w.last /\ ld[b].groups = 1
            /\ LeaveLoad(b, "groupHeader")
      /\ UNCHANGED <<cp, st>>

(* The crossing headers, except one that Pick already took. *)
HaveHeaderNever(b, side) == FALSE    \* the picked header is read again
HaveHeader(b, side) == ~ld[b].picked /\ ld[b].from = side

CrossHeaders(b) ==
  LET p == ld[b].at IN
  /\ ld[b].pc = "crossHeaders"
  /\ Fire({c \in {InLeft(b), InUp(b)} :
             /\ ~HaveHeader(b, c[1])
             /\ IF c[1] = "left" THEN ~IsCol0(p) ELSE ~IsRow0(p)}, Nothing)
  /\ LeaveLoad(b, "crossHeaders")
  /\ UNCHANGED <<cp, st>>

(* Iteration t of CROSS has two transfers that complete in either order; it *)
(* ends when both have.  nLeft and nUp count the completed ones.            *)
CrossDone(p, nLeft, nUp) ==
  (IsCol0(p) \/ nLeft = STEPS) /\ (IsRow0(p) \/ nUp = STEPS)

CrossLeft(b) ==
  LET p == ld[b].at IN
  /\ ld[b].pc = "cross" /\ ~IsCol0(p)
  /\ ld[b].nLeft < STEPS /\ (IsRow0(p) \/ ld[b].nLeft <= ld[b].nUp)
  /\ Fire({InLeft(b)}, Put(<<"xaIn", b>>, [Head(chan[InLeft(b)]) EXCEPT !.last = FALSE]))
  /\ IF CrossDone(p, ld[b].nLeft + 1, ld[b].nUp)
       THEN LeaveLoad(b, "cross")
       ELSE ld' = [ld EXCEPT ![b].nLeft = @ + 1] /\ UNCHANGED start
  /\ UNCHANGED <<cp, st>>

CrossUp(b) ==
  LET p == ld[b].at IN
  /\ ld[b].pc = "cross" /\ ~IsRow0(p)
  /\ ld[b].nUp < STEPS /\ (IsCol0(p) \/ ld[b].nUp <= ld[b].nLeft)
  /\ Fire({InUp(b)}, Put(<<"xbIn", b>>, [Head(chan[InUp(b)]) EXCEPT !.last = FALSE]))
  /\ IF CrossDone(p, ld[b].nLeft, ld[b].nUp + 1)
       THEN LeaveLoad(b, "cross")
       ELSE ld' = [ld EXCEPT ![b].nUp = @ + 1] /\ UNCHANGED start
  /\ UNCHANGED <<cp, st>>

(* C: the group from above first, then the group from the left.  Each loses *)
(* its header; only the last group keeps its TLAST.                          *)
DropCHeader(b) ==
  /\ \E phase \in {"cUpHeader", "cLeftHeader"} :
       /\ ld[b].pc = phase
       /\ Fire({IF phase = "cUpHeader" THEN InUp(b) ELSE InLeft(b)}, Nothing)
       /\ LeaveLoad(b, phase)
  /\ UNCHANGED <<cp, st>>

UpKeepsLastAlways(p) == TRUE         \* the group from above ends the pass
UpKeepsLast(p) == ~FromLeftC(p)

PassC(b) ==
  /\ \E phase \in {"cUp", "cLeft"} :
       LET port == IF phase = "cUp" THEN InUp(b) ELSE InLeft(b)
           w    == Head(chan[port])
           keep == phase = "cUp" => UpKeepsLast(ld[b].at)
       IN  /\ ld[b].pc = phase
           /\ Fire({port}, Put(<<"cPass", b>>, [w EXCEPT !.last = @ /\ keep]))
           /\ IF w.last THEN LeaveLoad(b, phase) ELSE UNCHANGED <<ld, start>>
  /\ UNCHANGED <<cp, st>>

Load(b) ==
  \/ LoadStart(b) \/ Pick(b) \/ SendPos(b)
  \/ GroupHeader(b) \/ ForwardHeader(b) \/ FramePayload(b)
  \/ CrossHeaders(b) \/ CrossLeft(b) \/ CrossUp(b)
  \/ DropCHeader(b) \/ PassC(b)
-----------------------------------------------------------------------------
(* compute: operands first, then STEPS systolic steps, then the accumulators*)

ComputeIdle == [pc |-> "pos", at |-> NoPosition, n |-> 0]

(* n counts the iterations of the loop the process is in. *)
IterateCompute(b, phase, bound) ==
  IF cp[b].n < bound - 1
    THEN cp' = [cp EXCEPT ![b].n = @ + 1]
    ELSE LET next == Following(ComputeOrder, ComputeHas, cp[b].at, phase)
         IN  cp' = [cp EXCEPT ![b] = IF next = "pos" THEN ComputeIdle
                                     ELSE [@ EXCEPT !.pc = next, !.n = 0]]

ComputePos(b) ==
  LET p == Head(chan[<<"posC", b>>]) IN
  /\ cp[b].pc = "pos"
  /\ Fire({<<"posC", b>>}, Nothing)
  /\ cp' = [cp EXCEPT ![b].at = p,
                      ![b].pc = FirstFrom(ComputeOrder, ComputeHas, p, 1)]
  /\ UNCHANGED <<start, ld, st>>

RecvOperands(b) ==
  /\ \E phase \in {"recvA", "recvB"} :
       /\ cp[b].pc = phase
       /\ Fire({<<IF phase = "recvA" THEN "bufA" ELSE "bufB", b>>}, Nothing)
       /\ IterateCompute(b, phase, K)
  /\ UNCHANGED <<start, ld, st>>

(* One systolic step: the edges go out before the neighbours' come in, all  *)
(* in the same state of the schedule.                                       *)
CrossingWord(b, name) ==
  IF name = "xaOut" THEN Payload("A_CROSS", RightOf(cp[b].at), cp[b].n, FALSE)
                    ELSE Payload("B_CROSS", Below(cp[b].at), cp[b].n, FALSE)

Step(b) ==
  LET p   == cp[b].at
      in  == (IF IsCol0(p) THEN {} ELSE {"xaIn"}) \cup
             (IF IsRow0(p) THEN {} ELSE {"xbIn"})
      out == (IF IsLastCol(p) THEN {} ELSE {"xaOut"}) \cup
             (IF IsLastRow(p) THEN {} ELSE {"xbOut"})
  IN  /\ cp[b].pc = "step"
      /\ Fire(in \X {b}, [c \in out \X {b} |-> CrossingWord(b, c[1])])
      /\ IterateCompute(b, "step", STEPS)
      /\ UNCHANGED <<start, ld, st>>

Drain(b) ==
  /\ cp[b].pc = "drain"
  /\ Fire({}, Put(<<"cMine", b>>, Payload("C_DATA", cp[b].at, cp[b].n, FALSE)))
  /\ IterateCompute(b, "drain", ACCS)
  /\ UNCHANGED <<start, ld, st>>

Compute(b) == ComputePos(b) \/ RecvOperands(b) \/ Step(b) \/ Drain(b)
-----------------------------------------------------------------------------
(* store: owns both output ports.  Forwarded frames, then crossing, then C. *)

StoreIdle == [pc |-> "pos", at |-> NoPosition, n |-> 0, nRight |-> 0, nDown |-> 0]

AfterStore(p, phase) == Following(StoreOrder, StoreHas, p, phase)

LeaveStore(b, phase) ==
  LET next == AfterStore(st[b].at, phase)
  IN  st' = [st EXCEPT ![b] = IF next = "pos" THEN StoreIdle
                              ELSE [@ EXCEPT !.pc = next, !.n = 0]]

StorePos(b) ==
  LET p == Head(chan[<<"posS", b>>]) IN
  /\ st[b].pc = "pos"
  /\ Fire({<<"posS", b>>}, Nothing)
  /\ st' = [st EXCEPT ![b].at = p,
                      ![b].pc = FirstFrom(StoreOrder, StoreHas, p, 1)]
  /\ UNCHANGED <<start, ld, cp>>

(* chan_to_port with keep_last: until the beat that carries TLAST. *)
StoreFrames(b) ==
  /\ \E phase \in {"frameRight", "frameDown"} :
       LET src == <<IF phase = "frameRight" THEN "fwdRight" ELSE "fwdDown", b>>
           w   == Head(chan[src])
       IN  /\ st[b].pc = phase
           /\ Fire({src}, Put(IF phase = "frameRight" THEN OutRight(b)
                                                      ELSE OutDown(b), w))
           /\ IF w.last THEN LeaveStore(b, phase) ELSE UNCHANGED st
  /\ UNCHANGED <<start, ld, cp>>

(* A crossing header names the neighbour, so that a block which receives no *)
(* frame still learns its position.                                         *)
StoreHeaders(b) ==
  LET p == st[b].at IN
  /\ \/ /\ st[b].pc = "headerRight"
        /\ Fire({}, Put(OutRight(b), Header("A_CROSS", RightOf(p))))
        /\ LeaveStore(b, "headerRight")
     \/ /\ st[b].pc = "headerDown"
        /\ Fire({}, Put(OutDown(b), Header("B_CROSS", Below(p))))
        /\ LeaveStore(b, "headerDown")
  /\ UNCHANGED <<start, ld, cp>>

(* XCROSS: the two transfers of an iteration complete in either order. *)
StoreCrossDone(p, nRight, nDown) ==
  (IsLastCol(p) \/ nRight = STEPS) /\ (IsLastRow(p) \/ nDown = STEPS)

StoreCrossRight(b) ==
  LET s == st[b] IN
  /\ s.pc = "cross" /\ ~IsLastCol(s.at)
  /\ s.nRight < STEPS /\ (IsLastRow(s.at) \/ s.nRight <= s.nDown)
  /\ Fire({<<"xaOut", b>>},
          Put(OutRight(b), [Head(chan[<<"xaOut", b>>]) EXCEPT
                              !.last = s.nRight = STEPS - 1]))
  /\ IF StoreCrossDone(s.at, s.nRight + 1, s.nDown)
       THEN LeaveStore(b, "cross")
       ELSE st' = [st EXCEPT ![b].nRight = @ + 1]
  /\ UNCHANGED <<start, ld, cp>>

StoreCrossDown(b) ==
  LET s == st[b] IN
  /\ s.pc = "cross" /\ ~IsLastRow(s.at)
  /\ s.nDown < STEPS /\ (IsLastCol(s.at) \/ s.nDown <= s.nRight)
  /\ Fire({<<"xbOut", b>>},
          Put(OutDown(b), [Head(chan[<<"xbOut", b>>]) EXCEPT
                             !.last = s.nDown = STEPS - 1]))
  /\ IF StoreCrossDone(s.at, s.nRight, s.nDown + 1)
       THEN LeaveStore(b, "cross")
       ELSE st' = [st EXCEPT ![b].nDown = @ + 1]
  /\ UNCHANGED <<start, ld, cp>>

(* C leaves to the right, in the last column down. *)
COut(b) == IF IsLastCol(st[b].at) THEN OutDown(b) ELSE OutRight(b)

StoreCHeader(b) ==
  /\ st[b].pc = "cHeader"
  /\ Fire({}, Put(COut(b), Header("C_DATA", st[b].at)))
  /\ LeaveStore(b, "cHeader")
  /\ UNCHANGED <<start, ld, cp>>

PassedOnWhole(w) == w                  \* chan_to_port with keep_last
PassedOn(w) == [w EXCEPT !.last = FALSE]

(* chan_to_port without keep_last: the gathered beats lose their TLAST. *)
StorePassC(b) ==
  LET w == Head(chan[<<"cPass", b>>]) IN
  /\ st[b].pc = "cPass"
  /\ Fire({<<"cPass", b>>}, Put(COut(b), PassedOn(w)))
  /\ IF w.last THEN LeaveStore(b, "cPass") ELSE UNCHANGED st
  /\ UNCHANGED <<start, ld, cp>>

BeatFullAlways(n) == TRUE              \* a beat for every accumulator
BeatFull(n) == n % APB = APB - 1

(* emit_c: APB accumulators make one beat; n counts accumulators. *)
EmitC(b) ==
  LET n == st[b].n
      w == Head(chan[<<"cMine", b>>])
      beat == Payload("C_DATA", w.at, w.i \div APB, n = ACCS - 1)
  IN  /\ st[b].pc = "emit"
      /\ Fire({<<"cMine", b>>},
              IF BeatFull(n) THEN Put(COut(b), beat) ELSE Nothing)
      /\ IF n = ACCS - 1 THEN LeaveStore(b, "emit")
                         ELSE st' = [st EXCEPT ![b].n = @ + 1]
      /\ UNCHANGED <<start, ld, cp>>

Store(b) ==
  \/ StorePos(b) \/ StoreFrames(b) \/ StoreHeaders(b)
  \/ StoreCrossRight(b) \/ StoreCrossDown(b)
  \/ StoreCHeader(b) \/ StorePassC(b) \/ EmitC(b)
-----------------------------------------------------------------------------
(* A block, and the host's write of AP_START to it: while ap_start is still *)
(* set the write changes nothing.                                           *)

Block(b) == Load(b) \/ Compute(b) \/ Store(b)

ApStart(b) == start' = [start EXCEPT ![b] = TRUE]

BlockInit ==
  /\ start = [b \in Blocks |-> FALSE]
  /\ ld = [b \in Blocks |-> LoadIdle]
  /\ cp = [b \in Blocks |-> ComputeIdle]
  /\ st = [b \in Blocks |-> StoreIdle]
  /\ chan = [c \in Channels |-> << >>]

(* A block with nothing left to do. *)
AtRest(b) ==
  /\ ~start[b] /\ ld[b] = LoadIdle /\ cp[b] = ComputeIdle /\ st[b] = StoreIdle
  /\ \A f \in FifoNames : chan[<<f, b>>] = << >>
=============================================================================
