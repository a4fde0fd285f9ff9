------------------------------- MODULE SaTile -------------------------------
(***************************************************************************)
(* One tile on any mesh of blocks: the two transfers that the host sends,   *)
(* the words that come back, and what must hold of the blocks meanwhile.    *)
(* SaMesh and AuroraMesh carry such tiles.                                  *)
(***************************************************************************)
EXTENDS SaGrid

(* The two transfers of a tile, build_stream: the frames in order, TLAST on *)
(* the last beat of the transfer.                                           *)
BDescending == Group("B_FRAME", [f \in 1 .. S |-> <<0, S - f>>], K)  \* last column first
BTransfer == Group("B_FRAME", [f \in 1 .. S |-> <<0, f - 1>>], K)

ADescending == Group("A_FRAME", [f \in 1 .. R |-> <<R - f, 0>>], K)  \* last row first
ATransfer == Group("A_FRAME", [f \in 1 .. R |-> <<f - 1, 0>>], K)

RECV_BEATS == 1 + R * S * CBEAT

(* What comes back: the header of the last block, then every block's tile   *)
(* in block row-major order, TLAST on the last beat.                        *)
Gathered ==
  [n \in 1 .. RECV_BEATS |->
     IF n = 1 THEN Header("C_DATA", <<R - 1, S - 1>>)
     ELSE LET m == (n - 2) \div CBEAT
          IN  Payload("C_DATA", <<m \div S, m % S>>, (n - 2) % CBEAT, n = RECV_BEATS)]

InOrder(m) == \A n \in 1 .. Len(m) : m[n] = Gathered[n]
-----------------------------------------------------------------------------
(* Whatever position a process of a block has learned from headers, it is   *)
(* the place where the block sits in the mesh (load, sa_grid.cpp:120).      *)
SelfLocation ==
  \A b \in Blocks :
    /\ ld[b].at \in {NoPosition, b}
    /\ cp[b].at \in {NoPosition, b}
    /\ st[b].at \in {NoPosition, b}

(* No beat is taken for what it is not: where load is about to read a       *)
(* header the port shows the header that phase is for, where it is about to *)
(* read payload the port shows the next payload beat of that very group,    *)
(* and compute's step t gets the neighbours' beats of step t.               *)
IsHeader(w, types, b) == w.hdr /\ w.type \in types /\ w.at = b
IsPayload(w, type, b, i) == ~w.hdr /\ w.type = type /\ w.at = b /\ w.i = i

Shows(c, Ok(_)) == HasWord(c) => Ok(Head(chan[c]))

Framing ==
  \A b \in Blocks :
    LET pc == ld[b].pc
        first(w)    == IsHeader(w, Types \ {"C_DATA"}, b)
        frame(w)    == w.hdr /\ IsFrame(w)
        operand(w)  == IsPayload(w, ld[b].h.type, ld[b].h.at, ld[b].n)
        crossHdr(w) == IsHeader(w, {"A_CROSS", "B_CROSS"}, b)
        aBeat(w)    == IsPayload(w, "A_CROSS", b, ld[b].nLeft)
        bBeat(w)    == IsPayload(w, "B_CROSS", b, ld[b].nUp)
        cHdr(w)     == w.hdr /\ w.type = "C_DATA"
        cBeat(w)    == ~w.hdr /\ w.type = "C_DATA"
        aStep(w)    == IsPayload(w, "A_CROSS", b, cp[b].n)
        bStep(w)    == IsPayload(w, "B_CROSS", b, cp[b].n)
        aOwn(w)     == IsPayload(w, "A_FRAME", b, cp[b].n)
        bOwn(w)     == IsPayload(w, "B_FRAME", b, cp[b].n)
    IN  /\ pc = "pick" => Shows(InLeft(b), first) /\ Shows(InUp(b), first)
        /\ pc = "groupHeader" /\ ~ld[b].fresh => Shows(FramePort(b), frame)
        /\ pc = "payload" => Shows(FramePort(b), operand)
        /\ pc = "crossHeaders" =>
             /\ ~IsCol0(b) /\ ~HaveHeader(b, "left") => Shows(InLeft(b), crossHdr)
             /\ ~IsRow0(b) /\ ~HaveHeader(b, "up") => Shows(InUp(b), crossHdr)
        /\ pc = "cross" /\ ld[b].nLeft < STEPS => Shows(InLeft(b), aBeat)
        /\ pc = "cross" /\ ld[b].nUp < STEPS => Shows(InUp(b), bBeat)
        /\ pc = "cUpHeader" => Shows(InUp(b), cHdr)
        /\ pc = "cLeftHeader" => Shows(InLeft(b), cHdr)
        /\ pc = "cUp" => Shows(InUp(b), cBeat)
        /\ pc = "cLeft" => Shows(InLeft(b), cBeat)
        /\ cp[b].pc = "step" => Shows(<<"xaIn", b>>, aStep) /\ Shows(<<"xbIn", b>>, bStep)
        /\ cp[b].pc = "recvA" => Shows(<<"bufA", b>>, aOwn)
        /\ cp[b].pc = "recvB" => Shows(<<"bufB", b>>, bOwn)
=============================================================================
