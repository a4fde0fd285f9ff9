-------------------------- MODULE SaControl_proofs --------------------------
(***************************************************************************)
(* For start FIFOs of any depth, and whatever the timing of the bus, of the *)
(* processes and of the program: what the program is told is so.            *)
(***************************************************************************)
EXTENDS SaControl, TLAPS

Ops == {"none", "Start", "IsDone", "IsIdle", "IsReady", "EnableAutoRestart", "DisableAutoRestart",
        "InterruptGlobalEnable", "InterruptGlobalDisable", "InterruptEnable", "InterruptDisable",
        "InterruptClear", "InterruptGetEnabled", "InterruptGetStatus"}

CtrlBits == {"start", "done", "idle", "ready", "auto_restart", "interrupt"}

(* A read whose answer is on its way; a Start whose write is yet to come.   *)
Reading(op) == call.op = op /\ call.pc = "read" /\ rstate = "RDDATA"
Unwritten(op) == call.op = op /\ (call.pc = "read" \/ (call.pc = "write" /\ wstate # "WRRESP"))

Types ==
  /\ wstate \in {"WRIDLE", "WRDATA", "WRRESP"} /\ rstate \in {"RDIDLE", "RDDATA"}
  /\ int_ap_start \in BOOLEAN /\ int_task_ap_done \in BOOLEAN /\ int_ap_idle \in BOOLEAN
  /\ int_ap_ready \in BOOLEAN /\ int_auto_restart \in BOOLEAN /\ auto_restart_status \in BOOLEAN
  /\ int_gie \in BOOLEAN /\ int_interrupt \in BOOLEAN /\ start_once_reg \in BOOLEAN
  /\ go \in BOOLEAN /\ unread \in BOOLEAN
  /\ int_ier \subseteq Events /\ int_isr \subseteq Events
  /\ load \in {"idle", "run"}
  /\ start_for \in [Followers -> Nat]
  /\ start_for["compute"] <= COMPUTE_DEPTH /\ start_for["store"] <= STORE_DEPTH
  /\ program \in {"overlapping", "single"}
  /\ rdata \subseteq CtrlBits
  /\ call \in [op : Ops, mask : SUBSET Events, pc : {"none", "read", "write"}, data : SUBSET CtrlBits]

(* The bus belongs to the call in progress. *)
BusInv ==
  /\ wstate # "WRIDLE" => call.pc = "write"
  /\ rstate # "RDIDLE" => call.pc = "read"
  /\ call.pc = "none" => call.op = "none"
  /\ call.op = "none" => call.pc = "none"
  /\ Unwritten("Start") => WaitsFor[program] \in told
  /\ \A op \in {"InterruptEnable", "InterruptDisable"} :
       (Reading(op) => rdata \subseteq Events) /\ (call.op = op => call.data \subseteq Events)

BlockInv ==
  /\ ends \subseteq Followers \cup {"load"} /\ MayEnd(ends)
  /\ start_once_reg = (load = "run")
  /\ load = "run" => int_ap_start
  /\ surplus = IF int_ap_start /\ load = "idle" THEN 1 ELSE 0

ToldInv ==
  /\ int_ap_idle => Idling \/ (call.pc = "write" /\ wstate = "WRRESP")
  /\ "acknowledged" \in told => "idle" \in told
  /\ "idle" \in told \/ (Reading("IsIdle") /\ "idle" \in rdata) => Idling
  /\ "ready" \in told \/ (Reading("IsReady") /\ "start" \notin rdata) => ~int_ap_start

DoneInv == unread => int_task_ap_done \/ (auto_restart_status /\ ~int_ap_idle)

(* A program with one run at a time. *)
RunOver == ~int_ap_start /\ start_for["store"] = 0

SingleInv ==
  program = "single" =>
    /\ ~int_auto_restart /\ ~auto_restart_status
    /\ call.op \notin {"EnableAutoRestart", "DisableAutoRestart", "IsReady"}
    /\ "auto_restart" \notin rdata /\ "auto_restart" \notin call.data
    /\ start_for["store"] <= IF int_ap_start /\ load = "idle" THEN 0 ELSE 1
    /\ ~RunOver => ~int_task_ap_done
    /\ Unwritten("Start") /\ ~(call.pc = "read" /\ rstate = "RDIDLE") => ~int_task_ap_done
    /\ "done" \in told \/ (Reading("IsDone") /\ "done" \in rdata) => RunOver

(* The events the program knows of or is about to. *)
Known == status \cup (IF Reading("InterruptGetStatus") THEN rdata ELSE {})

EventInv ==
  program = "single" =>
    /\ "ready" \in int_isr => ~int_ap_start
    /\ "done" \in int_isr => RunOver
    /\ unseen \subseteq int_isr
    /\ Known \subseteq int_isr /\ Known \cap unseen = {}
    /\ Unwritten("InterruptClear") => call.mask = status /\ status # {}
    /\ "acknowledged" \in told \/ (Reading("InterruptGetStatus") /\ rdata = {} /\ "idle" \in told)
         => int_isr = {}

IInv == Types /\ BusInv /\ BlockInv /\ ToldInv /\ DoneInv /\ SingleInv /\ EventInv
-----------------------------------------------------------------------------
(* The driver's registers *)

LEMMA Registers ==
  ASSUME NEW op \in Ops
  PROVE  /\ ReadsFrom(op) \in {"AP_CTRL", "IER", "ISR", "none"}
         /\ WritesTo(op) \in {"AP_CTRL", "GIE", "IER", "ISR", "none"}
         /\ ReadsFrom(op) = "AP_CTRL" <=> op \in {"Start", "IsDone", "IsIdle", "IsReady"}
         /\ ReadsFrom(op) = "ISR" <=> op = "InterruptGetStatus"
         /\ WritesTo(op) = "AP_CTRL" <=> op \in {"Start", "EnableAutoRestart", "DisableAutoRestart"}
         /\ WritesTo(op) = "ISR" <=> op = "InterruptClear"
         /\ WritesTo(op) = "none" <=> op \in {"none", "IsDone", "IsIdle", "IsReady",
                                              "InterruptGetEnabled", "InterruptGetStatus"}
         /\ ReadsFrom(op) = "none" /\ op # "none" => WritesTo(op) # "none"
BY SMT DEF Ops, ReadsFrom, WritesTo

LEMMA Bits ==
  /\ call.op = "Start" => /\ "start" \in WDATA
                          /\ "auto_restart" \in WDATA <=> "auto_restart" \in call.data
  /\ call.op \in {"EnableAutoRestart", "DisableAutoRestart"} => "start" \notin WDATA
  /\ call.op = "InterruptClear" => WDATA = call.mask
BY SMT DEF WDATA

LEMMA Answers ==
  /\ Answer \subseteq {"ready", "done", "idle", "acknowledged"}
  /\ "ready" \in Answer <=> call.op = "IsReady" /\ "start" \notin rdata
  /\ "done" \in Answer <=> call.op = "IsDone" /\ "done" \in rdata
  /\ "idle" \in Answer <=> call.op = "IsIdle" /\ "idle" \in rdata
  /\ "acknowledged" \in Answer <=> call.op = "InterruptGetStatus" /\ rdata = {} /\ "idle" \in told
BY SMT DEF Answer

LEMMA CallsOf ==
  /\ \A p \in {"overlapping", "single"} : Calls[p] \subseteq Ops \ {"none"}
  /\ Calls["single"] \cap {"EnableAutoRestart", "DisableAutoRestart", "IsReady"} = {}
  /\ WaitsFor["overlapping"] = "ready" /\ WaitsFor["single"] = "acknowledged"
BY SMT DEF Calls, Ops, Polls, WaitsFor
-----------------------------------------------------------------------------
(* One clock edge *)

LEMMA Resting ==
  ASSUME IInv, Idling
  PROVE  ends = {} /\ ~ap_ready /\ ~ap_done /\ ~real_start
BY SMT DEF IInv, BlockInv, Types, MayEnd, Idling, Followers, ap_ready, ap_done, real_start

(* A Start is written when the program has waited for it. *)
LEMMA Waited ==
  ASSUME IInv, StartWritten
  PROVE  /\ call.op = "Start" /\ call.pc = "write" /\ wstate = "WRDATA" /\ go
         /\ ~int_ap_start /\ load = "idle" /\ ~ap_ready
         /\ program = "single" => /\ Idling /\ int_isr = {} /\ ~int_task_ap_done /\ ends = {}
                                  /\ "auto_restart" \notin WDATA
<1>1. call.op = "Start" /\ call.pc = "write" /\ wstate = "WRDATA" /\ go
  BY DEF StartWritten, Written, w_hs
<1>2. WaitsFor[program] \in told
  BY <1>1 DEF IInv, BusInv, Unwritten
<1>3. program \in {"overlapping", "single"}
  BY DEF IInv, Types
<1>4. CASE program = "overlapping"
  <2>1. ~int_ap_start
    BY <1>2, <1>4, CallsOf DEF IInv, ToldInv
  <2> QED  BY <1>1, <1>4, <2>1 DEF IInv, BlockInv, Types, MayEnd, ap_ready
<1>5. CASE program = "single"
  <2>1. Idling
    BY <1>2, <1>5, CallsOf DEF IInv, ToldInv
  <2>2. int_isr = {}
    BY <1>2, <1>5, CallsOf DEF IInv, EventInv
  <2>3. ~int_task_ap_done
    BY <1>1, <1>5 DEF IInv, SingleInv, Unwritten
  <2>4. "auto_restart" \notin WDATA
    BY <1>1, <1>5, Bits DEF IInv, SingleInv
  <2> QED  BY <1>1, <2>1, <2>2, <2>3, <2>4, Resting DEF Idling
<1> QED  BY <1>3, <1>4, <1>5

LEMMA StartBit ==
  ASSUME IInv, Next
  PROVE  /\ int_ap_start' = IF StartWritten THEN TRUE ELSE IF ap_ready THEN int_auto_restart ELSE int_ap_start
         /\ int_ap_start' \in BOOLEAN
<1>1. call.op \in Ops
  BY DEF IInv, Types
<1>2. Written("AP_CTRL") /\ "start" \in WDATA <=> StartWritten
  BY <1>1, Registers, Bits DEF Written, StartWritten
<1> QED  BY <1>2 DEF Next, Start, IInv, Types

(* What begins and what ends. *)
LEMMA BlockNext ==
  ASSUME IInv, Next
  PROVE  /\ BlockInv'
         /\ load' \in {"idle", "run"} /\ start_once_reg' \in BOOLEAN
         /\ start_for' \in [Followers -> Nat]
         /\ start_for'["compute"] <= COMPUTE_DEPTH /\ start_for'["store"] <= STORE_DEPTH
<1>1. /\ load' = IF ap_ready THEN "idle" ELSE IF real_start THEN "run" ELSE load
      /\ start_once_reg' = IF ap_ready THEN FALSE ELSE start_once_reg \/ real_start
      /\ start_for' = [p \in Followers |->
           start_for[p] + (IF start_write THEN 1 ELSE 0) - (IF p \in ends THEN 1 ELSE 0)]
  BY DEF Next, Processes
<1>0. (ends \subseteq Followers \cup {"load"} /\ MayEnd(ends))'
  BY DEF Next, MayEnd, Followers
<1>2. /\ load \in {"idle", "run"} /\ start_for \in [Followers -> Nat] /\ int_ap_start \in BOOLEAN
      /\ start_for["compute"] <= COMPUTE_DEPTH /\ start_for["store"] <= STORE_DEPTH
      /\ start_once_reg = (load = "run") /\ (load = "run" => int_ap_start)
      /\ ends \subseteq Followers \cup {"load"} /\ MayEnd(ends)
  BY DEF IInv, BlockInv, Types
<1>3. load' \in {"idle", "run"} /\ start_once_reg' = (load' = "run")
  BY <1>1, <1>2
<1>4. load' = "run" => int_ap_start'
  BY <1>1, <1>2, StartBit DEF real_start
<1>5. surplus' = IF int_ap_start' /\ load' = "idle" THEN 1 ELSE 0
  <2>1. surplus' = surplus
          + (IF StartWritten \/ (ap_ready /\ int_auto_restart) THEN 1 ELSE 0)
          - (IF load = "idle" /\ real_start THEN 1 ELSE 0)
    BY DEF Next, History
  <2>2. surplus = IF int_ap_start /\ load = "idle" THEN 1 ELSE 0
    BY DEF IInv, BlockInv
  <2>3. real_start => int_ap_start
    BY DEF real_start
  <2>4. ap_ready => load = "run"
    BY <1>2 DEF MayEnd, ap_ready
  <2>5. CASE StartWritten
    <3>1. ~int_ap_start /\ load = "idle" /\ ~ap_ready /\ int_ap_start'
      BY <2>5, Waited, StartBit
    <3> QED  BY SMT, <1>1, <2>1, <2>2, <2>3, <2>5, <3>1
  <2>6. CASE ~StartWritten /\ ap_ready
    <3>1. load = "run" /\ load' = "idle" /\ int_ap_start' = int_auto_restart
      BY <1>1, <2>4, <2>6, StartBit
    <3>2. int_auto_restart \in BOOLEAN
      BY DEF IInv, Types
    <3> QED  BY SMT, <2>1, <2>2, <2>6, <3>1, <3>2
  <2>7. CASE ~StartWritten /\ ~ap_ready
    <3>1. int_ap_start' = int_ap_start /\ load' = IF real_start THEN "run" ELSE load
      BY <1>1, <2>7, StartBit
    <3> QED  BY SMT, <1>2, <2>1, <2>2, <2>3, <2>7, <3>1
  <2> QED  BY <2>5, <2>6, <2>7
<1>6. ASSUME NEW p \in Followers
      PROVE  /\ start_for'[p] = start_for[p] + (IF start_write THEN 1 ELSE 0) - (IF p \in ends THEN 1 ELSE 0)
             /\ start_for'[p] \in Nat
             /\ p = "compute" => start_for'[p] <= COMPUTE_DEPTH
             /\ p = "store" => start_for'[p] <= STORE_DEPTH
  <2>1. start_for'[p] = start_for[p] + (IF start_write THEN 1 ELSE 0) - (IF p \in ends THEN 1 ELSE 0)
    BY <1>1
  <2>2. p \in ends => start_for[p] > 0
    BY SMT, <1>2 DEF MayEnd, Followers
  <2>3. start_write => start_for[p] < StartDepth[p]
    BY <1>2 DEF start_write, real_start, start_full_n
  <2>4. StartDepth["compute"] = COMPUTE_DEPTH /\ StartDepth["store"] = STORE_DEPTH
    BY DEF StartDepth
  <2>5. start_for[p] \in Nat /\ COMPUTE_DEPTH \in Nat /\ STORE_DEPTH \in Nat
    BY <1>2, DepthAssumption
  <2> QED  BY SMT, <1>2, <2>1, <2>2, <2>3, <2>4, <2>5
<1>7. start_for' \in [Followers -> Nat]
  BY <1>1, <1>6
<1>8. BlockInv'
  BY <1>0, <1>3, <1>4, <1>5 DEF BlockInv, MayEnd, Followers
<1>9. start_once_reg' \in BOOLEAN
  BY <1>3
<1> QED  BY <1>3, <1>6, <1>7, <1>8, <1>9 DEF Followers

LEMMA BusNext ==
  ASSUME IInv, Next
  PROVE  /\ wstate' = IF aw_hs THEN "WRDATA" ELSE IF w_hs THEN "WRRESP" ELSE IF b_hs THEN "WRIDLE" ELSE wstate
         /\ rstate' = IF ar_hs THEN "RDDATA" ELSE IF r_hs THEN "RDIDLE" ELSE rstate
         /\ wstate' \in {"WRIDLE", "WRDATA", "WRRESP"} /\ rstate' \in {"RDIDLE", "RDDATA"}
         /\ ~ar_hs => rdata' = rdata
BY DEF Next, Bus, IInv, Types, ReadOf

LEMMA ToldNext ==
  ASSUME IInv, Next
  PROVE  /\ program' = program
         /\ told' = IF StartWritten THEN {} ELSE IF r_hs THEN told \cup Answer ELSE told
         /\ status' = IF StartWritten \/ Written("ISR") THEN {}
                      ELSE IF r_hs /\ call.op = "InterruptGetStatus" THEN rdata ELSE status
         /\ go' \in BOOLEAN
BY DEF Next, Driver

(* The next call, or none. *)
LEMMA NewCall ==
  ASSUME IInv, Next, call.pc = "none" \/ Returns
  PROVE  /\ wstate' = "WRIDLE" /\ rstate' = "RDIDLE"
         /\ call' \in [op : Ops, mask : SUBSET Events, pc : {"none", "read", "write"}, data : SUBSET CtrlBits]
         /\ call'.data = {} /\ (call'.pc = "none" <=> call'.op = "none")
         /\ call'.op \in Calls[program] \cup {"none"}
         /\ call'.op = "Start" => call'.pc = "read" /\ WaitsFor[program] \in told'
         /\ call'.op = "InterruptClear" => call'.mask = status' /\ status' # {}
<1>1. wstate' = "WRIDLE" /\ rstate' = "RDIDLE"
  <2>1. (wstate # "WRIDLE" => call.pc = "write") /\ (rstate # "RDIDLE" => call.pc = "read")
        /\ wstate \in {"WRIDLE", "WRDATA", "WRRESP"} /\ rstate \in {"RDIDLE", "RDDATA"}
    BY DEF IInv, BusInv, Types
  <2> QED  BY <2>1, BusNext DEF Returns, aw_hs, w_hs, b_hs, ar_hs, r_hs
<1>2. CASE call' = NoCall
  <2>1. /\ call'.op = "none" /\ call'.pc = "none" /\ call'.data = {} /\ call'.mask = {}
        /\ call' = [op |-> "none", mask |-> {}, pc |-> "none", data |-> {}]
    BY <1>2 DEF NoCall
  <2> QED  BY <1>1, <2>1 DEF Ops
<1>3. CASE \E op \in Calls[program], mask \in SUBSET Events : Begin(op, mask)
  <2>1. PICK op \in Calls[program], mask \in SUBSET Events : Begin(op, mask)
    BY <1>3
  <2>2. op \in Ops \ {"none"}
    BY CallsOf DEF IInv, Types
  <2>3. PICK pc \in {"read", "write"} :
          /\ call' = [op |-> op, mask |-> mask, data |-> {}, pc |-> pc]
          /\ ReadsFrom(op) # "none" => pc = "read"
    BY <2>1 DEF Begin
  <2>4. /\ call'.op = op /\ call'.mask = mask /\ call'.data = {} /\ call'.pc = pc
        /\ call' \in [op : Ops, mask : SUBSET Events, pc : {"none", "read", "write"}, data : SUBSET CtrlBits]
    BY <2>2, <2>3
  <2>5. op = "Start" => pc = "read" /\ WaitsFor[program] \in told'
    <3>1. ReadsFrom("Start") = "AP_CTRL"
      BY DEF ReadsFrom
    <3> QED  BY <2>1, <2>3, <3>1 DEF Begin
  <2>6. op = "InterruptClear" => mask \in {status'} \ {{}}
    BY SMT, <2>1 DEF Begin, Masked
  <2> QED  BY <1>1, <2>2, <2>4, <2>5, <2>6
<1> QED  BY <1>2, <1>3 DEF Next, Driver

(* The call in progress. *)
LEMMA SameCall ==
  ASSUME IInv, Next, call.pc # "none", ~Returns
  PROVE  /\ call' \in [op : Ops, mask : SUBSET Events, pc : {"none", "read", "write"}, data : SUBSET CtrlBits]
         /\ call'.op = call.op /\ call'.mask = call.mask
         /\ call'.pc = IF r_hs THEN "write" ELSE call.pc
         /\ call'.data = IF r_hs THEN rdata ELSE call.data
<1>1. /\ call' = IF r_hs THEN [call EXCEPT !.pc = "write", !.data = rdata] ELSE call
      /\ call \in [op : Ops, mask : SUBSET Events, pc : {"none", "read", "write"}, data : SUBSET CtrlBits]
      /\ rdata \subseteq CtrlBits
  BY DEF Next, Driver, IInv, Types
<1> QED  BY <1>1

(* Where the call is after the edge. *)
LEMMA ReadingNext ==
  ASSUME IInv, Next, NEW op, Reading(op)'
  PROVE  /\ call.op = op /\ call.pc = "read" /\ ~StartWritten /\ ~Written("ISR")
         /\ told' = told /\ status' = status
         /\ (ar_hs /\ rstate = "RDIDLE") \/ (Reading(op) /\ rdata' = rdata)
<1>1. call'.op = op /\ call'.pc = "read" /\ rstate' = "RDDATA"
  BY DEF Reading
<1>2. call.pc # "none" /\ ~Returns
  BY <1>1, NewCall
<1>3. call.op = op /\ call.pc = "read" /\ ~r_hs
  BY <1>1, <1>2, SameCall
<1>4. ~StartWritten /\ ~Written("ISR")
  BY <1>3 DEF StartWritten, Written, w_hs
<1>5. (ar_hs /\ rstate = "RDIDLE") \/ (Reading(op) /\ rdata' = rdata)
  BY <1>1, <1>3, BusNext DEF ar_hs, Reading
<1> QED  BY <1>3, <1>4, <1>5, ToldNext

LEMMA UnwrittenNext ==
  ASSUME IInv, Next, NEW op, Unwritten(op)'
  PROVE  \/ /\ call.pc = "none" \/ Returns
            /\ call'.op = op /\ wstate' = "WRIDLE" /\ rstate' = "RDIDLE"
         \/ /\ Unwritten(op) /\ ~w_hs /\ ~StartWritten /\ ~Written("ISR")
            /\ call'.op = call.op /\ call'.mask = call.mask
            /\ call.pc = "read" /\ rstate = "RDIDLE" /\ ~ar_hs => call'.pc = "read" /\ rstate' = "RDIDLE"
<1>1. CASE call.pc = "none" \/ Returns
  BY <1>1, NewCall DEF Unwritten
<1>2. CASE call.pc # "none" /\ ~Returns
  <2>1. /\ call'.op = call.op /\ call'.mask = call.mask
        /\ call'.pc = IF r_hs THEN "write" ELSE call.pc
    BY <1>2, SameCall
  <2>2. call'.op = op /\ (call'.pc = "read" \/ (call'.pc = "write" /\ wstate' # "WRRESP"))
    BY DEF Unwritten
  <2>3. ~w_hs
    BY <2>1, <2>2, BusNext DEF w_hs, aw_hs, r_hs
  <2>4. call.op = op /\ (call.pc = "read" \/ (call.pc = "write" /\ wstate # "WRRESP"))
    BY <1>2, <2>1, <2>2, BusNext DEF Returns, r_hs, aw_hs, w_hs, b_hs
  <2>5. call.pc = "read" /\ rstate = "RDIDLE" /\ ~ar_hs => call'.pc = "read" /\ rstate' = "RDIDLE"
    BY <2>1, BusNext DEF r_hs
  <2> QED  BY <2>1, <2>3, <2>4, <2>5 DEF Unwritten, StartWritten, Written
<1> QED  BY <1>1, <1>2

LEMMA BusInvNext ==
  ASSUME IInv, Next
  PROVE  BusInv'
<1>0. /\ wstate # "WRIDLE" => call.pc = "write"
      /\ rstate # "RDIDLE" => call.pc = "read"
      /\ (call.pc = "none") <=> (call.op = "none")
      /\ wstate \in {"WRIDLE", "WRDATA", "WRRESP"} /\ rstate \in {"RDIDLE", "RDDATA"}
      /\ call.pc \in {"none", "read", "write"}
  BY DEF IInv, BusInv, Types
<1>1. /\ wstate' # "WRIDLE" => call'.pc = "write"
      /\ rstate' # "RDIDLE" => call'.pc = "read"
      /\ (call'.pc = "none") <=> (call'.op = "none")
  <2>1. CASE call.pc = "none" \/ Returns
    BY <2>1, NewCall
  <2>2. CASE call.pc # "none" /\ ~Returns
    BY <1>0, <2>2, SameCall, BusNext DEF Returns, aw_hs, w_hs, b_hs, ar_hs, r_hs
  <2> QED  BY <2>1, <2>2
<1>2. ASSUME Unwritten("Start")' PROVE WaitsFor[program'] \in told'
  <2>1. CASE (call.pc = "none" \/ Returns) /\ call'.op = "Start"
    BY <2>1, NewCall, ToldNext
  <2>2. CASE Unwritten("Start") /\ ~StartWritten
    BY <2>2, ToldNext DEF IInv, BusInv
  <2> QED  BY <1>2, <2>1, <2>2, UnwrittenNext
<1>3. ASSUME NEW op \in {"InterruptEnable", "InterruptDisable"}
      PROVE  (Reading(op)' => rdata' \subseteq Events) /\ (call'.op = op => call'.data \subseteq Events)
  <2>1. ASSUME Reading(op)' PROVE rdata' \subseteq Events
    <3>1. CASE Reading(op) /\ rdata' = rdata
      BY <3>1 DEF IInv, BusInv
    <3>2. CASE ar_hs /\ call.op = op
      <4>1. ReadsFrom(op) = "IER" /\ int_ier \subseteq Events
        BY SMT DEF ReadsFrom, IInv, Types
      <4> QED  BY <3>2, <4>1 DEF Next, Bus, ReadOf
    <3> QED  BY <2>1, <3>1, <3>2, ReadingNext
  <2>2. ASSUME call'.op = op PROVE call'.data \subseteq Events
    <3>1. CASE call.pc = "none" \/ Returns
      BY <3>1, NewCall
    <3>2. CASE call.pc # "none" /\ ~Returns
      <4>1. call.op = op /\ call'.data = IF r_hs THEN rdata ELSE call.data
        BY <2>2, <3>2, SameCall
      <4> QED  BY <4>1 DEF r_hs, IInv, BusInv, Reading
    <3> QED  BY <3>1, <3>2
  <2> QED  BY <2>1, <2>2
<1> QED  BY <1>1, <1>2, <1>3 DEF BusInv, Reading

LEMMA TypesNext ==
  ASSUME IInv, Next
  PROVE  Types'
<1>1. call.op \in Ops /\ rdata \subseteq CtrlBits /\ int_ier \subseteq Events /\ int_isr \subseteq Events
  BY DEF IInv, Types
<1>2. rdata' \subseteq CtrlBits
  BY <1>1 DEF Next, Bus, CtrlBits, Events, If
<1>3. int_ier' \subseteq Events
  <2>1. Written("IER") => WDATA \subseteq Events
    <3>1. CASE call.op = "InterruptEnable"
      BY SMT, <3>1 DEF WDATA, IInv, BusInv, Types
    <3>2. CASE call.op = "InterruptDisable"
      BY SMT, <3>2 DEF WDATA, IInv, BusInv, Types
    <3>3. WritesTo(call.op) = "IER" => call.op \in {"InterruptEnable", "InterruptDisable"}
      BY SMT DEF WritesTo
    <3> QED  BY <3>1, <3>2, <3>3 DEF Written
  <2> QED  BY <1>1, <2>1 DEF Next, Interrupts
<1>4. int_isr' \subseteq Events
  <2>1. Raised \subseteq Events
    BY DEF Raised, If, Events
  <2>2. Written("ISR") => WDATA \subseteq Events
    BY <1>1, Registers, Bits DEF Written, IInv, Types
  <2> QED  BY <1>1, <2>1, <2>2 DEF Next, Isr, Toggled
<1>5. call' \in [op : Ops, mask : SUBSET Events, pc : {"none", "read", "write"}, data : SUBSET CtrlBits]
  BY NewCall, SameCall
<1>6. /\ int_task_ap_done' \in BOOLEAN /\ int_ap_idle' \in BOOLEAN /\ int_ap_ready' \in BOOLEAN
      /\ int_auto_restart' \in BOOLEAN /\ auto_restart_status' \in BOOLEAN
      /\ int_gie' \in BOOLEAN /\ int_interrupt' \in BOOLEAN /\ unread' \in BOOLEAN
  <2>0. /\ int_task_ap_done \in BOOLEAN /\ int_ap_ready \in BOOLEAN /\ int_auto_restart \in BOOLEAN
        /\ auto_restart_status \in BOOLEAN /\ int_gie \in BOOLEAN /\ unread \in BOOLEAN
    BY DEF IInv, Types
  <2>1. int_task_ap_done' \in BOOLEAN
    BY <2>0, Zenon DEF Next, Done
  <2>2. int_ap_idle' \in BOOLEAN
    <3>1. ap_idle \in BOOLEAN
      BY Zenon DEF ap_idle
    <3> QED  BY <3>1, Zenon DEF Next, Idle
  <2>3. int_ap_ready' \in BOOLEAN
    BY <2>0, Zenon DEF Next, Ready
  <2>4. int_auto_restart' \in BOOLEAN
    <3>1. ("auto_restart" \in WDATA) \in BOOLEAN
      BY SMT
    <3>2. int_auto_restart' = ("auto_restart" \in WDATA) \/ int_auto_restart' = int_auto_restart
      BY Zenon DEF Next, AutoRestart
    <3> QED  BY <2>0, <3>1, <3>2, Zenon
  <2>5. auto_restart_status' \in BOOLEAN
    BY <2>0, Zenon DEF Next, AutoRestart
  <2>6. int_gie' \in BOOLEAN
    <3>1. ("gie" \in WDATA) \in BOOLEAN
      BY SMT
    <3>2. int_gie' = ("gie" \in WDATA) \/ int_gie' = int_gie
      BY Zenon DEF Next, Interrupts
    <3> QED  BY <2>0, <3>1, <3>2, Zenon
  <2>7. int_interrupt' \in BOOLEAN
    BY Zenon DEF Next, Interrupts
  <2>8. unread' \in BOOLEAN
    BY Zenon DEF Next, History
  <2> QED  BY <2>1, <2>2, <2>3, <2>4, <2>5, <2>6, <2>7, <2>8
<1>7. program' \in {"overlapping", "single"}
  BY ToldNext DEF IInv, Types
<1> QED  BY <1>2, <1>3, <1>4, <1>5, <1>6, <1>7, BusNext, ToldNext, StartBit, BlockNext DEF Types
-----------------------------------------------------------------------------
(* What the program was told stays so until it writes the next start *)

LEMMA CtrlRead ==
  ASSUME IInv, Next, ar_hs, call.op \in {"Start", "IsDone", "IsIdle", "IsReady"}
  PROVE  /\ ReadOf("AP_CTRL")
         /\ "start" \in rdata' <=> int_ap_start
         /\ "done" \in rdata' <=> int_task_ap_done
         /\ "idle" \in rdata' <=> int_ap_idle
<1>1. ReadOf("AP_CTRL")
  BY Registers DEF ReadOf, IInv, Types
<1> QED  BY <1>1 DEF Next, Bus, If

LEMMA IdleBit ==
  ASSUME IInv, ap_idle
  PROVE  Idling
BY DepthAssumption DEF IInv, BlockInv, Types, ap_idle, real_start, start_full_n, StartDepth, Idling, Followers

LEMMA StaysIdle ==
  ASSUME IInv, Next, Idling
  PROVE  /\ load' = "idle" /\ start_for'["compute"] = 0 /\ start_for'["store"] = 0
         /\ ~StartWritten => Idling'
<1>1. /\ load' = IF ap_ready THEN "idle" ELSE IF real_start THEN "run" ELSE load
      /\ start_for' = [p \in Followers |->
           start_for[p] + (IF start_write THEN 1 ELSE 0) - (IF p \in ends THEN 1 ELSE 0)]
  BY DEF Next, Processes
<1>2. ends = {} /\ ~ap_ready /\ ~real_start /\ ~start_write
  BY Resting DEF start_write
<1>3. load = "idle" /\ ~int_ap_start /\ start_for["compute"] = 0 /\ start_for["store"] = 0
  BY DEF Idling, Followers
<1>4. load' = "idle" /\ start_for'["compute"] = 0 /\ start_for'["store"] = 0
  BY <1>1, <1>2, <1>3 DEF Followers
<1>5. ~StartWritten => ~int_ap_start'
  BY <1>2, <1>3, StartBit
<1> QED  BY <1>4, <1>5 DEF Idling, Followers

LEMMA StaysReady ==
  ASSUME IInv, Next, ~int_ap_start, ~StartWritten
  PROVE  ~int_ap_start'
<1>1. ~ap_ready
  BY DEF IInv, BlockInv, MayEnd, ap_ready
<1> QED  BY <1>1, StartBit

LEMMA ToldInvNext ==
  ASSUME IInv, Next
  PROVE  ToldInv'
<1>0. /\ int_ap_idle => Idling \/ (call.pc = "write" /\ wstate = "WRRESP")
      /\ "acknowledged" \in told => "idle" \in told
      /\ "idle" \in told \/ (Reading("IsIdle") /\ "idle" \in rdata) => Idling
      /\ "ready" \in told \/ (Reading("IsReady") /\ "start" \notin rdata) => ~int_ap_start
  BY DEF IInv, ToldInv
<1>1. ASSUME int_ap_idle' PROVE Idling' \/ (call'.pc = "write" /\ wstate' = "WRRESP")
  <2>1. Idling
    BY <1>1, IdleBit DEF Next, Idle
  <2>2. CASE StartWritten
    <3>1. call.pc = "write" /\ wstate = "WRDATA" /\ w_hs /\ ~aw_hs /\ ~r_hs /\ ~Returns
      BY <2>2, Waited DEF aw_hs, w_hs, r_hs, b_hs, Returns
    <3> QED  BY <3>1, BusNext, SameCall
  <2> QED  BY <2>1, <2>2, StaysIdle
<1>2. "acknowledged" \in told' => "idle" \in told'
  BY <1>0, ToldNext, Answers
<1>3. ASSUME "idle" \in told' \/ (Reading("IsIdle")' /\ "idle" \in rdata') PROVE Idling'
  <2>1. ~StartWritten /\ Idling
    <3>1. CASE "idle" \in told'
      BY <1>0, <3>1, ToldNext, Answers DEF r_hs, Reading
    <3>2. CASE Reading("IsIdle")' /\ "idle" \in rdata'
      <4>1. CASE ar_hs /\ rstate = "RDIDLE"
        <5>1. call.op = "IsIdle" /\ call.pc = "read" /\ ~StartWritten
          BY <3>2, ReadingNext
        <5>2. int_ap_idle
          BY <3>2, <4>1, <5>1, CtrlRead
        <5> QED  BY <1>0, <5>1, <5>2
      <4>2. CASE Reading("IsIdle") /\ rdata' = rdata
        BY <1>0, <3>2, <4>2, ReadingNext
      <4> QED  BY <3>2, <4>1, <4>2, ReadingNext
    <3> QED  BY <1>3, <3>1, <3>2
  <2> QED  BY <2>1, StaysIdle
<1>4. ASSUME "ready" \in told' \/ (Reading("IsReady")' /\ "start" \notin rdata') PROVE ~int_ap_start'
  <2>1. ~StartWritten /\ ~int_ap_start
    <3>1. CASE "ready" \in told'
      BY <1>0, <3>1, ToldNext, Answers DEF r_hs, Reading
    <3>2. CASE Reading("IsReady")' /\ "start" \notin rdata'
      <4>1. CASE ar_hs /\ rstate = "RDIDLE"
        <5>1. call.op = "IsReady" /\ ~StartWritten
          BY <3>2, ReadingNext
        <5> QED  BY <3>2, <4>1, <5>1, CtrlRead
      <4>2. CASE Reading("IsReady") /\ rdata' = rdata
        BY <1>0, <3>2, <4>2, ReadingNext
      <4> QED  BY <3>2, <4>1, <4>2, ReadingNext
    <3> QED  BY <1>4, <3>1, <3>2
  <2> QED  BY <2>1, StaysReady
<1> QED  BY <1>1, <1>2, <1>3, <1>4 DEF ToldInv, Reading

LEMMA DoneInvNext ==
  ASSUME IInv, Next
  PROVE  DoneInv'
<1>0. /\ unread' = (ap_done \/ (unread /\ ~ReadOf("AP_CTRL")))
      /\ int_task_ap_done' = IF task_ap_done THEN TRUE
                             ELSE IF ReadOf("AP_CTRL") THEN FALSE ELSE int_task_ap_done
      /\ auto_restart_status' = IF int_auto_restart THEN TRUE
                                ELSE IF ap_idle THEN FALSE ELSE auto_restart_status
      /\ int_ap_idle' = ap_idle
  BY DEF Next, History, Done, AutoRestart, Idle
<1>1. unread => int_task_ap_done \/ (auto_restart_status /\ ~int_ap_idle)
  BY DEF IInv, DoneInv
<1>2. ap_done => ~ap_idle
  BY DEF IInv, BlockInv, Types, MayEnd, ap_done, ap_idle, Followers
<1>3. /\ ap_done /\ ~auto_restart_status => task_ap_done
      /\ auto_restart_status /\ ap_idle /\ ~int_ap_idle => task_ap_done
  BY DEF task_ap_done, auto_restart_done
<1>4. CASE ap_done
  BY <1>0, <1>2, <1>3, <1>4 DEF DoneInv
<1>5. CASE unread /\ ~ReadOf("AP_CTRL")
  <2>1. CASE int_task_ap_done
    BY <1>0, <1>5, <2>1 DEF DoneInv
  <2>2. CASE auto_restart_status /\ ~int_ap_idle
    BY <1>0, <1>3, <2>2 DEF DoneInv
  <2> QED  BY <1>1, <1>5, <2>1, <2>2
<1>6. CASE ~unread'
  BY <1>6 DEF DoneInv
<1> QED  BY <1>0, <1>4, <1>5, <1>6
-----------------------------------------------------------------------------
(* One run at a time *)

LEMMA StoreEnds ==
  ASSUME IInv, program = "single", ap_done
  PROVE  ~int_ap_start /\ load = "idle" /\ start_for["store"] = 1
<1>1. /\ start_for["store"] \in Nat /\ load \in {"idle", "run"} /\ int_ap_start \in BOOLEAN
      /\ start_for["store"] > (IF load = "run" THEN 1 ELSE 0)
      /\ start_for["store"] <= IF int_ap_start /\ load = "idle" THEN 0 ELSE 1
  BY DEF IInv, Types, BlockInv, SingleInv, MayEnd, ap_done, Followers
<1> QED  BY SMT, <1>1

LEMMA OverNext ==
  ASSUME IInv, Next, program = "single", RunOver \/ ap_done
  PROVE  ~StartWritten => RunOver'
<1>1. start_for' = [p \in Followers |->
           start_for[p] + (IF start_write THEN 1 ELSE 0) - (IF p \in ends THEN 1 ELSE 0)]
  BY DEF Next, Processes
<1>2. ~int_ap_start
  BY StoreEnds DEF RunOver
<1>3. ~start_write
  BY <1>2 DEF start_write, real_start
<1>4. start_for'["store"] = start_for["store"] - (IF ap_done THEN 1 ELSE 0)
  BY <1>1, <1>3 DEF Followers, ap_done, IInv, Types
<1>5. start_for'["store"] = 0
  <2>1. CASE ap_done
    BY <1>4, <2>1, StoreEnds
  <2>2. CASE ~ap_done
    BY <1>4, <2>2 DEF RunOver
  <2> QED  BY <2>1, <2>2
<1> QED  BY <1>2, <1>5, StaysReady DEF RunOver

LEMMA SingleInvNext ==
  ASSUME IInv, Next
  PROVE  SingleInv'
<1> SUFFICES ASSUME program = "single" PROVE SingleInv'
  BY ToldNext DEF SingleInv
<1>0. /\ ~int_auto_restart /\ ~auto_restart_status
      /\ call.op \notin {"EnableAutoRestart", "DisableAutoRestart", "IsReady"}
      /\ "auto_restart" \notin rdata /\ "auto_restart" \notin call.data
      /\ start_for["store"] <= IF int_ap_start /\ load = "idle" THEN 0 ELSE 1
      /\ int_task_ap_done => RunOver
      /\ Unwritten("Start") /\ ~(call.pc = "read" /\ rstate = "RDIDLE") => ~int_task_ap_done
      /\ "done" \in told \/ (Reading("IsDone") /\ "done" \in rdata) => RunOver
  BY DEF IInv, SingleInv
<1>1. ~int_auto_restart' /\ ~auto_restart_status'
  <2>1. Written("AP_CTRL") => "auto_restart" \notin WDATA
    <3>1. Written("AP_CTRL") => StartWritten
      BY <1>0, Registers DEF Written, StartWritten, IInv, Types
    <3> QED  BY <3>1, Waited
  <2> QED  BY <1>0, <2>1 DEF Next, AutoRestart
<1>2. /\ call'.op \notin {"EnableAutoRestart", "DisableAutoRestart", "IsReady"}
      /\ "auto_restart" \notin call'.data
  <2>1. CASE call.pc = "none" \/ Returns
    BY <2>1, NewCall, CallsOf
  <2>2. CASE call.pc # "none" /\ ~Returns
    BY <1>0, <2>2, SameCall
  <2> QED  BY <2>1, <2>2
<1>3. "auto_restart" \notin rdata'
  <2>1. int_ier \subseteq {"done", "ready"} /\ int_isr \subseteq {"done", "ready"}
    BY DEF IInv, Types, Events
  <2> QED  BY <1>0, <2>1 DEF Next, Bus, If
<1>4. start_for'["store"] <= IF int_ap_start' /\ load' = "idle" THEN 0 ELSE 1
  <2>1. CASE StartWritten
    <3>1. start_for'["store"] = 0
      BY <2>1, Waited, StaysIdle
    <3> QED  BY SMT, <3>1
  <2>2. CASE ~StartWritten
    <3>1. /\ load' = IF ap_ready THEN "idle" ELSE IF real_start THEN "run" ELSE load
          /\ start_for' = [p \in Followers |->
               start_for[p] + (IF start_write THEN 1 ELSE 0) - (IF p \in ends THEN 1 ELSE 0)]
      BY DEF Next, Processes
    <3>2. start_for'["store"] = start_for["store"] + (IF start_write THEN 1 ELSE 0)
                                                 - (IF "store" \in ends THEN 1 ELSE 0)
      BY <3>1 DEF Followers
    <3>3. int_ap_start' = IF ap_ready THEN FALSE ELSE int_ap_start
      BY <1>0, <2>2, StartBit
    <3>4. /\ start_for["store"] \in Nat /\ load \in {"idle", "run"}
          /\ (ap_ready => load = "run")
          /\ (start_write => int_ap_start /\ load = "idle" /\ real_start)
      BY DEF IInv, Types, BlockInv, MayEnd, ap_ready, start_write, real_start, Followers
    <3> QED  BY SMT, <1>0, <3>1, <3>2, <3>3, <3>4
  <2> QED  BY <2>1, <2>2
<1>5. task_ap_done => ap_done
  BY <1>0 DEF task_ap_done, auto_restart_done
<1>6. int_task_ap_done' = IF task_ap_done THEN TRUE
                          ELSE IF ReadOf("AP_CTRL") THEN FALSE ELSE int_task_ap_done
  BY DEF Next, Done
<1>7. int_task_ap_done' => RunOver'
  <2>1. CASE StartWritten
    <3>1. ~int_task_ap_done /\ ~ap_done
      BY <2>1, Waited DEF ap_done
    <3> QED  BY <1>5, <1>6, <3>1
  <2>2. CASE ~StartWritten
    BY <1>0, <1>5, <1>6, <2>2, OverNext
  <2> QED  BY <2>1, <2>2
<1>8. ASSUME Unwritten("Start")', ~(call'.pc = "read" /\ rstate' = "RDIDLE")
      PROVE  ~int_task_ap_done'
  <2>1. Unwritten("Start")
        /\ (call.pc = "read" /\ rstate = "RDIDLE" /\ ~ar_hs => call'.pc = "read" /\ rstate' = "RDIDLE")
    <3>1. ~(call'.op = "Start" /\ rstate' = "RDIDLE" /\ (call.pc = "none" \/ Returns))
      BY <1>8, NewCall
    <3> QED  BY <1>8, <3>1, UnwrittenNext
  <2>2. Idling
    BY <2>1, CallsOf DEF IInv, BusInv, ToldInv
  <2>3. ~task_ap_done
    BY <1>5, <2>2, Resting
  <2>4. ReadOf("AP_CTRL") \/ ~int_task_ap_done
    <3>1. CASE ar_hs
      BY <2>1, <3>1, CtrlRead DEF Unwritten
    <3>2. CASE ~ar_hs
      BY <1>0, <1>8, <2>1, <3>2
    <3> QED  BY <3>1, <3>2
  <2> QED  BY <1>6, <2>3, <2>4
<1>9. ASSUME "done" \in told' \/ (Reading("IsDone")' /\ "done" \in rdata') PROVE RunOver'
  <2>1. ~StartWritten /\ RunOver
    <3>1. CASE "done" \in told'
      BY <1>0, <3>1, ToldNext, Answers DEF r_hs, Reading
    <3>2. CASE Reading("IsDone")' /\ "done" \in rdata'
      <4>1. CASE ar_hs /\ rstate = "RDIDLE"
        <5>1. call.op = "IsDone" /\ ~StartWritten
          BY <3>2, ReadingNext
        <5> QED  BY <1>0, <3>2, <4>1, <5>1, CtrlRead
      <4>2. CASE Reading("IsDone") /\ rdata' = rdata
        BY <1>0, <3>2, <4>2, ReadingNext
      <4> QED  BY <3>2, <4>1, <4>2, ReadingNext
    <3> QED  BY <1>9, <3>1, <3>2
  <2> QED  BY <2>1, OverNext
<1>10. program' = "single"
  BY ToldNext
<1> QED  BY <1>1, <1>2, <1>3, <1>4, <1>7, <1>8, <1>9, <1>10 DEF SingleInv, Unwritten, Reading, RunOver
-----------------------------------------------------------------------------
(* Interrupts *)

(* What is raised was not pending; what is written is what was acknowledged. *)
LEMMA IsrNext ==
  ASSUME IInv, Next, program = "single"
  PROVE  /\ int_isr' = Raised \cup (IF Written("ISR") THEN int_isr \ status ELSE int_isr)
         /\ Raised \cap int_isr = {}
         /\ Written("ISR") => status' = {}
         /\ "ready" \in Raised => ap_ready
         /\ "done" \in Raised => ap_done
         /\ Raised \subseteq {"ready", "done"} /\ int_isr \subseteq {"ready", "done"}
<1>0. /\ "ready" \in int_isr => ~int_ap_start
      /\ "done" \in int_isr => RunOver
      /\ status \subseteq int_isr
      /\ Unwritten("InterruptClear") => call.mask = status /\ status # {}
  BY DEF IInv, EventInv, Known
<1>1. ("ready" \in Raised => ap_ready) /\ ("done" \in Raised => ap_done) /\ Raised \subseteq {"ready", "done"}
  BY DEF Raised, If
<1>2. int_isr \subseteq {"ready", "done"}
  BY DEF IInv, Types, Events
<1>3. Raised \cap int_isr = {}
  <2>1. ap_ready => int_ap_start
    BY DEF ap_ready, IInv, BlockInv, MayEnd
  <2>2. ap_done => ~RunOver
    BY StoreEnds DEF RunOver
  <2> QED  BY <1>0, <1>1, <1>2, <2>1, <2>2
<1>4. Written("ISR") => WDATA = status
  <2>1. Written("ISR") => call.op = "InterruptClear"
    BY Registers DEF Written, IInv, Types
  <2> QED  BY <1>0, <2>1, Bits DEF Written, w_hs, Unwritten
<1>5. int_isr' = Raised \cup (IF Written("ISR") THEN int_isr \ status ELSE int_isr)
  BY <1>0, <1>4 DEF Next, Isr, Toggled
<1> QED  BY <1>1, <1>2, <1>3, <1>5, ToldNext

LEMMA EventInvNext ==
  ASSUME IInv, Next
  PROVE  EventInv'
<1> SUFFICES ASSUME program = "single" PROVE EventInv'
  BY ToldNext DEF EventInv
<1>0. /\ "ready" \in int_isr => ~int_ap_start
      /\ "done" \in int_isr => RunOver
      /\ unseen \subseteq int_isr
      /\ Known \subseteq int_isr /\ Known \cap unseen = {}
      /\ Unwritten("InterruptClear") => call.mask = status /\ status # {}
      /\ "acknowledged" \in told \/ (Reading("InterruptGetStatus") /\ rdata = {} /\ "idle" \in told)
           => int_isr = {}
  BY DEF IInv, EventInv
<1>1. StartWritten => int_isr = {} /\ Raised = {}
  <2>1. StartWritten => int_isr = {} /\ ends = {}
    BY Waited
  <2> QED  BY <2>1 DEF Raised, If, ap_done, ap_ready
<1>2. "ready" \in int_isr' => ~int_ap_start'
  <2>1. CASE StartWritten
    BY <1>1, <2>1, IsrNext
  <2>2. CASE ~StartWritten
    <3>1. ap_ready => ~int_ap_start'
      BY <2>2, StartBit DEF IInv, SingleInv
    <3>2. "ready" \in int_isr' => ap_ready \/ "ready" \in int_isr
      BY IsrNext
    <3> QED  BY <1>0, <2>2, <3>1, <3>2, StaysReady
  <2> QED  BY <2>1, <2>2
<1>3. "done" \in int_isr' => RunOver'
  <2>1. CASE StartWritten
    BY <1>1, <2>1, IsrNext
  <2>2. CASE ~StartWritten
    <3>1. "done" \in int_isr' => ap_done \/ "done" \in int_isr
      BY IsrNext
    <3> QED  BY <1>0, <2>2, <3>1, OverNext
  <2> QED  BY <2>1, <2>2
<1>4. unseen' = Raised \cup (IF ReadOf("ISR") THEN {} ELSE unseen)
  BY DEF Next, History
<1>5. status \subseteq Known /\ (Reading("InterruptGetStatus") => rdata \subseteq Known)
  BY DEF Known
<1>6. unseen' \subseteq int_isr'
  BY <1>0, <1>4, <1>5, IsrNext
<1>7. status' \subseteq Known
  BY <1>5, ToldNext DEF r_hs, Reading
<1>8. ASSUME ar_hs, call.op = "InterruptGetStatus"
      PROVE  ReadOf("ISR") /\ rdata' = int_isr
  <2>1. ReadsFrom(call.op) = "ISR"
    BY <1>8 DEF ReadsFrom
  <2> QED  BY <1>8, <2>1 DEF ReadOf, Next, Bus
<1>9. Known' \subseteq int_isr' /\ Known' \cap unseen' = {}
  <2>1. Known' = status' \cup (IF Reading("InterruptGetStatus")' THEN rdata' ELSE {})
    BY DEF Known, Reading
  <2>2. CASE ~Reading("InterruptGetStatus")'
    BY <1>0, <1>4, <1>7, <2>1, <2>2, IsrNext
  <2>3. CASE Reading("InterruptGetStatus")'
    <3>1. ~Written("ISR") /\ call.op = "InterruptGetStatus"
      BY <2>3, ReadingNext
    <3>2. CASE ar_hs
      <4>1. Known' \subseteq int_isr /\ unseen' = Raised
        BY <1>0, <1>4, <1>7, <1>8, <2>1, <2>3, <3>1, <3>2
      <4> QED  BY <3>1, <4>1, IsrNext
    <3>3. CASE Reading("InterruptGetStatus") /\ rdata' = rdata
      <4>1. Known' \subseteq Known
        BY <1>5, <1>7, <2>1, <3>3
      <4> QED  BY <1>0, <1>4, <3>1, <4>1, IsrNext
    <3> QED  BY <2>3, <3>2, <3>3, ReadingNext
  <2> QED  BY <2>2, <2>3
<1>10. ASSUME Unwritten("InterruptClear")' PROVE call'.mask = status' /\ status' # {}
  <2>1. CASE (call.pc = "none" \/ Returns) /\ call'.op = "InterruptClear"
    BY <2>1, NewCall
  <2>2. CASE /\ Unwritten("InterruptClear") /\ ~StartWritten /\ ~Written("ISR")
             /\ call'.mask = call.mask
    <3>1. status' = status
      BY <2>2, ToldNext DEF Unwritten
    <3> QED  BY <1>0, <2>2, <3>1
  <2> QED  BY <1>10, <2>1, <2>2, UnwrittenNext
<1>11. ASSUME "acknowledged" \in told'
              \/ (Reading("InterruptGetStatus")' /\ rdata' = {} /\ "idle" \in told')
       PROVE  int_isr' = {}
  <2>1. int_isr = {} /\ "idle" \in told
    <3>1. CASE "acknowledged" \in told'
      <4>1. "acknowledged" \in told => "idle" \in told
        BY DEF IInv, ToldInv
      <4> QED  BY <1>0, <3>1, <4>1, ToldNext, Answers DEF r_hs, Reading
    <3>2. CASE Reading("InterruptGetStatus")' /\ rdata' = {} /\ "idle" \in told'
      <4>1. "idle" \in told /\ call.op = "InterruptGetStatus"
        BY <3>2, ReadingNext
      <4>2. CASE ar_hs
        BY <1>8, <3>2, <4>1, <4>2
      <4>3. CASE Reading("InterruptGetStatus") /\ rdata' = rdata
        BY <1>0, <3>2, <4>1, <4>3
      <4> QED  BY <3>2, <4>1, <4>2, <4>3, ReadingNext
    <3> QED  BY <1>11, <3>1, <3>2
  <2>2. Raised = {}
    <3>1. ~ap_ready /\ ~ap_done
      BY <2>1, Resting DEF IInv, ToldInv
    <3> QED  BY <3>1 DEF Raised, If
  <2> QED  BY <2>1, <2>2, IsrNext
<1>12. program' = "single"
  BY ToldNext
<1> QED  BY <1>2, <1>3, <1>6, <1>9, <1>10, <1>11, <1>12 DEF EventInv, Unwritten, Reading
-----------------------------------------------------------------------------
LEMMA IInvInit == Init => IInv
<1> SUFFICES ASSUME Init PROVE IInv
  OBVIOUS
<1>1. /\ wstate = "WRIDLE" /\ rstate = "RDIDLE" /\ rdata = {} /\ ends = {} /\ load = "idle"
      /\ int_ap_start = FALSE /\ int_ap_idle = FALSE /\ unread = FALSE /\ int_task_ap_done = FALSE
      /\ int_auto_restart = FALSE /\ auto_restart_status = FALSE /\ start_once_reg = FALSE
      /\ told = {} /\ status = {} /\ unseen = {} /\ int_isr = {} /\ int_ier = {} /\ surplus = 0
      /\ start_for = [p \in Followers |-> 0]
      /\ call.op = "none" /\ call.pc = "none" /\ call.data = {} /\ call.mask = {}
      /\ call = [op |-> "none", mask |-> {}, pc |-> "none", data |-> {}]
  BY DEF Init, NoCall
<1>2. start_for["compute"] = 0 /\ start_for["store"] = 0 /\ start_for \in [Followers -> Nat]
  BY <1>1 DEF Followers
<1>3. program \in {"overlapping", "single"}
  BY DEF Init, Calls
<1>4. Types
  <2>1. /\ int_ap_ready = FALSE /\ int_gie = FALSE /\ int_interrupt = FALSE /\ go = FALSE
    BY DEF Init
  <2>2. call \in [op : Ops, mask : SUBSET Events, pc : {"none", "read", "write"}, data : SUBSET CtrlBits]
    BY <1>1 DEF Ops
  <2>3. start_for["compute"] <= COMPUTE_DEPTH /\ start_for["store"] <= STORE_DEPTH
    BY SMT, <1>2, DepthAssumption
  <2> QED  BY <1>1, <1>2, <1>3, <2>1, <2>2, <2>3 DEF Types
<1>5. BusInv
  BY <1>1 DEF BusInv, Unwritten, Reading
<1>6. BlockInv
  BY <1>1 DEF BlockInv, MayEnd
<1>7. ToldInv /\ DoneInv
  BY <1>1 DEF ToldInv, DoneInv, Reading
<1>8. SingleInv
  BY <1>1, <1>2 DEF SingleInv, Unwritten, Reading, RunOver
<1>9. EventInv
  BY <1>1 DEF EventInv, Known, Unwritten, Reading
<1> QED  BY <1>4, <1>5, <1>6, <1>7, <1>8, <1>9 DEF IInv

(* The invariant that the results below are read off. *)
THEOREM Invariant == Spec => []IInv
<1>1. ASSUME IInv, Next PROVE IInv'
  BY <1>1, TypesNext, BusInvNext, BlockNext, ToldInvNext, DoneInvNext, SingleInvNext, EventInvNext DEF IInv
<1>2. ASSUME IInv, UNCHANGED vars PROVE IInv'
  BY <1>2 DEF vars, axi, block, IInv, Types, BusInv, BlockInv, ToldInv, DoneInv, SingleInv, EventInv,
              Known, Unwritten, Reading, RunOver, Idling, MayEnd
<1>3. IInv /\ [Next]_vars => IInv'
  BY <1>1, <1>2
<1> QED  BY IInvInit, <1>3, PTL DEF Spec

(* The registers hold what registers of their width hold, and the start     *)
(* FIFOs never hold more words than they have room for (sa_grid.v: load is  *)
(* held back by start_full_n).                                              *)
THEOREM TypesHold == Spec => []TypeOK
<1>1. IInv => TypeOK
  BY DepthAssumption DEF IInv, Types, TypeOK, StartDepth, Followers
<1> QED  BY <1>1, Invariant, PTL

(* No Start is lost or repeated when the program waits for "ready" (or, one *)
(* run at a time, for "idle" and its interrupts) before it                  *)
(* (sa_grid_control_s_axi.v:239, xsa_grid.c:54).                            *)
THEOREM EveryStartIsARun == Spec => []RunsAsAsked
<1>1. IInv => RunsAsAsked
  BY DEF IInv, BlockInv, ToldInv, RunsAsAsked, Idling
<1> QED  BY <1>1, Invariant, PTL

(* A program told that the block is idle has no run unfinished, although    *)
(* the bit it read is a cycle old (sa_grid_control_s_axi.v:277).            *)
THEOREM IdleCanBeReliedOn == Spec => []IdleIsIdle
<1>1. IInv => IdleIsIdle
  BY DEF IInv, ToldInv, IdleIsIdle
<1> QED  BY <1>1, Invariant, PTL

(* The end of a run is reported, even if it comes in the cycle of a read,   *)
(* or after auto-restart was switched off (sa_grid_control_s_axi.v:230).    *)
THEOREM EveryRunIsReported == Spec => []DoneReported
<1>1. IInv => DoneReported
  BY DEF IInv, DoneInv, DoneReported
<1> QED  BY <1>1, Invariant, PTL

(* With one run at a time, "done" is never that of an earlier run           *)
(* (xsa_grid.c:30, sa_grid_control_s_axi.v:262).                            *)
THEOREM NoStaleDone == Spec => []DoneIsThisRun
<1>1. IInv => DoneIsThisRun
  BY DEF IInv, BlockInv, Types, SingleInv, DoneIsThisRun, RunOver
<1> QED  BY <1>1, Invariant, PTL

(* With one run at a time, acknowledging interrupts, which toggles their    *)
(* bits, takes no event away that has not been read                         *)
(* (sa_grid_control_s_axi.v:345).                                           *)
THEOREM EventsSurviveAcknowledgement == Spec => []NoEventLost
<1>1. IInv => NoEventLost
  BY DEF IInv, EventInv, NoEventLost
<1> QED  BY <1>1, Invariant, PTL
=============================================================================
