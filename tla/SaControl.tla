----------------------------- MODULE SaControl -----------------------------
(***************************************************************************)
(* The control registers of a block (sa_grid_control_s_axi.v), clock by    *)
(* clock, between the driver (xsa_grid.c) and the start and done signals   *)
(* of load, compute and store (sa_grid.v).                                 *)
(*                                                                         *)
(* A register is the set of its bits that are 1.                           *)
(***************************************************************************)
EXTENDS Integers, FiniteSets

CONSTANTS
  COMPUTE_DEPTH, STORE_DEPTH   \* words a start FIFO can hold, 2 and 3 in the program

ASSUME DepthAssumption == COMPUTE_DEPTH \in Nat \ {0} /\ STORE_DEPTH \in Nat \ {0}

VARIABLES
  wstate, rstate, rdata,               \* AXI-Lite side
  int_ap_start, int_task_ap_done, int_ap_idle, int_ap_ready,
  int_auto_restart, auto_restart_status,
  int_gie, int_ier, int_isr, int_interrupt,
  load,              \* "idle" or "run"
  start_once_reg, start_for,           \* words in the start FIFO of each follower
  ends,              \* the processes in the last cycle of a run: an input
  go,                \* the master has VALID or READY up in this cycle: an input
  call,              \* the driver call in progress
  program,           \* its kind
  told, status,      \* what it was told since its last Start
  surplus, unread, unseen              \* history: see the properties

axi   == <<wstate, rstate, rdata>>
block == <<load, start_once_reg, start_for>>
vars  == <<axi, block, int_ap_start, int_task_ap_done, int_ap_idle, int_ap_ready,
           int_auto_restart, auto_restart_status, int_gie, int_ier, int_isr,
           int_interrupt, ends, go, call, program, told, status, surplus, unread, unseen>>

Events    == {"done", "ready"}
Followers == {"compute", "store"}
-----------------------------------------------------------------------------
(* The driver: the register each call reads, and what it then writes.      *)

Masks == SUBSET Events \ {{}}

NoCall == [op |-> "none", mask |-> {}, pc |-> "none", data |-> {}]

ReadsFrom(op) ==
  CASE op \in {"Start", "IsDone", "IsIdle", "IsReady"}            -> "AP_CTRL"
    [] op \in {"InterruptEnable", "InterruptDisable", "InterruptGetEnabled"} -> "IER"
    [] op = "InterruptGetStatus"                                  -> "ISR"
    [] OTHER                                                      -> "none"

WritesTo(op) ==
  CASE op \in {"Start", "EnableAutoRestart", "DisableAutoRestart"}   -> "AP_CTRL"
    [] op \in {"InterruptGlobalEnable", "InterruptGlobalDisable"}    -> "GIE"
    [] op \in {"InterruptEnable", "InterruptDisable"}                -> "IER"
    [] op = "InterruptClear"                                         -> "ISR"
    [] OTHER                                                         -> "none"

Masked == {"InterruptEnable", "InterruptDisable"}

WDATA ==
  CASE call.op = "Start"                 -> (call.data \cap {"auto_restart"}) \cup {"start"}
    [] call.op = "EnableAutoRestart"     -> {"auto_restart"}
    [] call.op = "InterruptGlobalEnable" -> {"gie"}
    [] call.op = "InterruptEnable"       -> call.data \cup call.mask
    [] call.op = "InterruptDisable"      -> call.data \ call.mask
    [] call.op = "InterruptClear"        -> call.mask
    [] OTHER                             -> {}
-----------------------------------------------------------------------------
(* AXI-Lite: what happens on the bus in this cycle.                        *)

aw_hs == call.pc = "write" /\ wstate = "WRIDLE" /\ go
w_hs  == call.pc = "write" /\ wstate = "WRDATA" /\ go
b_hs  == call.pc = "write" /\ wstate = "WRRESP" /\ go
ar_hs == call.pc = "read"  /\ rstate = "RDIDLE" /\ go
r_hs  == call.pc = "read"  /\ rstate = "RDDATA" /\ go

Written(addr) == w_hs /\ WritesTo(call.op) = addr
ReadOf(addr)  == ar_hs /\ ReadsFrom(call.op) = addr

If(cond, name) == IF cond THEN {name} ELSE {}

Bus ==
  /\ wstate' = IF aw_hs THEN "WRDATA" ELSE IF w_hs THEN "WRRESP"
               ELSE IF b_hs THEN "WRIDLE" ELSE wstate
  /\ rstate' = IF ar_hs THEN "RDDATA" ELSE IF r_hs THEN "RDIDLE" ELSE rstate
  /\ rdata'  = IF ReadOf("AP_CTRL")
                 THEN    If(int_ap_start, "start") \cup If(int_task_ap_done, "done")
                    \cup If(int_ap_idle, "idle")   \cup If(int_ap_ready, "ready")
                    \cup If(int_auto_restart, "auto_restart")
                    \cup If(int_interrupt, "interrupt")
               ELSE IF ReadOf("IER") THEN int_ier
               ELSE IF ReadOf("ISR") THEN int_isr ELSE rdata
-----------------------------------------------------------------------------
(* The block: load starts on ap_start and wakes the others through a start *)
(* FIFO each, where a token stays until its run is over.                   *)

StartDepth == [compute |-> COMPUTE_DEPTH, store |-> STORE_DEPTH]

StartNeverFull == TRUE                \* a start FIFO that does not hold load back
start_full_n == \A p \in Followers : start_for[p] < StartDepth[p]
real_start   == int_ap_start /\ (start_once_reg \/ start_full_n)
start_write  == real_start /\ ~start_once_reg

ap_ready == "load" \in ends
ap_done == "store" \in ends
FollowersIdle == \A p \in Followers : start_for[p] = 0      \* without load
ap_idle == load = "idle" /\ ~real_start /\ \A p \in Followers : start_for[p] = 0

Processes ==
  /\ load' = IF ap_ready THEN "idle" ELSE IF real_start THEN "run" ELSE load
  /\ start_once_reg' = IF ap_ready THEN FALSE ELSE start_once_reg \/ real_start
  /\ start_for' = [p \in Followers |->
       start_for[p] + (IF start_write THEN 1 ELSE 0) - (IF p \in ends THEN 1 ELSE 0)]

(* Which processes may be in their last cycle. Store sends the block's own *)
(* C after all that load passes on, so it outlives load's part of the run; *)
(* compute has drained that C by then but for its last cycles.             *)
MayEnd(E) ==
  /\ "load" \in E => load = "run"
  /\ "compute" \in E => start_for["compute"] > 0
  /\ "store" \in E => /\ start_for["store"] > (IF load = "run" THEN 1 ELSE 0)
                      /\ start_for["compute"] <= start_for["store"]
-----------------------------------------------------------------------------
(* The registers.                                                          *)

task_ap_ready     == ap_ready /\ ~int_auto_restart
auto_restart_done == auto_restart_status /\ ap_idle /\ ~int_ap_idle
task_ap_done      == (ap_done /\ ~auto_restart_status) \/ auto_restart_done

StartUntilDone ==                      \* cleared when the run is over
  int_ap_start' = IF Written("AP_CTRL") /\ "start" \in WDATA THEN TRUE
                  ELSE IF ap_done THEN int_auto_restart ELSE int_ap_start

Start ==
  int_ap_start' = IF Written("AP_CTRL") /\ "start" \in WDATA THEN TRUE
                  ELSE IF ap_ready THEN int_auto_restart ELSE int_ap_start

DoneReadFirst ==                       \* the read has priority
  int_task_ap_done' = IF ReadOf("AP_CTRL") THEN FALSE
                      ELSE int_task_ap_done \/ task_ap_done

DoneKept ==                            \* not cleared on read
  int_task_ap_done' = (int_task_ap_done \/ task_ap_done)

Done ==
  int_task_ap_done' = IF task_ap_done THEN TRUE
                      ELSE IF ReadOf("AP_CTRL") THEN FALSE ELSE int_task_ap_done

Idle == int_ap_idle' = ap_idle

Ready ==
  int_ap_ready' = IF task_ap_ready THEN TRUE
                  ELSE IF ReadOf("AP_CTRL") THEN FALSE ELSE int_ap_ready

AutoRestart ==
  /\ int_auto_restart' = IF Written("AP_CTRL") THEN "auto_restart" \in WDATA
                         ELSE int_auto_restart
  /\ auto_restart_status' = IF int_auto_restart THEN TRUE
                            ELSE IF ap_idle THEN FALSE ELSE auto_restart_status

Raised == int_ier \cap (If(ap_done, "done") \cup If(ap_ready, "ready"))

Toggled == IF Written("ISR") THEN (int_isr \ WDATA) \cup (WDATA \ int_isr) ELSE int_isr

IsrWriteFirst ==                       \* the write has priority
  int_isr' = IF Written("ISR") THEN Toggled ELSE int_isr \cup Raised

Isr == int_isr' = Raised \cup Toggled

Interrupts ==
  /\ int_interrupt' = (int_gie /\ int_isr # {})
  /\ int_gie' = IF Written("GIE") THEN "gie" \in WDATA ELSE int_gie
  /\ int_ier' = IF Written("IER") THEN WDATA ELSE int_ier
-----------------------------------------------------------------------------
(* The program makes one call at a time, InterruptClear with what          *)
(* InterruptGetStatus gave it. One kind overlaps runs or lets them restart *)
(* by themselves, and waits for "ready" before Start; the other has one    *)
(* run at a time, and before the next acknowledges its interrupts.         *)

Polls == {"Start", "IsDone", "IsIdle"}

Calls ==
  [overlapping |-> Polls \cup {"IsReady", "EnableAutoRestart", "DisableAutoRestart"},
   single      |-> Polls \cup {"InterruptGlobalEnable", "InterruptGlobalDisable",
                               "InterruptEnable", "InterruptDisable", "InterruptClear",
                               "InterruptGetEnabled", "InterruptGetStatus"}]

WaitsFor == [overlapping |-> "ready", single |-> "acknowledged"]

Returns == b_hs \/ (r_hs /\ WritesTo(call.op) = "none")

StartWritten == Written("AP_CTRL") /\ call.op = "Start"

Answer ==
  CASE call.op = "IsReady" /\ "start" \notin rdata -> {"ready"}
    [] call.op = "IsDone"  /\ "done" \in rdata     -> {"done"}
    [] call.op = "IsIdle"  /\ "idle" \in rdata     -> {"idle"}
    [] call.op = "InterruptGetStatus" /\ rdata = {} /\ "idle" \in told
                                                    -> {"acknowledged"}
    [] OTHER                                       -> {}

(* A call takes its mask, reads, then writes; the next one may follow in   *)
(* the cycle after it has returned.                                        *)
Begin(op, mask) ==
  /\ op = "Start" => WaitsFor[program] \in told'
  /\ mask \in CASE op = "InterruptClear" -> {status'} \ {{}}
                [] op \in Masked         -> Masks
                [] OTHER                 -> {{}}
  /\ call' = [op |-> op, mask |-> mask, data |-> {},
              pc |-> IF ReadsFrom(op) = "none" THEN "write" ELSE "read"]

Driver ==
  /\ UNCHANGED program
  /\ told' = IF StartWritten THEN {} ELSE IF r_hs THEN told \cup Answer ELSE told
  /\ status' = IF StartWritten \/ Written("ISR") THEN {}
               ELSE IF r_hs /\ call.op = "InterruptGetStatus" THEN rdata ELSE status
  /\ IF call.pc = "none" \/ Returns
       THEN \/ call' = NoCall
            \/ \E op \in Calls[program], mask \in SUBSET Events : Begin(op, mask)
       ELSE call' = IF r_hs THEN [call EXCEPT !.pc = "write", !.data = rdata] ELSE call
-----------------------------------------------------------------------------
Init ==                                \* after the reset
  /\ wstate = "WRIDLE" /\ rstate = "RDIDLE" /\ rdata = {}
  /\ int_ap_start = FALSE /\ int_task_ap_done = FALSE
  /\ int_ap_idle = FALSE /\ int_ap_ready = FALSE
  /\ int_auto_restart = FALSE /\ auto_restart_status = FALSE
  /\ int_gie = FALSE /\ int_ier = {} /\ int_isr = {} /\ int_interrupt = FALSE
  /\ load = "idle" /\ start_once_reg = FALSE /\ start_for = [p \in Followers |-> 0]
  /\ ends = {} /\ go = FALSE
  /\ call = NoCall /\ program \in DOMAIN Calls /\ told = {} /\ status = {}
  /\ surplus = 0 /\ unread = FALSE /\ unseen = {}

(* Runs asked for, by Start or by auto-restart, less runs begun; whether a *)
(* run has ended since the control register was last read; the enabled     *)
(* interrupt events since the status register was last read.               *)
History ==
  /\ surplus' = surplus
       + (IF StartWritten \/ (ap_ready /\ int_auto_restart) THEN 1 ELSE 0)
       - (IF load = "idle" /\ real_start THEN 1 ELSE 0)
  /\ unread' = (ap_done \/ (unread /\ ~ReadOf("AP_CTRL")))
  /\ unseen' = Raised \cup (IF ReadOf("ISR") THEN {} ELSE unseen)

(* One clock edge, then the inputs of the next cycle. *)
Next ==
  /\ Bus /\ Processes /\ Driver /\ History
  /\ Start /\ Done /\ Idle /\ Ready /\ AutoRestart /\ Isr /\ Interrupts
  /\ go' \in BOOLEAN /\ (go' => call'.pc # "none")
  /\ ends' \in SUBSET (Followers \cup {"load"}) /\ MayEnd(ends)'

Spec == Init /\ [][Next]_vars
-----------------------------------------------------------------------------
TypeOK ==
  /\ wstate \in {"WRIDLE", "WRDATA", "WRRESP"} /\ rstate \in {"RDIDLE", "RDDATA"}
  /\ {int_ap_start, int_task_ap_done, int_ap_idle, int_ap_ready, int_auto_restart,
      auto_restart_status, int_gie, int_interrupt, start_once_reg, go, unread} \subseteq BOOLEAN
  /\ int_ier \subseteq Events /\ int_isr \subseteq Events
  /\ load \in {"idle", "run"} /\ \A p \in Followers : start_for[p] \in 0..StartDepth[p]

Idling == ~int_ap_start /\ load = "idle" /\ \A p \in Followers : start_for[p] = 0

(* Every Start is one run, neither lost nor repeated, when the program has *)
(* been told that the block is ready (or idle) before it; and "ready" (or  *)
(* "idle") means that no run asked for is yet to begin                     *)
(* (sa_grid_control_s_axi.v:239, xsa_grid.c:54).                           *)
RunsAsAsked ==
  /\ surplus \in {0, 1}
  /\ {"ready", "idle"} \cap told # {} => surplus = 0

(* The idle bit is a cycle old when it is read, and a start takes three    *)
(* cycles to reach store. Still, a program told that the block is idle can *)
(* rely on it: no run it has started is unfinished (xsa_grid.c:44).        *)
IdleIsIdle == "idle" \in told => Idling

(* A program with one run at a time is never told "done" for an earlier    *)
(* run: what it was not told of that one, the read in Start has cleared    *)
(* (xsa_grid.c:30, sa_grid_control_s_axi.v:262).                           *)
DoneIsThisRun ==
  program = "single" /\ "done" \in told => ~int_ap_start /\ load = "idle" /\ start_for["store"] = 0

(* A run that ends is reported, even if it ends in the cycle in which the  *)
(* register is read, or after auto-restart was switched off in the middle  *)
(* of it: once the block reads as idle, done is set until a read takes it  *)
(* (sa_grid_control_s_axi.v:230, :262, :298).                              *)
DoneReported == unread /\ int_ap_idle => int_task_ap_done

(* An interrupt event no one has read of is pending: acknowledging earlier *)
(* ones, which toggles bits, never takes it away, when the program starts  *)
(* a run only after it has acknowledged the events of the last             *)
(* (sa_grid_control_s_axi.v:345).                                          *)
NoEventLost == program = "single" => unseen \subseteq int_isr
=============================================================================
