-------------------------- MODULE Experiment_proofs --------------------------
(***************************************************************************)
(* For any number of engines, any matrices, any tiles and any failure:      *)
(* nothing of a context is held without its ground and nothing of it is     *)
(* left behind; no engine comes to a batch without its context; a cell      *)
(* leaves no nodes, no engines and no context behind; and every result that *)
(* is recorded is the product.  The first part is about one context, the    *)
(* second about the cell around a run, the last four about what is computed *)
(* and collected in it.                                                     *)
(***************************************************************************)
EXTENDS Experiment, TLAPS, SequenceTheorems, SumTheorems

-----------------------------------------------------------------------------
(* The context of one process (EglContext), any process, any failing call. *)

(* What is held before a call, and what may still be held before a release. *)
Got(at) ==
  {x \in Resources : \/ x = "fd" /\ at > 1
                     \/ x = "gbm_dev" /\ at > 2
                     \/ x = "initialized" /\ at > 4
                     \/ x = "gbm_surface" /\ at > 7
                     \/ x = "surf" /\ at > 8
                     \/ x = "ctx" /\ at > 9
                     \/ x = "current" /\ at > 10}

Left(at) ==
  {x \in Resources : \/ x = "fd" /\ at < 8
                     \/ x = "gbm_dev" /\ at < 7
                     \/ x = "gbm_surface" /\ at < 6
                     \/ x = "initialized" /\ at < 5
                     \/ x = "surf" /\ at < 4
                     \/ x = "ctx" /\ at < 3
                     \/ x = "current" /\ at < 2}

Closed(has) == \A x \in has : Needs[x] \subseteq has

Pcs == {"none", "init", "ready", "undoing", "teardown", "undone", "gone", "failed"}

(* What a process holds is told by where it is. *)
Holds(pc, at, has) ==
  /\ pc \in Pcs /\ at \in 1 .. 10
  /\ has \subseteq Resources /\ Closed(has)
  /\ pc = "none" => at = 1
  /\ pc = "init" => has = Got(at)
  /\ pc = "ready" => at = 1
  /\ pc \in {"undoing", "teardown"} => at <= 7 /\ has \subseteq Left(at)
  /\ pc \in {"none", "undone", "gone"} => has = {}
  /\ pc = "failed" => has \subseteq (IF at = 3 THEN {"gbm_dev"} ELSE {})

Contexts == [pc : Pcs, at : 1 .. 10, has : SUBSET Resources]

IInv ==
  /\ egl \in [Process -> Contexts]
  /\ \A p \in Process : Holds(egl[p].pc, egl[p].at, egl[p].has)
-----------------------------------------------------------------------------
(* The calls obtain the grounds first. *)
LEMMA CallStep ==
  ASSUME NEW at \in 1 .. 10
  PROVE  /\ Got(at) \cup Obtains[at] = Got(at + 1)
         /\ Got(at + 1) \subseteq Resources /\ Closed(Got(at + 1))
<1>1. Closed(Got(at + 1))
  BY SMT DEF Got, Resources, Closed, Needs
<1>2. Got(at) \cup Obtains[at] = Got(at + 1)
  <2>1. /\ Obtains[1] = {"fd"} /\ Obtains[2] = {"gbm_dev"} /\ Obtains[3] = {}
        /\ Obtains[4] = {"initialized"} /\ Obtains[5] = {} /\ Obtains[6] = {}
        /\ Obtains[7] = {"gbm_surface"} /\ Obtains[8] = {"surf"} /\ Obtains[9] = {"ctx"}
        /\ Obtains[10] = {"current"}
    BY DEF Obtains
  <2> QED  BY SMT, <2>1 DEF Got, Resources
<1> QED  BY <1>1, <1>2 DEF Got

(* The releases give back what nothing left needs. *)
LEMMA ReleaseStep ==
  ASSUME NEW at \in 1 .. 7, NEW has, has \subseteq Left(at), Closed(has)
  PROVE  /\ has \ {Releases[at]} \subseteq Left(at + 1)
         /\ Closed(has \ {Releases[at]})
<1>1. /\ Releases[1] = "current" /\ Releases[2] = "ctx" /\ Releases[3] = "surf"
      /\ Releases[4] = "initialized" /\ Releases[5] = "gbm_surface"
      /\ Releases[6] = "gbm_dev" /\ Releases[7] = "fd"
  BY DEF Releases
<1>2. has \ {Releases[at]} \subseteq Left(at + 1)
  <2> SUFFICES ASSUME NEW x \in has, x # Releases[at]
               PROVE  x \in Left(at + 1)
    OBVIOUS
  <2>1. x \in Left(at)
    OBVIOUS
  <2>2. CASE at \in 1 .. 3
    BY SMT, <1>1, <2>1, <2>2 DEF Left, Resources
  <2>3. CASE at \in 4 .. 5
    BY SMT, <1>1, <2>1, <2>3 DEF Left, Resources
  <2>4. CASE at \in 6 .. 7
    BY SMT, <1>1, <2>1, <2>4 DEF Left, Resources
  <2> QED  BY SMT, <2>2, <2>3, <2>4
<1>3. \A x \in has \ {Releases[at]} : Releases[at] \notin Needs[x]
  BY SMT, <1>1, <1>2 DEF Left, Resources, Needs
<1> QED  BY <1>2, <1>3 DEF Closed

LEMMA Ends == Left(8) = {} /\ Left(1) = Resources /\ Got(1) = {} /\ Len(Calls) = 10 /\ Len(Releases) = 7
BY SMT DEF Left, Got, Resources, Calls, Releases
-----------------------------------------------------------------------------
LEMMA NothingHeld == Holds("none", 1, {})
BY DEF Holds, Closed, Pcs

LEMMA InitInv == EglInit => IInv
<1>1. NoContext \in Contexts
  BY SMT DEF NoContext, Contexts, Pcs
<1>2. NoContext.pc = "none" /\ NoContext.at = 1 /\ NoContext.has = {}
  BY DEF NoContext
<1> QED  BY <1>1, <1>2, NothingHeld DEF EglInit, IInv

(* A step of one process replaces its own context. *)
LEMMA Replaced ==
  ASSUME IInv, NEW p \in Process, NEW pc, NEW at, NEW has, Holds(pc, at, has),
         egl' = [egl EXCEPT ![p] = [pc |-> pc, at |-> at, has |-> has]]
  PROVE  IInv'
<1> DEFINE h == [pc |-> pc, at |-> at, has |-> has]
<1>1. h \in Contexts
  <2>1. pc \in Pcs /\ at \in 1 .. 10 /\ has \in SUBSET Resources
    BY DEF Holds
  <2> QED  BY <2>1 DEF Contexts
<1>2. h.pc = pc /\ h.at = at /\ h.has = has
  OBVIOUS
<1>3. egl' = [egl EXCEPT ![p] = h] /\ egl \in [Process -> Contexts]
  BY DEF IInv
<1> HIDE DEF h
<1>4. egl' \in [Process -> Contexts]
  BY <1>1, <1>3
<1>5. \A q \in Process : egl'[q] = IF q = p THEN h ELSE egl[q]
  BY <1>3
<1>6. ASSUME NEW q \in Process PROVE Holds(egl'[q].pc, egl'[q].at, egl'[q].has)
  BY <1>2, <1>5 DEF IInv
<1> QED  BY <1>4, <1>6 DEF IInv

LEMMA PcReplaced ==
  ASSUME NEW c \in Contexts, NEW pc
  PROVE  [c EXCEPT !.pc = pc] = [pc |-> pc, at |-> c.at, has |-> c.has]
BY SMT DEF Contexts

LEMMA NextInv == IInv /\ [EglNext]_egl => IInv'
<1> SUFFICES ASSUME IInv, [EglNext]_egl PROVE IInv'
  OBVIOUS
<1>1. ASSUME NEW p \in Process, BeginInit(p) \/ BeginTeardown(p) \/ EglStep(p) \/ ProcessEnds(p)
      PROVE  IInv'
  <2> DEFINE c == egl[p]
  <2>1. c \in Contexts /\ Holds(c.pc, c.at, c.has) /\ egl \in [Process -> Contexts]
    BY DEF IInv
  <2>1a. \A pc : [egl EXCEPT ![p].pc = pc]
                 = [egl EXCEPT ![p] = [pc |-> pc, at |-> c.at, has |-> c.has]]
    <3> TAKE pc
    <3>1. [egl EXCEPT ![p].pc = pc] = [egl EXCEPT ![p] = [c EXCEPT !.pc = pc]]
      OBVIOUS
    <3> QED  BY <2>1, <3>1, PcReplaced
  <2>2. CASE BeginInit(p)
    <3>1. c.at = 1 /\ c.has = {} /\ egl' = [egl EXCEPT ![p].pc = "init"]
      BY <2>1, <2>2 DEF BeginInit, Holds
    <3>2. Holds("init", c.at, c.has)
      BY <2>1, <3>1, Ends DEF Holds, Pcs
    <3> QED  BY <2>1a, <3>1, <3>2, Replaced
  <2>3. CASE CallSucceeds(p)
    <3> DEFINE last == c.at = 10
               pc == IF last THEN "ready" ELSE "init"
               at == IF last THEN 1 ELSE c.at + 1
               has == c.has \cup Obtains[c.at]
    <3>1. c.pc = "init" /\ egl' = [egl EXCEPT ![p] = [pc |-> pc, at |-> at, has |-> has]]
      BY <2>3, Ends DEF CallSucceeds
    <3>2. c.at \in 1 .. 10 /\ c.has = Got(c.at)
      BY <2>1, <3>1 DEF Holds
    <3>3. has = Got(c.at + 1) /\ has \subseteq Resources /\ Closed(has)
      BY <3>2, CallStep
    <3> HIDE DEF has
    <3>4. Holds(pc, at, has)
      <4>1. CASE last
        BY <3>3, <4>1 DEF Holds, Pcs
      <4>2. CASE ~last
        <5>1. c.at + 1 \in 1 .. 10
          BY SMT, <3>2, <4>2
        <5> QED  BY <3>3, <4>2, <5>1 DEF Holds, Pcs
      <4> QED  BY <4>1, <4>2
    <3> QED  BY <3>1, <3>4, Replaced
  <2>4. CASE GetDisplayFails(p)
    <3> DEFINE has == c.has \ {"fd"}
    <3>1. /\ c.pc = "init" /\ c.at <= 3
          /\ egl' = [egl EXCEPT ![p] = [pc |-> "failed", at |-> c.at, has |-> has]]
      BY <2>4 DEF GetDisplayFails
    <3>2. c.at \in 1 .. 10 /\ c.has = Got(c.at)
      BY <2>1, <3>1 DEF Holds
    <3>3. has \subseteq (IF c.at = 3 THEN {"gbm_dev"} ELSE {})
      BY SMT, <3>1, <3>2 DEF Got, Resources
    <3>4. has \subseteq Resources /\ Closed(has)
      BY SMT, <3>3 DEF Resources, Closed, Needs
    <3> HIDE DEF has
    <3>5. Holds("failed", c.at, has)
      BY <3>2, <3>3, <3>4 DEF Holds, Pcs
    <3> QED  BY <3>1, <3>5, Replaced
  <2>5. CASE CallFails(p)
    <3>1. egl' = [egl EXCEPT ![p] = [pc |-> "undoing", at |-> 1, has |-> c.has]]
      BY <2>5 DEF CallFails
    <3>2. Holds("undoing", 1, c.has)
      BY SMT, <2>1, Ends DEF Holds, Pcs
    <3> QED  BY <3>1, <3>2, Replaced
  <2>6. CASE BeginTeardown(p)
    <3>1. c.at = 1 /\ egl' = [egl EXCEPT ![p].pc = "teardown"]
      BY <2>1, <2>6 DEF BeginTeardown, Holds
    <3>2. Holds("teardown", c.at, c.has)
      BY SMT, <2>1, <3>1, Ends DEF Holds, Pcs
    <3> QED  BY <2>1a, <3>1, <3>2, Replaced
  <2>7. CASE Release(p)
    <3> DEFINE pc == IF c.at < 7 THEN c.pc ELSE IF c.pc = "undoing" THEN "undone" ELSE "gone"
               at == IF c.at < 7 THEN c.at + 1 ELSE 1
               has == c.has \ {Releases[c.at]}
    <3>1. /\ c.pc \in {"undoing", "teardown"}
          /\ egl' = [egl EXCEPT ![p] = [pc |-> pc, at |-> at, has |-> has]]
      BY <2>7, Ends DEF Release
    <3>2. c.at \in 1 .. 7 /\ c.has \subseteq Left(c.at) /\ Closed(c.has) /\ c.has \subseteq Resources
      BY SMT, <2>1, <3>1 DEF Holds
    <3>3. has \subseteq Left(c.at + 1) /\ Closed(has) /\ has \subseteq Resources
      BY <3>2, ReleaseStep
    <3> HIDE DEF has
    <3>4. Holds(pc, at, has)
      <4>1. CASE c.at < 7
        <5>1. c.at + 1 \in 1 .. 10 /\ c.at + 1 <= 7
          BY SMT, <3>2, <4>1
        <5> QED  BY <3>1, <3>3, <4>1, <5>1 DEF Holds, Pcs
      <4>2. CASE ~(c.at < 7)
        <5>1. c.at + 1 = 8
          BY SMT, <3>2, <4>2
        <5>2. has = {}
          BY <3>3, <5>1, Ends
        <5> QED  BY <3>3, <4>2, <5>2 DEF Holds, Pcs
      <4> QED  BY <4>1, <4>2
    <3> QED  BY <3>1, <3>4, Replaced
  <2>8. CASE ProcessEnds(p)
    BY <2>8, NothingHeld, Replaced DEF ProcessEnds, NoContext
  <2> QED  BY <1>1, <2>2, <2>3, <2>4, <2>5, <2>6, <2>7, <2>8 DEF EglStep
<1>2. CASE UNCHANGED egl
  BY <1>2 DEF IInv
<1> QED  BY <1>1, <1>2 DEF EglNext

(* Whichever call fails, no process ever holds what rests on something it   *)
(* has given back (egl_init, _egl_release).                                 *)
THEOREM AlwaysGrounded == EglSpec => []Grounded
<1>1. IInv => Grounded
  BY DEF IInv, Holds, Closed, Grounded
<1> QED  BY <1>1, InitInv, NextInv, PTL DEF EglSpec

(* A failed egl_init and a teardown leave nothing behind but the GBM device *)
(* that no display could be had for.                                        *)
THEOREM NeverLeaks == EglSpec => []NothingLeaked
<1>1. IInv => NothingLeaked
  <2> SUFFICES ASSUME IInv, NEW p \in Process
               PROVE  /\ egl[p].pc \in {"none", "undone", "gone"} => egl[p].has = {}
                      /\ egl[p].pc = "failed" =>
                           egl[p].has \subseteq (IF egl[p].at = 3 THEN {"gbm_dev"} ELSE {})
    BY DEF NothingLeaked
  <2>1. Holds(egl[p].pc, egl[p].at, egl[p].has)
    BY DEF IInv
  <2> QED  BY <2>1 DEF Holds
<1> QED  BY <1>1, InitInv, NextInv, PTL DEF EglSpec
-----------------------------------------------------------------------------
(* The cell, its engines and their queues (Experiment). *)

(* The requests of a size in the order in which they are sent. *)
Rank(what) ==
  IF what = "install" THEN 1 ELSE IF what = "init" THEN 2 ELSE IF what = "teardown" THEN 4 ELSE 3

(* The highest rank that may have been sent, by where the cell is. *)
Sent(pc) ==
  IF pc \in {"clear", "configure", "start", "view", "install"} THEN 0
  ELSE IF pc \in {"installing", "egl"} THEN 1
  ELSE IF pc \in {"eglWait", "begin"} THEN 2
  ELSE IF pc \in {"run", "teardown"} THEN 3
  ELSE 4

Live == {"ready", "init", "undoing", "teardown"}

IsSeq(q) == \E T : q \in Seq(T)

(* A queue is in order, nothing comes after a teardown. *)
InOrder(q, top) ==
  /\ \A n \in 1 .. Len(q) : q[n].id[1] = q[n].what /\ Rank(q[n].what) <= top
  /\ \A m, n \in 1 .. Len(q) : m < n => /\ Rank(q[m].what) <= Rank(q[n].what)
                                        /\ Rank(q[m].what) < 4

(* An engine: its queue q and its context's pc, at a place at of the cell.  *)
EngineOK(q, pc, at, gpu, dview) ==
  /\ IsSeq(q) /\ InOrder(q, Sent(at))
  /\ pc \in {"init", "undoing"} => q # << >> /\ q[1].what = "init"
  /\ gpu /\ (at \in {"begin", "run"} \/ \E n \in 1 .. Len(q) : Rank(q[n].what) = 3) => pc = "ready"
  /\ ~gpu => pc = "none" /\ \A n \in 1 .. Len(q) : Rank(q[n].what) = 3
  /\ ~dview => q = << >> /\ pc = "none"

(* An answer x of an engine: what was asked, and what it left behind. *)
AnswerOK(x, q, pc, at) ==
  /\ Rank(x.id[1]) <= Sent(at)
  /\ at = "eglWait" /\ x.id = <<"init", 0>> /\ x.ok => pc = "ready"
  /\ x.id[1] = "teardown" => q = << >> /\ pc \notin Live

CellPcs ==
  {"clear", "configure", "start", "view", "install", "installing", "egl", "eglWait", "begin",
   "run", "teardown", "tearing", "shutdown", "stop", "release", "next", "ended", "aborted"}

GpuPcs == {"install", "installing", "egl", "eglWait", "teardown", "tearing"}

TypesOK ==
  /\ cell \in [pc : CellPcs, size : Nat, rc : BOOLEAN, dview : BOOLEAN, lost : BOOLEAN]
  /\ cluster \in [nodes : BOOLEAN, engines : BOOLEAN]
  /\ queue = [e \in Engine |-> queue[e]]
  /\ "pc" \in DOMAIN run

CellOK ==
  /\ cell.dview \/ cell.pc = "view" => cell.rc
  /\ cell.pc \in {"install", "installing", "egl", "eglWait", "begin", "run", "tearing"} => cell.dview
  /\ cell.pc \in {"clear", "configure", "start", "view"} => ~cell.dview
  /\ cell.pc \in GpuPcs => OnGpu
  /\ run.pc \in {"scatter", "scattered", "pulled", "get"} => cell.pc = "run"
  /\ cell.pc \in {"stop", "release", "next"} /\ cluster.engines => ~cell.rc
  /\ cell.pc = "next" => ~cluster.nodes

(* Once all have answered the teardown, or there was none to send. *)
ShutOK ==
  cell.pc = "shutdown" /\ ~cell.lost =>
    \A e \in Engine : egl[e].pc \notin Live /\ (OnGpu => queue[e] = << >>)

EnginesOK == \A e \in Engine : EngineOK(queue[e], egl[e].pc, cell.pc, OnGpu, cell.dview)

AnswersOK ==
  \A x \in answers : x.engine \in Engine /\ AnswerOK(x, queue[x.engine], egl[x.engine].pc, cell.pc)

CInv == IInv /\ TypesOK /\ CellOK /\ ShutOK /\ EnginesOK /\ AnswersOK
-----------------------------------------------------------------------------
(* Queues *)

LEMMA EmptyQueue == \A top : IsSeq(<< >>) /\ InOrder(<< >>, top) /\ Len(<< >>) = 0
<1>1. << >> \in Seq({}) /\ Len(<< >>) = 0
  BY EmptySeq
<1>2. 1 .. 0 = {}
  BY SMT
<1> QED  BY <1>1, <1>2 DEF IsSeq, InOrder

LEMMA NonEmpty == ASSUME NEW q, IsSeq(q) PROVE Len(q) \in Nat /\ (q = << >> <=> Len(q) = 0)
<1>1. PICK T : q \in Seq(T)
  BY DEF IsSeq
<1> QED  BY SMT, <1>1, EmptySeq

LEMMA ServedQueue ==
  ASSUME NEW q, NEW top, IsSeq(q), InOrder(q, top), q # << >>
  PROVE  /\ Len(q) >= 1 /\ Head(q) = q[1]
         /\ IsSeq(Tail(q)) /\ InOrder(Tail(q), top) /\ Len(Tail(q)) = Len(q) - 1
         /\ \A n \in 1 .. Len(Tail(q)) : n + 1 \in 1 .. Len(q) /\ Tail(q)[n] = q[n + 1]
<1>1. PICK T : q \in Seq(T)
  BY DEF IsSeq
<1>2. /\ Len(q) \in Nat /\ Len(q) >= 1 /\ Head(q) = q[1]
      /\ Tail(q) \in Seq(T) /\ Len(Tail(q)) = Len(q) - 1
      /\ \A n \in 1 .. Len(Tail(q)) : n + 1 \in 1 .. Len(q) /\ Tail(q)[n] = q[n + 1]
  BY SMT, <1>1
<1>3. InOrder(Tail(q), top)
  BY SMT, <1>2 DEF InOrder
<1> QED  BY <1>2, <1>3 DEF IsSeq

LEMMA SentQueue ==
  ASSUME NEW q, NEW top \in 0 .. 3, NEW x, IsSeq(q), InOrder(q, top),
         x.id[1] = x.what, top <= Rank(x.what)
  PROVE  /\ IsSeq(Append(q, x)) /\ InOrder(Append(q, x), Rank(x.what))
         /\ Append(q, x) # << >>
         /\ \A n \in 1 .. Len(Append(q, x)) :
              (n \in 1 .. Len(q) /\ Append(q, x)[n] = q[n]) \/ (n = Len(q) + 1 /\ Append(q, x)[n] = x)
         /\ q # << >> => Append(q, x)[1] = q[1]
<1> DEFINE s == Append(q, x)
<1>1. PICK T : q \in Seq(T)
  BY DEF IsSeq
<1>2. q \in Seq(T \cup {x}) /\ x \in T \cup {x}
  BY <1>1, SeqMonotonic
<1> HIDE DEF s
<1>3. /\ Len(q) \in Nat /\ s \in Seq(T \cup {x}) /\ Len(s) = Len(q) + 1
      /\ \A n \in 1 .. Len(q) : s[n] = q[n]
      /\ s[Len(q) + 1] = x
  BY <1>2, AppendProperties DEF s
<1>4. \A n \in 1 .. Len(s) :
        (n \in 1 .. Len(q) /\ s[n] = q[n]) \/ (n = Len(q) + 1 /\ s[n] = x)
  BY SMT, <1>3
<1>5. Rank(x.what) \in 1 .. 4 /\ \A n \in 1 .. Len(q) : Rank(q[n].what) \in 1 .. 4
  BY SMT DEF Rank
<1>6. InOrder(s, Rank(x.what))
  <2>1. ASSUME NEW n \in 1 .. Len(s)
        PROVE  s[n].id[1] = s[n].what /\ Rank(s[n].what) <= Rank(x.what)
    BY SMT, <1>4, <1>5 DEF InOrder
  <2>2. ASSUME NEW m \in 1 .. Len(s), NEW n \in 1 .. Len(s), m < n
        PROVE  Rank(s[m].what) <= Rank(s[n].what) /\ Rank(s[m].what) < 4
    BY SMT, <1>3, <1>4, <1>5, <2>2 DEF InOrder
  <2> QED  BY <2>1, <2>2 DEF InOrder
<1>7. s # << >> /\ (q # << >> => s[1] = q[1])
  BY SMT, <1>3, <1>1, EmptySeq
<1> QED  BY <1>3, <1>4, <1>6, <1>7 DEF IsSeq, s
-----------------------------------------------------------------------------
(* One engine, apart from the state *)

(* A request is answered, the context stays. *)
LEMMA Replying ==
  ASSUME NEW q, NEW pc, NEW at, NEW gpu \in BOOLEAN, NEW dview \in BOOLEAN,
         EngineOK(q, pc, at, gpu, dview), q # << >>,
         q[1].what = "init" => pc \notin {"init", "undoing"}
  PROVE  /\ EngineOK(Tail(q), pc, at, gpu, dview)
         /\ \A y : AnswerOK(y, q, pc, at) => AnswerOK(y, Tail(q), pc, at)
<1>1. /\ IsSeq(Tail(q)) /\ InOrder(Tail(q), Sent(at))
      /\ \A n \in 1 .. Len(Tail(q)) : n + 1 \in 1 .. Len(q) /\ Tail(q)[n] = q[n + 1]
  BY ServedQueue DEF EngineOK
<1>2. pc \notin {"init", "undoing"} /\ dview
  BY DEF EngineOK
<1>3. EngineOK(Tail(q), pc, at, gpu, dview)
  BY <1>1, <1>2 DEF EngineOK
<1> QED  BY <1>3 DEF AnswerOK

LEMMA Replied ==
  ASSUME NEW q, NEW pc, NEW at, NEW gpu \in BOOLEAN, NEW dview \in BOOLEAN,
         EngineOK(q, pc, at, gpu, dview), q # << >>,
         q[1].what = "init" => pc \notin {"init", "undoing"},
         NEW x, x.id = q[1].id,
         x.ok /\ q[1].what = "init" => pc = "ready",
         q[1].what = "teardown" => pc \notin {"ready", "teardown"}
  PROVE  AnswerOK(x, Tail(q), pc, at)
<1>1. Len(q) \in Nat /\ Len(q) >= 1 /\ IsSeq(Tail(q)) /\ Len(Tail(q)) = Len(q) - 1
  BY ServedQueue, NonEmpty DEF EngineOK
<1>2. x.id[1] = q[1].what /\ Rank(q[1].what) <= Sent(at)
  BY SMT, <1>1 DEF EngineOK, InOrder
<1>3. x.id = <<"init", 0>> => q[1].what = "init"
  BY SMT, <1>2
<1>4. ASSUME x.id[1] = "teardown" PROVE Tail(q) = << >> /\ pc \notin Live
  <2>1. q[1].what = "teardown" /\ Rank(q[1].what) = 4
    BY <1>2, <1>4 DEF Rank
  <2>2. Len(q) = 1
    BY SMT, <1>1, <2>1 DEF EngineOK, InOrder
  <2>3. Tail(q) = << >>
    <3>1. Len(Tail(q)) = 0
      BY SMT, <1>1, <2>2
    <3> QED  BY <1>1, <3>1, NonEmpty
  <2>4. pc \notin {"init", "undoing"}
    BY <2>1 DEF EngineOK
  <2> QED  BY <2>1, <2>3, <2>4 DEF Live
<1> QED  BY <1>2, <1>3, <1>4 DEF AnswerOK

(* The context moves, for the request at the head. *)
LEMMA ContextMoves ==
  ASSUME NEW q, NEW pc, NEW at, NEW gpu \in BOOLEAN, NEW dview \in BOOLEAN,
         EngineOK(q, pc, at, gpu, dview), q # << >>, NEW to,
         \/ q[1].what = "init" /\ pc # "ready"
         \/ q[1].what = "teardown" /\ pc \in {"ready", "teardown"} /\ to \in {"teardown", "gone"}
  PROVE  /\ EngineOK(q, to, at, gpu, dview)
         /\ \A y : AnswerOK(y, q, pc, at) => AnswerOK(y, q, to, at)
         /\ gpu
<1>1. Len(q) \in Nat /\ Len(q) >= 1
  BY ServedQueue, NonEmpty DEF EngineOK
<1>2. /\ gpu /\ dview /\ IsSeq(q) /\ InOrder(q, Sent(at))
      /\ Rank(q[1].what) <= Sent(at)
  BY SMT, <1>1 DEF EngineOK, InOrder, Rank
<1>3. CASE q[1].what = "init" /\ pc # "ready"
  BY <1>2, <1>3 DEF EngineOK, AnswerOK
<1>4. CASE q[1].what = "teardown" /\ pc \in {"ready", "teardown"} /\ to \in {"teardown", "gone"}
  <2>1. Rank(q[1].what) = 4
    BY <1>4 DEF Rank
  <2>2. at \notin {"begin", "run", "eglWait"}
    BY SMT, <1>2, <2>1 DEF Sent
  <2>3. \A n \in 1 .. Len(q) : Rank(q[n].what) # 3
    BY SMT, <1>1, <1>2, <2>1 DEF InOrder
  <2> QED  BY <1>2, <1>4, <2>2, <2>3 DEF EngineOK, AnswerOK
<1> QED  BY <1>2, <1>3, <1>4

(* A request is sent. *)
LEMMA Sending ==
  ASSUME NEW q, NEW pc, NEW at, NEW to, NEW gpu \in BOOLEAN,
         EngineOK(q, pc, at, gpu, TRUE), NEW x, x.id[1] = x.what,
         Sent(at) <= 3, Sent(at) <= Rank(x.what), Sent(to) = Rank(x.what),
         to # "begin",
         gpu /\ (Rank(x.what) = 3 \/ to = "run") => pc = "ready",
         ~gpu => Rank(x.what) = 3
  PROVE  EngineOK(Append(q, x), pc, to, gpu, TRUE)
<1>1. Sent(at) \in 0 .. 3
  BY SMT DEF Sent
<1>2. /\ IsSeq(Append(q, x)) /\ InOrder(Append(q, x), Sent(to))
      /\ Append(q, x) # << >>
      /\ \A n \in 1 .. Len(Append(q, x)) :
           (n \in 1 .. Len(q) /\ Append(q, x)[n] = q[n]) \/ (n = Len(q) + 1 /\ Append(q, x)[n] = x)
      /\ q # << >> => Append(q, x)[1] = q[1]
  BY <1>1, SentQueue DEF EngineOK
<1> QED  BY <1>2 DEF EngineOK

(* Only the cell moves. *)
LEMMA Moving ==
  ASSUME NEW q, NEW pc, NEW at, NEW to, NEW gpu \in BOOLEAN, NEW dview \in BOOLEAN, NEW view \in BOOLEAN,
         EngineOK(q, pc, at, gpu, dview), Sent(at) <= Sent(to), dview => view,
         gpu /\ to \in {"begin", "run"} => pc = "ready"
  PROVE  EngineOK(q, pc, to, gpu, view)
<1>1. Sent(at) \in Int /\ Sent(to) \in Int
  BY SMT DEF Sent
<1>2. \A n \in 1 .. Len(q) : Rank(q[n].what) \in Int
  BY SMT DEF Rank
<1>3. InOrder(q, Sent(to))
  BY SMT, <1>1, <1>2 DEF EngineOK, InOrder
<1> QED  BY <1>3 DEF EngineOK

LEMMA Waiting ==
  ASSUME NEW x, NEW q, NEW now, NEW pc, NEW at, NEW to,
         AnswerOK(x, q, pc, at), Sent(at) <= Sent(to),
         to = "eglWait" => Sent(at) <= 1,
         now = q \/ Sent(at) <= 3
  PROVE  AnswerOK(x, now, pc, to)
<1>1. Sent(at) \in Int /\ Sent(to) \in Int /\ Rank(x.id[1]) \in Int
  BY SMT DEF Sent, Rank
<1>2. Rank(x.id[1]) <= Sent(to)
  BY SMT, <1>1 DEF AnswerOK
<1>3. ~(to = "eglWait" /\ x.id = <<"init", 0>>)
  BY SMT, <1>1 DEF AnswerOK, Rank
<1>4. x.id[1] = "teardown" => now = q
  BY SMT, <1>1 DEF AnswerOK, Rank
<1> QED  BY <1>2, <1>3, <1>4 DEF AnswerOK
-----------------------------------------------------------------------------
(* Engines *)

LEMMA OneEngine ==
  ASSUME CInv, NEW e \in Engine
  PROVE  /\ EngineOK(queue[e], egl[e].pc, cell.pc, OnGpu, cell.dview)
         /\ e \in Process /\ OnGpu \in BOOLEAN /\ cell.dview \in BOOLEAN
BY EnginesAssumption DEF CInv, EnginesOK, OnGpu, TypesOK

LEMMA ReplyStep ==
  ASSUME CInv, NEW e \in Engine, NEW ok, NEW value,
         Reply(e, ok, value), Served(e), queue[e] # << >>,
         Request(e).what = "init" => egl[e].pc \notin {"init", "undoing"},
         ok /\ Request(e).what = "init" => egl[e].pc = "ready",
         Request(e).what = "teardown" => egl[e].pc \notin {"ready", "teardown"},
         UNCHANGED <<job, run, egl, cell, cluster>>
  PROVE  CInv'
<1> DEFINE q == queue[e]
           x == [engine |-> e, id |-> Head(q).id, ok |-> ok, value |-> value]
<1>1. EngineOK(q, egl[e].pc, cell.pc, OnGpu, cell.dview) /\ OnGpu \in BOOLEAN /\ cell.dview \in BOOLEAN
  BY OneEngine
<1>2. Request(e) = q[1] /\ x.engine = e /\ x.ok = ok /\ x.id = q[1].id
  BY <1>1, ServedQueue DEF Request, EngineOK
<1>3. answers' = answers \cup {x}
  BY DEF Reply
<1>4. queue' = [queue EXCEPT ![e] = Tail(q)] /\ queue = [d \in Engine |-> queue[d]]
  BY DEF Served, CInv, TypesOK
<1> HIDE DEF x
<1>5. /\ queue'[e] = Tail(q) /\ \A d \in Engine : d # e => queue'[d] = queue[d]
      /\ queue' = [d \in Engine |-> queue'[d]]
  BY <1>4
<1>6. /\ EngineOK(Tail(q), egl[e].pc, cell.pc, OnGpu, cell.dview)
      /\ \A y : AnswerOK(y, q, egl[e].pc, cell.pc) => AnswerOK(y, Tail(q), egl[e].pc, cell.pc)
  BY <1>1, <1>2, Replying
<1>7. AnswerOK(x, Tail(q), egl[e].pc, cell.pc)
  BY <1>1, <1>2, Replied
<1>8. OnGpu' = OnGpu
  BY DEF OnGpu
<1>9. EnginesOK'
  <2> SUFFICES ASSUME NEW d \in Engine
               PROVE  EngineOK(queue'[d], egl[d].pc, cell.pc, OnGpu, cell.dview)
    BY <1>8 DEF EnginesOK
  <2> QED  BY <1>5, <1>6, OneEngine
<1>10. AnswersOK'
  <2> SUFFICES ASSUME NEW y \in answers \cup {x}
               PROVE  y.engine \in Engine /\ AnswerOK(y, queue'[y.engine], egl[y.engine].pc, cell.pc)
    BY <1>3 DEF AnswersOK
  <2>1. CASE y = x
    BY <1>2, <1>5, <1>7, <2>1
  <2>2. CASE y \in answers
    BY <1>5, <1>6, <2>2 DEF CInv, AnswersOK
  <2> QED  BY <2>1, <2>2
<1>11. ShutOK'
  <2> SUFFICES ASSUME cell.pc = "shutdown", ~cell.lost, NEW d \in Engine
               PROVE  egl[d].pc \notin Live /\ (OnGpu => queue'[d] = << >>)
    BY <1>8 DEF ShutOK
  <2>1. egl[d].pc \notin Live /\ (OnGpu => queue[d] = << >> /\ queue[e] = << >>)
    BY DEF CInv, ShutOK
  <2> QED  BY <1>5, <2>1
<1>12. TypesOK' /\ CellOK' /\ IInv'
  BY <1>5, <1>8 DEF CInv, TypesOK, CellOK, IInv
<1> QED  BY <1>9, <1>10, <1>11, <1>12 DEF CInv

LEMMA ContextStep ==
  ASSUME CInv, NEW e \in Engine, queue[e] # << >>,
         \/ Request(e).what = "init" /\ egl[e].pc # "ready" /\ (BeginInit(e) \/ EglStep(e))
         \/ /\ Request(e).what = "teardown" /\ egl[e].pc \in {"ready", "teardown"}
            /\ BeginTeardown(e) \/ EglStep(e),
         UNCHANGED <<job, run, queue, answers, cell, cluster>>
  PROVE  CInv'
<1> DEFINE q == queue[e]
<1>1. EngineOK(q, egl[e].pc, cell.pc, OnGpu, cell.dview) /\ OnGpu \in BOOLEAN
      /\ cell.dview \in BOOLEAN /\ e \in Process
  BY OneEngine
<1>2. Request(e) = q[1]
  BY <1>1, ServedQueue DEF Request, EngineOK
<1>3. IInv'
  BY <1>1, NextInv DEF CInv, EglNext
<1>4. \A d \in Engine : d # e => egl'[d] = egl[d]
  <2>1. Engine \subseteq Process /\ egl \in [Process -> Contexts]
    BY EnginesAssumption DEF CInv, IInv
  <2> QED  BY <2>1 DEF BeginInit, BeginTeardown, EglStep, CallSucceeds, GetDisplayFails, CallFails, Release
<1>5. egl[e].pc \in {"ready", "teardown"} /\ q[1].what = "teardown" => egl'[e].pc \in {"teardown", "gone"}
  <2> SUFFICES ASSUME egl[e].pc \in {"ready", "teardown"}, q[1].what = "teardown"
               PROVE  egl'[e].pc \in {"teardown", "gone"}
    OBVIOUS
  <2>1. egl \in [Process -> Contexts]
    BY DEF CInv, IInv
  <2>2. BeginTeardown(e) \/ Release(e)
    BY <1>2 DEF EglStep, CallSucceeds, GetDisplayFails, CallFails
  <2>3. CASE BeginTeardown(e)
    BY SMT, <1>1, <2>1, <2>3 DEF BeginTeardown, Contexts
  <2>4. CASE Release(e)
    BY <1>1, <2>1, <2>4 DEF Release
  <2> QED  BY <2>2, <2>3, <2>4
<1>6. /\ EngineOK(q, egl'[e].pc, cell.pc, OnGpu, cell.dview)
      /\ \A y : AnswerOK(y, q, egl[e].pc, cell.pc) => AnswerOK(y, q, egl'[e].pc, cell.pc)
      /\ OnGpu
  <2>1. \/ q[1].what = "init" /\ egl[e].pc # "ready"
        \/ q[1].what = "teardown" /\ egl[e].pc \in {"ready", "teardown"} /\ egl'[e].pc \in {"teardown", "gone"}
    BY <1>2, <1>5
  <2> DEFINE pc == egl[e].pc
             to == egl'[e].pc
             at == cell.pc
             gpu == OnGpu
             dview == cell.dview
  <2>2. gpu \in BOOLEAN /\ dview \in BOOLEAN /\ EngineOK(q, pc, at, gpu, dview) /\ q # << >>
    BY <1>1
  <2>3. \/ q[1].what = "init" /\ pc # "ready"
        \/ q[1].what = "teardown" /\ pc \in {"ready", "teardown"} /\ to \in {"teardown", "gone"}
    BY <2>1
  <2> HIDE DEF q, pc, to, at, gpu, dview
  <2>4. /\ EngineOK(q, to, at, gpu, dview)
        /\ \A y : AnswerOK(y, q, pc, at) => AnswerOK(y, q, to, at)
        /\ gpu
    BY <2>2, <2>3, ContextMoves
  <2> QED  BY <2>4 DEF q, pc, to, at, gpu, dview
<1>7. OnGpu' = OnGpu
  BY DEF OnGpu
<1>8. EnginesOK'
  <2> SUFFICES ASSUME NEW d \in Engine
               PROVE  EngineOK(queue[d], egl'[d].pc, cell.pc, OnGpu, cell.dview)
    BY <1>7 DEF EnginesOK
  <2> QED  BY <1>4, <1>6, OneEngine
<1>9. AnswersOK'
  <2> SUFFICES ASSUME NEW y \in answers
               PROVE  y.engine \in Engine /\ AnswerOK(y, queue[y.engine], egl'[y.engine].pc, cell.pc)
    BY DEF AnswersOK
  <2> QED  BY <1>4, <1>6 DEF CInv, AnswersOK
<1>10. ShutOK'
  BY <1>6 DEF CInv, ShutOK
<1>11. TypesOK' /\ CellOK'
  BY <1>7 DEF CInv, TypesOK, CellOK
<1> QED  BY <1>3, <1>8, <1>9, <1>10, <1>11 DEF CInv

LEMMA Serving ==
  ASSUME CInv, NEW e \in Engine, Serve(e)
  PROVE  CInv'
<1> USE DEF Serve, HasRequest
<1>1. EngineStep(e) /\ UNCHANGED <<cell, cluster>>
  OBVIOUS
<1>2. CASE ServePush(e)
  BY <1>1, <1>2, ReplyStep DEF ServePush, Answer
<1>3. CASE ServePull(e)
  BY <1>1, <1>3, ReplyStep DEF ServePull, Answer
<1>4. CASE ServeTask(e)
  BY <1>1, <1>4, ReplyStep DEF ServeTask, Answer
<1>5. CASE ServeFails(e)
  BY <1>1, <1>5, ReplyStep DEF ServeFails, Error
<1>6. CASE ServeInstall(e)
  BY <1>1, <1>6, ReplyStep DEF ServeInstall, Answer
<1>7. CASE ServeInit(e)
  <2>1. CASE egl[e].pc \in {"ready", "failed", "undone"}
    BY <1>1, <1>7, <2>1, ReplyStep DEF ServeInit
  <2>2. CASE egl[e].pc \notin {"ready", "failed", "undone"}
    BY <1>1, <1>7, <2>2, ContextStep DEF ServeInit
  <2> QED  BY <2>1, <2>2
<1>8. CASE ServeTeardown(e)
  <2>1. CASE egl[e].pc \notin {"ready", "teardown"}
    BY <1>1, <1>8, <2>1, ReplyStep DEF ServeTeardown
  <2>2. CASE egl[e].pc \in {"ready", "teardown"}
    BY <1>1, <1>8, <2>2, ContextStep DEF ServeTeardown
  <2> QED  BY <2>1, <2>2
<1> QED  BY <1>1, <1>2, <1>3, <1>4, <1>5, <1>6, <1>7, <1>8 DEF EngineStep
-----------------------------------------------------------------------------
(* The cell *)

Cells == [pc : CellPcs, size : Nat, rc : BOOLEAN, dview : BOOLEAN, lost : BOOLEAN]

LEMMA GotoTypes ==
  ASSUME TypesOK, NEW pc \in CellPcs, CellGoto(pc)
  PROVE  /\ cell' \in Cells
         /\ cell'.pc = pc /\ cell'.rc = cell.rc /\ cell'.dview = cell.dview /\ cell'.lost = cell.lost
<1>1. cell \in Cells /\ cell' = [cell EXCEPT !.pc = pc]
  BY DEF TypesOK, Cells, CellGoto
<1> QED  BY <1>1 DEF Cells

(* A step of the notebook that sends nothing. *)
LEMMA Quiet ==
  ASSUME CInv, UNCHANGED <<job, queue, egl>>, answers' \subseteq answers,
         TypesOK', CellOK',
         Sent(cell.pc) <= Sent(cell'.pc), cell.dview => cell'.dview, cell'.pc # "eglWait",
         OnGpu /\ cell'.pc \in {"begin", "run"} => \A e \in Engine : egl[e].pc = "ready",
         cell'.pc = "shutdown" /\ ~cell'.lost =>
           \A e \in Engine : egl[e].pc \notin Live /\ (OnGpu => queue[e] = << >>)
  PROVE  CInv'
<1>1. OnGpu' = OnGpu /\ cell'.dview \in BOOLEAN
  BY DEF OnGpu, TypesOK
<1>2. EnginesOK'
  <2> SUFFICES ASSUME NEW e \in Engine
               PROVE  EngineOK(queue[e], egl[e].pc, cell'.pc, OnGpu, cell'.dview)
    BY <1>1 DEF EnginesOK
  <2> QED  BY <1>1, OneEngine, Moving
<1>3. AnswersOK'
  <2> SUFFICES ASSUME NEW y \in answers
               PROVE  y.engine \in Engine /\ AnswerOK(y, queue[y.engine], egl[y.engine].pc, cell'.pc)
    BY DEF AnswersOK
  <2>1. y.engine \in Engine /\ AnswerOK(y, queue[y.engine], egl[y.engine].pc, cell.pc)
    BY DEF CInv, AnswersOK
  <2> QED  BY <2>1, Waiting
<1>4. ShutOK'
  BY <1>1 DEF ShutOK
<1>5. IInv'
  BY DEF CInv, IInv
<1> QED  BY <1>2, <1>3, <1>4, <1>5 DEF CInv

(* A step of the notebook that sends a request of rank r to every engine. *)
LEMMA SendStep ==
  ASSUME CInv, NEW req, queue' = [e \in Engine |-> Append(queue[e], req[e])],
         UNCHANGED <<job, egl, cluster>>, answers' \subseteq answers,
         NEW r \in 1 .. 4,
         \A e \in Engine : req[e].id[1] = req[e].what /\ Rank(req[e].what) = r,
         CellOK', cell' \in Cells, "pc" \in DOMAIN run',
         cell.dview, cell'.dview,
         Sent(cell.pc) <= 3, Sent(cell.pc) <= r, Sent(cell'.pc) = r,
         cell'.pc \notin {"begin", "shutdown"},
         cell'.pc = "eglWait" => Sent(cell.pc) <= 1,
         OnGpu /\ r = 3 => \A e \in Engine : egl[e].pc = "ready",
         ~OnGpu => r = 3
  PROVE  CInv'
<1>1. OnGpu' = OnGpu /\ OnGpu \in BOOLEAN /\ cell.dview = TRUE /\ cell'.dview = TRUE
  BY DEF OnGpu, CInv, TypesOK, Cells
<1>2. \A e \in Engine : queue'[e] = Append(queue[e], req[e])
  OBVIOUS
<1>3. cell'.pc = "run" => r = 3
  BY SMT DEF Sent
<1>4. EnginesOK'
  <2> SUFFICES ASSUME NEW e \in Engine
               PROVE  EngineOK(Append(queue[e], req[e]), egl[e].pc, cell'.pc, OnGpu, TRUE)
    BY <1>1, <1>2 DEF EnginesOK
  <2> DEFINE q == queue[e]
             x == req[e]
             pc == egl[e].pc
             gpu == OnGpu
             at == cell.pc
             to == cell'.pc
  <2>1. EngineOK(q, pc, at, gpu, TRUE) /\ gpu \in BOOLEAN
    BY <1>1, OneEngine
  <2>2. x.id[1] = x.what /\ Rank(x.what) = r /\ Sent(to) = r
    OBVIOUS
  <2>3. /\ Sent(at) <= 3 /\ Sent(at) <= Rank(x.what) /\ to # "begin"
        /\ gpu /\ (Rank(x.what) = 3 \/ to = "run") => pc = "ready"
        /\ ~gpu => Rank(x.what) = 3
    BY <1>3
  <2> HIDE DEF q, x, pc, gpu, at, to
  <2>4. EngineOK(Append(q, x), pc, to, gpu, TRUE)
    BY <2>1, <2>2, <2>3, Sending
  <2> QED  BY <2>4 DEF q, x, pc, gpu, at, to
<1>5. AnswersOK'
  <2> SUFFICES ASSUME NEW y \in answers
               PROVE  y.engine \in Engine /\ AnswerOK(y, queue'[y.engine], egl[y.engine].pc, cell'.pc)
    BY DEF AnswersOK
  <2>1. y.engine \in Engine /\ AnswerOK(y, queue[y.engine], egl[y.engine].pc, cell.pc)
    BY DEF CInv, AnswersOK
  <2> QED  BY <2>1, Waiting
<1>6. TypesOK'
  BY <1>2 DEF CInv, TypesOK, Cells
<1>7. IInv' /\ ShutOK'
  BY DEF CInv, IInv, ShutOK
<1> QED  BY <1>4, <1>5, <1>6, <1>7 DEF CInv

LEMMA NoContexts ==
  ASSUME CInv, ~OnGpu \/ ~cell.dview, NEW e \in Engine
  PROVE  egl[e].pc \notin Live /\ (OnGpu => queue[e] = << >>)
BY OneEngine DEF EngineOK, Live

LEMMA ReadyAll ==
  ASSUME CInv, OnGpu, cell.pc \in {"begin", "run"}, NEW e \in Engine
  PROVE  egl[e].pc = "ready"
BY OneEngine DEF EngineOK

LEMMA AllAnswered ==
  ASSUME NEW id, Answered(id), NEW e \in Engine
  PROVE  \E x \in answers : x.engine = e /\ x.id = id /\ (~Failed(id) => x.ok)
BY DEF Answered, Failed, To

Clusters == [nodes : BOOLEAN, engines : BOOLEAN]

(* Out of the try block. *)
LEMMA LeaveTry ==
  ASSUME CInv, CellGoto(AfterTry), UNCHANGED <<job, run, queue, egl, answers>>,
         cluster' \in Clusters, Sent(cell.pc) <= 3,
         run.pc \notin {"scatter", "scattered", "pulled", "get"}
  PROVE  CInv'
<1>1. AfterTry = IF OnGpu THEN "teardown" ELSE "shutdown"
  BY DEF AfterTry
<1>2. AfterTry \in CellPcs /\ OnGpu' = OnGpu
  BY <1>1 DEF CellPcs, OnGpu
<1>3. /\ cell' \in Cells
      /\ cell'.pc = AfterTry /\ cell'.rc = cell.rc /\ cell'.dview = cell.dview /\ cell'.lost = cell.lost
  BY <1>2, GotoTypes DEF CInv
<1>4. TypesOK' /\ CellOK'
  BY <1>1, <1>2, <1>3 DEF CInv, TypesOK, CellOK, GpuPcs, Cells, Clusters
<1>5. Sent(cell.pc) <= Sent(cell'.pc)
  BY SMT, <1>1, <1>3 DEF Sent
<1>6. cell'.pc = "shutdown" => ~OnGpu
  BY <1>1, <1>3
<1>7. cell'.pc \notin {"eglWait", "begin", "run"}
  BY <1>1, <1>3
<1> QED  BY <1>3, <1>4, <1>5, <1>6, <1>7, NoContexts, Quiet

(* From one place to another, nothing else moved. *)
LEMMA GoOn ==
  ASSUME CInv, NEW to \in CellPcs, CellGoto(to), UNCHANGED <<job, queue, egl, answers>>,
         "pc" \in DOMAIN run', cluster' \in Clusters, CellOK',
         Sent(cell.pc) <= Sent(to), to # "eglWait",
         OnGpu /\ to \in {"begin", "run"} => \A e \in Engine : egl[e].pc = "ready",
         to = "shutdown" =>
           \A e \in Engine : egl[e].pc \notin Live /\ (OnGpu => queue[e] = << >>)
  PROVE  CInv'
<1>1. cell' \in Cells /\ cell'.pc = to /\ cell'.dview = cell.dview
  BY GotoTypes DEF CInv
<1>2. TypesOK'
  BY <1>1 DEF CInv, TypesOK, Cells, Clusters
<1> QED  BY <1>1, <1>2, Quiet
-----------------------------------------------------------------------------
LEMMA SetUp ==
  ASSUME CInv, ClearFirst \/ Configure \/ StartAndConnect \/ View
  PROVE  CInv'
<1>1. cell \in Cells /\ cluster \in Clusters /\ "pc" \in DOMAIN run /\ CellOK
  BY DEF CInv, TypesOK, Cells, Clusters
<1>2. ASSUME cell.pc \in {"clear", "configure", "start", "view"}
      PROVE  run.pc \notin {"scatter", "scattered", "pulled", "get"} /\ ~cell.dview /\ Sent(cell.pc) = 0
  BY SMT, <1>1, <1>2 DEF CellOK, Sent
<1>3. CASE ClearFirst
  <2>1. cell.pc = "clear" /\ UNCHANGED <<job, run, queue, answers, egl, cluster>>
    BY <1>3 DEF ClearFirst, MayRaise, CellAt, pipeVars
  <2>2. PICK to \in {"configure", "aborted"} : CellGoto(to)
    BY <1>3 DEF ClearFirst, MayRaise
  <2>3. to \in CellPcs /\ Sent(cell.pc) <= Sent(to)
    BY SMT, <2>1, <2>2 DEF CellPcs, Sent
  <2>4. cell'.pc = to /\ cell'.rc = cell.rc /\ cell'.dview = cell.dview
    BY <2>2, <2>3, GotoTypes DEF CInv
  <2>5. CellOK'
    BY <1>1, <1>2, <2>1, <2>4 DEF CellOK, GpuPcs
  <2> QED  BY <1>1, <2>1, <2>2, <2>3, <2>5, GoOn
<1>4. CASE Configure
  <2>1. cell.pc = "configure" /\ UNCHANGED <<job, run, queue, answers, egl>>
    BY <1>4 DEF Configure, CellAt, pipeVars
  <2>2. CASE CellGoto(AfterTry) /\ UNCHANGED cluster
    BY <1>1, <1>2, <2>1, <2>2, LeaveTry
  <2>3. CASE CellGoto("start") /\ cluster' = [cluster EXCEPT !.nodes = TRUE]
    <3>1. cluster' \in Clusters
      BY <1>1, <2>3 DEF Clusters
    <3>2. "start" \in CellPcs /\ Sent(cell.pc) <= Sent("start")
      BY SMT, <2>1 DEF CellPcs, Sent
    <3>3. cell'.pc = "start" /\ cell'.rc = cell.rc /\ cell'.dview = cell.dview
      BY <2>3, <3>2, GotoTypes DEF CInv
    <3>4. CellOK'
      BY <1>1, <1>2, <2>1, <3>3 DEF CellOK, GpuPcs
    <3> QED  BY <1>1, <2>1, <2>3, <3>1, <3>2, <3>4, GoOn
  <2> QED  BY <1>4, <2>2, <2>3 DEF Configure
<1>5. CASE StartAndConnect
  <2>1. cell.pc = "start" /\ UNCHANGED <<job, run, queue, answers, egl>>
    BY <1>5 DEF StartAndConnect, CellAt, pipeVars
  <2>2. CASE CellGoto(AfterTry) /\ \E up \in BOOLEAN : cluster' = [cluster EXCEPT !.engines = up]
    <3>1. cluster' \in Clusters
      BY <1>1, <2>2 DEF Clusters
    <3> QED  BY <1>1, <1>2, <2>1, <2>2, <3>1, LeaveTry
  <2>3. CASE /\ cell' = [cell EXCEPT !.pc = "view", !.rc = TRUE]
             /\ cluster' = [cluster EXCEPT !.engines = TRUE]
    <3>0. cluster' \in Clusters
      BY <1>1, <2>3 DEF Clusters
    <3>1. Sent(cell.pc) <= Sent("view") /\ "view" \in CellPcs
      BY SMT, <2>1 DEF Sent, CellPcs
    <3>2. cell' \in Cells /\ cell'.pc = "view" /\ cell'.rc = TRUE /\ cell'.dview = cell.dview
      BY <1>1, <2>3, <3>1 DEF Cells
    <3>3. TypesOK' /\ CellOK'
      BY <1>1, <1>2, <2>1, <3>0, <3>2 DEF CInv, TypesOK, CellOK, GpuPcs, Cells, Clusters
    <3> QED  BY <2>1, <3>1, <3>2, <3>3, Quiet
  <2> QED  BY <1>5, <2>2, <2>3 DEF StartAndConnect
<1>6. CASE View
  <2>1. cell.pc = "view" /\ UNCHANGED <<job, run, queue, answers, egl, cluster>>
    BY <1>6 DEF View, CellAt, pipeVars
  <2>2. CASE CellGoto(AfterTry)
    BY <1>1, <1>2, <2>1, <2>2, LeaveTry
  <2>3. CASE cell' = [cell EXCEPT !.pc = IF OnGpu THEN "install" ELSE "begin", !.dview = TRUE]
    <3>1. PICK to \in {"install", "begin"} : to = IF OnGpu THEN "install" ELSE "begin"
      OBVIOUS
    <3>2. to \in CellPcs /\ Sent(cell.pc) <= Sent(to)
      BY SMT, <2>1, <3>1 DEF Sent, CellPcs
    <3>3. cell' \in Cells /\ cell'.pc = to /\ cell'.rc = cell.rc /\ cell'.dview = TRUE /\ cell'.lost = cell.lost
      BY <1>1, <2>3, <3>1, <3>2 DEF Cells
    <3>4. OnGpu' = OnGpu
      BY <2>1 DEF OnGpu
    <3>5. TypesOK'
      BY <2>1, <3>3 DEF CInv, TypesOK, Cells
    <3>6. CellOK'
      BY <1>1, <1>2, <2>1, <3>1, <3>3, <3>4 DEF CellOK, GpuPcs
    <3> QED  BY <2>1, <3>1, <3>2, <3>3, <3>5, <3>6, Quiet
  <2> QED  BY <1>6, <2>2, <2>3 DEF View
<1> QED  BY <1>3, <1>4, <1>5, <1>6

LEMMA RemoteStep ==
  ASSUME CInv, cell.dview, NEW pc, NEW waiting, NEW what, Remote(pc, waiting, what),
         \/ pc = "install" /\ waiting = "installing" /\ what = "install"
         \/ pc = "egl" /\ waiting = "eglWait" /\ what = "init"
         \/ pc = "teardown" /\ waiting = "tearing" /\ what = "teardown"
  PROVE  CInv'
<1> DEFINE req == [e \in Engine |-> [what |-> what, id |-> <<what, 0>>]]
           r == Rank(what)
<1>1. /\ cell.pc = pc /\ CellGoto(waiting)
      /\ UNCHANGED <<job, run, answers, egl, cluster>>
      /\ queue' = [e \in Engine |-> Append(queue[e], [what |-> what, id |-> <<what, 0>>])]
  BY DEF Remote, CellAt, Send
<1>2. queue' = [e \in Engine |-> Append(queue[e], req[e])]
  BY <1>1
<1>3. \A e \in Engine : req[e].id[1] = req[e].what /\ Rank(req[e].what) = r
  OBVIOUS
<1>4. Sent(waiting) = r /\ r # 3
  BY SMT DEF Rank, Sent
<1>5. /\ r \in 1 .. 4 /\ Sent(pc) <= 3 /\ Sent(pc) <= r
      /\ waiting = "eglWait" => Sent(pc) <= 1
  BY SMT DEF Rank, Sent
<1>6. waiting \in CellPcs /\ waiting \notin {"begin", "shutdown"}
  BY DEF CellPcs
<1>7. /\ cell' \in Cells
      /\ cell'.pc = waiting /\ cell'.rc = cell.rc /\ cell'.dview = cell.dview
  BY <1>1, <1>6, GotoTypes DEF CInv
<1>8. OnGpu /\ OnGpu' = OnGpu /\ "pc" \in DOMAIN run'
  BY <1>1 DEF CInv, CellOK, TypesOK, GpuPcs, OnGpu
<1>9. CellOK'
  BY <1>1, <1>7, <1>8 DEF CInv, CellOK, GpuPcs
<1> HIDE DEF req, r
<1> QED  BY <1>1, <1>2, <1>3, <1>4, <1>5, <1>6, <1>7, <1>8, <1>9, SendStep

LEMMA Asking ==
  ASSUME CInv, Install \/ InitEgl \/ Teardown
  PROVE  CInv'
<1>1. CASE Install
  <2>1. cell.dview
    BY <1>1 DEF Install, Remote, CellAt, CInv, CellOK
  <2> QED  BY <1>1, <2>1, RemoteStep DEF Install
<1>2. CASE InitEgl
  <2>1. cell.dview
    BY <1>2 DEF InitEgl, Remote, CellAt, CInv, CellOK
  <2> QED  BY <1>2, <2>1, RemoteStep DEF InitEgl
<1>3. CASE Teardown
  BY <1>3, RemoteStep DEF Teardown
<1> QED  BY <1>1, <1>2, <1>3

LEMMA Told ==
  ASSUME CInv, Installed \/ InitEglDone \/ TeardownDone \/ RemoteLost
  PROVE  CInv'
<1>1. cell \in Cells /\ cluster \in Clusters /\ "pc" \in DOMAIN run /\ CellOK
  BY DEF CInv, TypesOK, Cells, Clusters
<1>2. UNCHANGED <<job, run, queue, answers, egl, cluster>>
  BY DEF Installed, InitEglDone, TeardownDone, RemoteDone, RemoteLost, pipeVars
<1>3. ASSUME cell.pc \in {"installing", "eglWait", "tearing"}
      PROVE  run.pc \notin {"scatter", "scattered", "pulled", "get"}
  BY <1>1, <1>3 DEF CellOK
<1>4. CASE Installed
  <2>1. cell.pc = "installing" /\ (CellGoto(AfterTry) \/ CellGoto("egl"))
    BY <1>4 DEF Installed, RemoteDone, CellAt
  <2>2. Sent(cell.pc) <= Sent("egl") /\ Sent(cell.pc) <= 3 /\ "egl" \in CellPcs
    BY SMT, <2>1 DEF Sent, CellPcs
  <2>3. CASE CellGoto(AfterTry)
    BY <1>1, <1>2, <1>3, <2>1, <2>2, <2>3, LeaveTry
  <2>4. CASE CellGoto("egl")
    <3>1. cell'.pc = "egl" /\ cell'.rc = cell.rc /\ cell'.dview = cell.dview /\ OnGpu' = OnGpu
      BY <1>2, <2>2, <2>4, GotoTypes DEF CInv, OnGpu
    <3>2. CellOK'
      BY <1>1, <1>2, <2>1, <3>1 DEF CellOK, GpuPcs
    <3> QED  BY <1>1, <1>2, <2>2, <2>4, <3>2, GoOn
  <2> QED  BY <2>1, <2>3, <2>4
<1>5. CASE InitEglDone
  <2>1. /\ cell.pc = "eglWait" /\ Answered(<<"init", 0>>)
        /\ CellGoto(AfterTry) \/ (CellGoto("begin") /\ ~Failed(<<"init", 0>>))
    BY <1>5 DEF InitEglDone, RemoteDone, CellAt
  <2>2. Sent(cell.pc) <= Sent("begin") /\ Sent(cell.pc) <= 3 /\ "begin" \in CellPcs
    BY SMT, <2>1 DEF Sent, CellPcs
  <2>3. CASE CellGoto(AfterTry)
    BY <1>1, <1>2, <1>3, <2>1, <2>2, <2>3, LeaveTry
  <2>4. CASE CellGoto("begin") /\ ~Failed(<<"init", 0>>)
    <3>1. cell'.pc = "begin" /\ cell'.rc = cell.rc /\ cell'.dview = cell.dview /\ OnGpu' = OnGpu
      BY <1>2, <2>2, <2>4, GotoTypes DEF CInv, OnGpu
    <3>2. CellOK'
      BY <1>1, <1>2, <2>1, <3>1 DEF CellOK, GpuPcs
    <3>3. ASSUME NEW e \in Engine PROVE egl[e].pc = "ready"
      <4>1. PICK x \in answers : x.engine = e /\ x.id = <<"init", 0>> /\ x.ok
        BY <2>1, <2>4, AllAnswered
      <4> QED  BY <2>1, <4>1 DEF CInv, AnswersOK, AnswerOK
    <3> QED  BY <1>1, <1>2, <2>2, <2>4, <3>2, <3>3, GoOn
  <2> QED  BY <2>1, <2>3, <2>4
<1>6. CASE TeardownDone
  <2>1. cell.pc = "tearing" /\ Answered(<<"teardown", 0>>) /\ CellGoto("shutdown")
    BY <1>6 DEF TeardownDone, RemoteDone, CellAt
  <2>2. Sent(cell.pc) <= Sent("shutdown") /\ "shutdown" \in CellPcs
    BY SMT, <2>1 DEF Sent, CellPcs
  <2>3. cell'.pc = "shutdown" /\ cell'.rc = cell.rc /\ cell'.dview = cell.dview /\ OnGpu' = OnGpu
    BY <1>2, <2>1, <2>2, GotoTypes DEF CInv, OnGpu
  <2>4. CellOK'
    BY <1>1, <1>2, <2>1, <2>3 DEF CellOK, GpuPcs
  <2>5. ASSUME NEW e \in Engine PROVE egl[e].pc \notin Live /\ queue[e] = << >>
    <3>1. PICK x \in answers : x.engine = e /\ x.id = <<"teardown", 0>>
      BY <2>1, AllAnswered
    <3>2. x.id[1] = "teardown"
      BY <3>1
    <3> QED  BY <3>1, <3>2 DEF CInv, AnswersOK, AnswerOK
  <2> QED  BY <1>1, <1>2, <2>1, <2>2, <2>4, <2>5, GoOn
<1>7. CASE RemoteLost
  <2>1. CASE cell.pc \in {"installing", "eglWait"} /\ CellGoto(AfterTry)
    <3>1. Sent(cell.pc) <= 3
      BY SMT, <2>1 DEF Sent
    <3> QED  BY <1>1, <1>2, <1>3, <2>1, <3>1, LeaveTry
  <2>2. CASE cell.pc = "tearing" /\ cell' = [cell EXCEPT !.pc = "shutdown", !.lost = TRUE]
    <3>1. Sent(cell.pc) <= Sent("shutdown") /\ "shutdown" \in CellPcs
      BY SMT, <2>2 DEF Sent, CellPcs
    <3>2. /\ cell' \in Cells
          /\ cell'.pc = "shutdown" /\ cell'.rc = cell.rc /\ cell'.dview = cell.dview /\ cell'.lost = TRUE
      BY <1>1, <2>2, <3>1 DEF Cells
    <3>3. TypesOK'
      BY <1>2, <3>2 DEF CInv, TypesOK, Cells
    <3>4. CellOK'
      BY <1>1, <1>2, <1>3, <2>2, <3>2 DEF CellOK, GpuPcs, OnGpu
    <3> QED  BY <1>2, <3>1, <3>2, <3>3, <3>4, Quiet
  <2> QED  BY <1>7, <2>1, <2>2 DEF RemoteLost, CellAt, CellGoto
<1> QED  BY <1>4, <1>5, <1>6, <1>7

(* The function run by the cell. *)
LEMMA Dispatching ==
  ASSUME CInv, Scatter \/ Scattered \/ MapAsync, UNCHANGED <<cell, cluster>>
  PROVE  CInv'
<1>1. /\ cell \in Cells /\ cell.dview /\ cell.pc = "run" /\ Sent(cell.pc) = 3
      /\ "pc" \in DOMAIN run /\ CellOK
  BY DEF CInv, TypesOK, Cells, CellOK, Scatter, Scattered, MapAsync, RunAt, Sent
<1>2. /\ UNCHANGED <<job, egl, cluster, cell>> /\ answers' \subseteq answers
      /\ "pc" \in DOMAIN run'
  BY <1>1 DEF Scatter, Scattered, MapAsync
<1>3. \E req : /\ queue' = [e \in Engine |-> Append(queue[e], req[e])]
               /\ \A e \in Engine : req[e].id[1] = req[e].what /\ Rank(req[e].what) = 3
  <2>1. CASE Scatter
    <3> DEFINE req == [e \in Engine |-> [what |-> "push", id |-> <<"push", run.d>>, buf |-> buf(run.d),
                                         items |-> Part(Piece(run.d), e)]]
    <3>1. queue' = [e \in Engine |-> Append(queue[e], req[e])]
      BY <2>1 DEF Scatter, Send
    <3>2. \A e \in Engine : req[e].id[1] = req[e].what /\ Rank(req[e].what) = 3
      BY DEF Rank
    <3> QED  BY <3>1, <3>2
  <2>2. CASE Scattered
    <3> DEFINE req == [e \in Engine |-> [what |-> "pull", id |-> <<"pull", run.d>>, buf |-> buf(run.d)]]
    <3>1. queue' = [e \in Engine |-> Append(queue[e], req[e])]
      BY <2>2 DEF Scattered, Send
    <3>2. \A e \in Engine : req[e].id[1] = req[e].what /\ Rank(req[e].what) = 3
      BY DEF Rank
    <3> QED  BY <3>1, <3>2
  <2>3. CASE MapAsync
    <3> DEFINE req == [e \in Engine |-> [what |-> "task", id |-> <<"task", run.d>>,
                                         items |-> ValueOf(<<"pull", run.d>>, e)]]
    <3>1. queue' = [e \in Engine |-> Append(queue[e], req[e])]
      BY <2>3 DEF MapAsync, Send
    <3>2. \A e \in Engine : req[e].id[1] = req[e].what /\ Rank(req[e].what) = 3
      BY DEF Rank
    <3> QED  BY <3>1, <3>2
  <2> QED  BY <2>1, <2>2, <2>3
<1>4. OnGpu => \A e \in Engine : egl[e].pc = "ready"
  BY <1>1, ReadyAll
<1>5. CellOK'
  BY <1>1, <1>2 DEF CellOK, GpuPcs, OnGpu
<1>6. PICK req : /\ queue' = [e \in Engine |-> Append(queue[e], req[e])]
                 /\ \A e \in Engine : req[e].id[1] = req[e].what /\ Rank(req[e].what) = 3
  BY <1>3
<1>7. 3 \in 1 .. 4 /\ 3 <= 3
  BY SMT
<1>8. cell' \in Cells /\ cell'.dview /\ cell'.pc = "run" /\ Sent(cell'.pc) = 3
  BY <1>1, <1>2
<1> QED  BY <1>1, <1>2, <1>4, <1>5, <1>6, <1>7, <1>8, SendStep

LEMMA Collecting ==
  ASSUME CInv, Get \/ RunRaises \/ RunLost, UNCHANGED <<cell, cluster>>
  PROVE  CInv'
<1>1. cell.pc = "run" /\ "pc" \in DOMAIN run /\ CellOK
  BY DEF CInv, TypesOK, CellOK, Get, RunRaises, RunLost, RunAt
<1>2. /\ UNCHANGED <<job, queue, egl, cell, cluster>> /\ answers' \subseteq answers
      /\ "pc" \in DOMAIN run'
  BY <1>1 DEF Get, RunRaises, RunLost
<1>3. TypesOK' /\ CellOK'
  BY <1>1, <1>2 DEF CInv, TypesOK, CellOK, GpuPcs, OnGpu
<1>4. cell'.pc = "run" /\ Sent(cell.pc) <= Sent(cell'.pc)
  BY SMT, <1>1, <1>2 DEF Sent
<1> QED  BY <1>1, <1>2, <1>3, <1>4, ReadyAll, Quiet

LEMMA AroundRun ==
  ASSUME CInv, BeginRun \/ EndRun \/ SkipTeardown
  PROVE  CInv'
<1>1. cell \in Cells /\ cluster \in Clusters /\ "pc" \in DOMAIN run /\ CellOK
  BY DEF CInv, TypesOK, Cells, Clusters
<1>2. CASE BeginRun
  <2>1. /\ cell.pc = "begin" /\ CellGoto("run") /\ run' = Running
        /\ UNCHANGED <<job, queue, answers, egl, cluster>>
    BY <1>2 DEF BeginRun, CellAt
  <2>2. Sent(cell.pc) <= Sent("run") /\ "run" \in CellPcs
    BY SMT, <2>1 DEF Sent, CellPcs
  <2>3. "pc" \in DOMAIN run'
    BY <2>1 DEF Running
  <2>4. cell'.pc = "run" /\ cell'.rc = cell.rc /\ cell'.dview = cell.dview
    BY <2>1, <2>2, GotoTypes DEF CInv
  <2>5. CellOK'
    BY <1>1, <2>1, <2>4 DEF CellOK, GpuPcs
  <2> QED  BY <1>1, <2>1, <2>2, <2>3, <2>5, ReadyAll, GoOn
<1>3. CASE EndRun
  <2>1. /\ cell.pc = "run" /\ CellGoto(AfterTry) /\ run.pc \in {"returned", "raised"}
        /\ UNCHANGED <<job, run, queue, answers, egl, cluster>>
    BY <1>3 DEF EndRun, CellAt, pipeVars
  <2>2. Sent(cell.pc) <= 3
    BY SMT, <2>1 DEF Sent
  <2> QED  BY <1>1, <2>1, <2>2, LeaveTry
<1>4. CASE SkipTeardown
  <2>1. /\ cell.pc = "teardown" /\ CellGoto("shutdown") /\ ~(cell.rc /\ cell.dview)
        /\ UNCHANGED <<job, run, queue, answers, egl, cluster>>
    BY <1>4 DEF SkipTeardown, CellAt, pipeVars
  <2>2. Sent(cell.pc) <= Sent("shutdown") /\ "shutdown" \in CellPcs
    BY SMT, <2>1 DEF Sent, CellPcs
  <2>3. cell'.pc = "shutdown" /\ cell'.rc = cell.rc /\ cell'.dview = cell.dview
    BY <2>1, <2>2, GotoTypes DEF CInv
  <2>4. CellOK'
    BY <1>1, <2>1, <2>3 DEF CellOK, GpuPcs
  <2>5. ~cell.dview
    BY <1>1, <2>1 DEF CellOK
  <2> QED  BY <1>1, <2>1, <2>2, <2>4, <2>5, NoContexts, GoOn
<1> QED  BY <1>2, <1>3, <1>4

(* The engines are gone, and all they held with them. *)
LEMMA EnginesGone ==
  ASSUME IInv, egl' = [p \in Process |-> IF p \in Engine THEN NoContext ELSE egl[p]]
  PROVE  IInv' /\ \A e \in Engine : egl'[e].pc = "none"
<1>1. NoContext = [pc |-> "none", at |-> 1, has |-> {}]
  BY DEF NoContext
<1>2. NoContext.pc = "none" /\ NoContext.at = 1 /\ NoContext.has = {} /\ NoContext \in Contexts
  BY SMT, <1>1 DEF Contexts, Pcs
<1>3. egl' \in [Process -> Contexts]
  BY <1>2 DEF IInv
<1>4. \A p \in Process : Holds(egl'[p].pc, egl'[p].at, egl'[p].has)
  <2> TAKE p \in Process
  <2>1. CASE p \in Engine
    BY <1>2, <2>1, NothingHeld
  <2>2. CASE p \notin Engine
    BY <2>2 DEF IInv
  <2> QED  BY <2>1, <2>2
<1> QED  BY <1>2, <1>3, <1>4, EnginesAssumption DEF IInv

LEMMA Idle == \A at, gpu, dview : at \notin {"begin", "run"} => EngineOK(<< >>, "none", at, gpu, dview)
<1>1. 1 .. 0 = {}
  BY SMT
<1> QED  BY <1>1, EmptyQueue DEF EngineOK

(* Engines without requests or contexts, at whatever place of the cell. *)
LEMMA Restart ==
  ASSUME CInv, egl' = [p \in Process |-> IF p \in Engine THEN NoContext ELSE egl[p]],
         queue' = [e \in Engine |-> << >>],
         answers' = {} \/ (answers' = answers /\ Sent(cell'.pc) = 4),
         cell'.pc \notin {"begin", "run", "eglWait", "shutdown"},
         TypesOK', CellOK'
  PROVE  CInv'
<1>1. IInv' /\ \A e \in Engine : egl'[e].pc = "none" /\ queue'[e] = << >>
  BY EnginesGone DEF CInv
<1>2. EnginesOK'
  BY <1>1, Idle DEF EnginesOK
<1>3. AnswersOK'
  <2> SUFFICES ASSUME NEW y \in answers, Sent(cell'.pc) = 4
               PROVE  y.engine \in Engine /\ AnswerOK(y, queue'[y.engine], egl'[y.engine].pc, cell'.pc)
    BY DEF AnswersOK
  <2>1. y.engine \in Engine
    BY DEF CInv, AnswersOK
  <2>2. Rank(y.id[1]) <= 4
    BY SMT DEF Rank
  <2> QED  BY <1>1, <2>1, <2>2 DEF AnswerOK, Live
<1>4. ShutOK'
  BY DEF ShutOK
<1> QED  BY <1>1, <1>2, <1>3, <1>4 DEF CInv

LEMMA Releasing ==
  ASSUME CInv, Shutdown \/ StopCluster \/ ReleaseCluster \/ NextSize
  PROVE  CInv'
<1>1. cell \in Cells /\ cluster \in Clusters /\ "pc" \in DOMAIN run /\ CellOK
  BY DEF CInv, TypesOK, Cells, Clusters
<1>2. Sent("shutdown") = 4 /\ Sent("stop") = 4 /\ Sent("release") = 4 /\ Sent("next") = 4 /\ Sent("aborted") = 4
  BY SMT DEF Sent
<1>3. {"stop", "release", "next", "aborted"} \subseteq CellPcs
  BY DEF CellPcs
<1>4. ASSUME cell.pc \in {"shutdown", "stop", "release"},
             NEW to \in {"stop", "release", "next", "aborted"}, CellGoto(to),
             UNCHANGED <<job, run, queue, answers, egl>>, cluster' \in Clusters,
             cluster.engines => ~cell.rc, cluster'.engines = cluster.engines,
             to = "next" => ~cluster'.nodes
      PROVE  CInv'
  <2>1. cell'.pc = to /\ cell'.rc = cell.rc /\ cell'.dview = cell.dview /\ to \in CellPcs
    BY <1>3, <1>4, GotoTypes DEF CInv
  <2>2. Sent(cell.pc) <= Sent(to)
    BY SMT, <1>2, <1>4
  <2>3. CellOK'
    BY <1>1, <1>4, <2>1 DEF CellOK, GpuPcs
  <2> QED  BY <1>1, <1>4, <2>1, <2>2, <2>3, GoOn
<1>5. ASSUME cell.pc \in {"shutdown", "stop", "release"}, CellGoto("aborted"),
             UNCHANGED <<job, run, queue, answers, egl, cluster>>
      PROVE  CInv'
  <2>1. cell'.pc = "aborted" /\ cell'.rc = cell.rc /\ cell'.dview = cell.dview
    BY <1>3, <1>5, GotoTypes DEF CInv
  <2>2. Sent(cell.pc) <= Sent("aborted")
    BY SMT, <1>2, <1>5
  <2>3. CellOK'
    BY <1>1, <1>5, <2>1 DEF CellOK, GpuPcs
  <2> QED  BY <1>1, <1>3, <1>5, <2>1, <2>2, <2>3, GoOn
<1>6. CASE Shutdown
  <2>1. cell.pc = "shutdown"
    BY <1>6 DEF Shutdown, CellAt
  <2>2. CASE CellGoto("aborted") /\ UNCHANGED <<pipeVars, cluster>>
    BY <1>5, <2>1, <2>2 DEF pipeVars
  <2>3. CASE ~cell.rc /\ CellGoto("release") /\ UNCHANGED <<pipeVars, cluster>>
    BY <1>1, <1>4, <2>1, <2>3 DEF pipeVars
  <2>4. CASE /\ CellGoto("stop")
             /\ cluster' = [cluster EXCEPT !.engines = FALSE]
             /\ queue' = [e \in Engine |-> << >>]
             /\ egl' = [p \in Process |-> IF p \in Engine THEN NoContext ELSE egl[p]]
             /\ UNCHANGED <<job, run, buffers, answers>>
    <3>1. /\ cell' \in Cells
          /\ cell'.pc = "stop" /\ cell'.rc = cell.rc /\ cell'.dview = cell.dview
      BY <1>3, <2>4, GotoTypes DEF CInv
    <3>2. cluster' \in Clusters /\ cluster'.engines = FALSE
      BY <1>1, <2>4 DEF Clusters
    <3>3. TypesOK'
      BY <1>1, <2>4, <3>1, <3>2 DEF TypesOK, Cells, Clusters
    <3>4. CellOK'
      BY <1>1, <2>1, <2>4, <3>1, <3>2 DEF CellOK, GpuPcs
    <3> QED  BY <1>2, <2>4, <3>1, <3>3, <3>4, Restart
  <2> QED  BY <1>6, <2>2, <2>3, <2>4 DEF Shutdown
<1>7. CASE StopCluster
  <2>1. /\ cell.pc = "stop" /\ UNCHANGED <<job, run, queue, answers, egl, cluster>>
        /\ CellGoto("release") \/ CellGoto("aborted")
    BY <1>7 DEF StopCluster, MayRaise, CellAt, pipeVars
  <2>2. cluster.engines => ~cell.rc
    BY <1>1, <2>1 DEF CellOK
  <2> QED  BY <1>1, <1>4, <1>5, <2>1, <2>2
<1>8. CASE ReleaseCluster
  <2>1. cell.pc = "release" /\ UNCHANGED <<job, run, queue, answers, egl>>
    BY <1>8 DEF ReleaseCluster, CellAt, pipeVars
  <2>2. CASE CellGoto("aborted") /\ UNCHANGED cluster
    BY <1>5, <2>1, <2>2
  <2>3. CASE CellGoto("next") /\ cluster' = [cluster EXCEPT !.nodes = FALSE]
    <3>1. cluster' \in Clusters /\ cluster'.engines = cluster.engines /\ ~cluster'.nodes
      BY <1>1, <2>3 DEF Clusters
    <3>2. cluster.engines => ~cell.rc
      BY <1>1, <2>1 DEF CellOK
    <3> QED  BY <1>4, <2>1, <2>3, <3>1, <3>2
  <2> QED  BY <1>8, <2>2, <2>3 DEF ReleaseCluster
<1>9. CASE NextSize
  <2>1. cell.size + 1 \in Nat
    BY <1>1 DEF Cells
  <2>2. cell' = Begin(job.kind, cell.size + 1)
    BY <1>9 DEF NextSize
  <2>3. PICK pc \in {"ended", "clear", "configure"} :
          cell' = [pc |-> pc, size |-> cell.size + 1, rc |-> FALSE, dview |-> FALSE, lost |-> FALSE]
    BY <2>2 DEF Begin
  <2>4. pc \in CellPcs
    BY DEF CellPcs
  <2>5. cell' \in Cells /\ cell'.pc = pc /\ ~cell'.rc /\ ~cell'.dview
    BY <2>1, <2>3, <2>4 DEF Cells
  <2>6. /\ run'.pc = "off" /\ "pc" \in DOMAIN run'
        /\ queue' = [e \in Engine |-> << >>] /\ answers' = {}
        /\ egl' = [p \in Process |-> IF p \in Engine THEN NoContext ELSE egl[p]]
        /\ cluster' = [cluster EXCEPT !.engines = FALSE]
    BY <1>9 DEF NextSize, NotRunning
  <2>7. cluster' \in Clusters
    BY <1>1, <2>6 DEF Clusters
  <2>8. TypesOK'
    BY <2>5, <2>6, <2>7 DEF TypesOK, Cells, Clusters
  <2>9. CellOK'
    BY <2>5, <2>6 DEF CellOK, GpuPcs
  <2> QED  BY <2>5, <2>6, <2>8, <2>9, Restart
<1> QED  BY <1>6, <1>7, <1>8, <1>9
-----------------------------------------------------------------------------
LEMMA CellInitInv == EglInit /\ CellInit => CInv
<1> SUFFICES ASSUME EglInit, CellInit PROVE CInv
  OBVIOUS
<1>1. IInv /\ \A e \in Engine : egl[e].pc = "none" /\ queue[e] = << >>
  BY InitInv, EnginesAssumption DEF EglInit, CellInit, NoContext
<1>2. PICK pc \in {"ended", "clear", "configure"} :
        cell = [pc |-> pc, size |-> 1, rc |-> FALSE, dview |-> FALSE, lost |-> FALSE]
  BY DEF CellInit, Begin
<1>3. pc \in CellPcs /\ 1 \in Nat
  BY DEF CellPcs
<1>4. cell \in Cells /\ cell.pc = pc /\ ~cell.rc /\ ~cell.dview
  BY <1>2, <1>3 DEF Cells
<1>5. /\ run.pc = "off" /\ "pc" \in DOMAIN run /\ answers = {}
      /\ queue = [e \in Engine |-> << >>] /\ cluster \in Clusters
  BY DEF CellInit, NotRunning, Clusters
<1>6. TypesOK /\ CellOK
  BY <1>4, <1>5 DEF TypesOK, Cells, Clusters, CellOK, GpuPcs
<1>7. EnginesOK /\ AnswersOK /\ ShutOK
  BY <1>1, <1>4, <1>5, Idle DEF EnginesOK, AnswersOK, ShutOK
<1> QED  BY <1>1, <1>6, <1>7 DEF CInv

LEMMA CellNextInv == CInv /\ [CellNext]_cellVars => CInv'
<1> SUFFICES ASSUME CInv, [CellNext]_cellVars PROVE CInv'
  OBVIOUS
<1>1. CASE Notebook
  BY <1>1, SetUp, Asking, Told, AroundRun, Releasing DEF Notebook
<1>2. CASE RunStep /\ UNCHANGED <<cell, cluster, results>>
  BY <1>2, Dispatching, Collecting DEF RunStep
<1>3. CASE RemoteLost
  BY <1>3, Told
<1>4. CASE RunLost /\ UNCHANGED <<cell, cluster, results>>
  BY <1>4, Collecting
<1>5. ASSUME NEW e \in Engine, Serve(e) PROVE CInv'
  BY <1>5, Serving
<1>6. CASE UNCHANGED cellVars
  BY <1>6 DEF cellVars, pipeVars, CInv, IInv, TypesOK, CellOK, ShutOK, EnginesOK, AnswersOK, OnGpu
<1> QED  BY <1>1, <1>2, <1>3, <1>4, <1>5, <1>6 DEF CellNext, Client, Lost

LEMMA CellInvariance == CellSpec => []CInv
BY CellInitInv, CellNextInv, PTL DEF CellSpec

(* However many engines there are and whatever fails, a batch never comes   *)
(* to an engine without a context (full_experiments.ipynb, the GPU cell).   *)
THEOREM BatchesHaveContexts == CellSpec => []NeverWithoutContext
<1>1. CInv => NeverWithoutContext
  <2> SUFFICES ASSUME CInv, OnGpu, NEW e \in Engine, HasRequest(e, "task")
               PROVE  egl[e].pc = "ready"
    BY DEF NeverWithoutContext
  <2>1. EngineOK(queue[e], egl[e].pc, cell.pc, OnGpu, cell.dview) /\ queue[e] # << >>
    BY OneEngine DEF HasRequest
  <2>2. Len(queue[e]) \in Nat /\ Len(queue[e]) >= 1 /\ queue[e][1].what = "task"
    BY <2>1, ServedQueue, NonEmpty DEF EngineOK, HasRequest, Request
  <2>3. 1 \in 1 .. Len(queue[e]) /\ Rank(queue[e][1].what) = 3
    BY SMT, <2>2 DEF Rank
  <2> QED  BY <2>1, <2>3 DEF EngineOK
<1> QED  BY <1>1, CellInvariance, PTL

(* However many engines there are and whatever fails, a size ends with its  *)
(* nodes and engines given back and its contexts torn down (the finally     *)
(* blocks of full_experiments.ipynb).                                       *)
THEOREM NothingKept == CellSpec => []Released
<1>1. CInv => Released
  BY DEF CInv, CellOK, ShutOK, Live, Released, CellAt
<1> QED  BY <1>1, CellInvariance, PTL

(* The same cell never holds part of a context without its ground, and a    *)
(* failed or torn down one leaves nothing but the GBM device (egl_init and  *)
(* egl_teardown as the engines call them).                                  *)
THEOREM CellsHoldGround == CellSpec => [](Grounded /\ NothingLeaked)
<1>1. CInv => Grounded
  BY DEF CInv, IInv, Holds, Closed, Grounded
<1>2. CInv => NothingLeaked
  BY DEF CInv, IInv, Holds, NothingLeaked
<1> QED  BY <1>1, <1>2, CellInvariance, PTL
-----------------------------------------------------------------------------
(* What the engines compute. *)

(* Enough tiles for every row, and none too many. *)
LEMMA CeilTilesIs ==
  ASSUME NEW x \in Nat \ {0}, NEW P \in Nat \ {0}
  PROVE  /\ CeilTiles(x, P) \in Nat \ {0} /\ CeilTiles(x, P) * P \in Nat
         /\ x <= CeilTiles(x, P) * P /\ CeilTiles(x, P) * P < x + P
<1> DEFINE c == (x + P - 1) \div P
           r == (x + P - 1) % P
<1>1. c \in Int /\ r \in Upto(P) /\ x + P - 1 = c * P + r
  <2>1. x + P - 1 \in Int
    OBVIOUS
  <2> QED BY <2>1, DivMod
<1>2. CeilTiles(x, P) = c
  BY DEF CeilTiles
<1> HIDE DEF c, r
<1>3. r \in Int /\ 0 <= r /\ r < P /\ c * P \in Int
  BY <1>1, MulInt DEF Upto
<1>4. c * P >= x /\ c * P < x + P
  BY <1>1, <1>3
<1>5. c > 0
  <2> SUFFICES ASSUME ~(c > 0) PROVE FALSE
    OBVIOUS
  <2>1. c < 1 /\ 1 \in Int
    BY <1>1
  <2>2. c * P + P <= 1 * P
    BY <1>1, <2>1, Apart
  <2>3. 1 * P = P
    OBVIOUS
  <2> QED BY <1>3, <1>4, <2>2, <2>3
<1> QED BY <1>1, <1>2, <1>3, <1>4, <1>5

(* An entry, as an operator of its own. *)
EntryOf(M, i, j) == M.cell[i, j]

LEMMA Entries ==
  ASSUME NEW M, IsMatrix(M)
  PROVE  /\ M.rows \in Nat \ {0} /\ M.cols \in Nat \ {0}
         /\ \A i \in Upto(M.rows), j \in Upto(M.cols) : EntryOf(M, i, j) \in Int
BY DEF IsMatrix, EntryOf

(* one_row, cycle by cycle: what reaches element j in cycle t has entered it   *)
(* at t - j, so that its t-th term is the product of t - j.                    *)
Term(a, B, j) ==
  [s \in Nat |-> IF s - j \in Upto(B.rows) THEN EntryOf(a, 0, s - j) * EntryOf(B, s - j, j) ELSE 0]

After(a, B, t) ==
  [a_reg |-> [j \in Upto(B.cols) |-> IF t - 1 - j \in Upto(B.rows) THEN EntryOf(a, 0, t - 1 - j) ELSE 0],
   P |-> [j \in Upto(B.cols) |-> Sigma(Term(a, B, j), t)]]

In(a, B, a_reg, t, j) == IF j > 0 THEN a_reg[j - 1] ELSE IF t < B.rows THEN EntryOf(a, 0, t) ELSE 0
Weight(B, t, j) == IF t - j \in Upto(B.rows) THEN EntryOf(B, t - j, j) ELSE 0

Cycle(a, B, s, t) ==
  [a_reg |-> [j \in Upto(B.cols) |-> In(a, B, s.a_reg, t, j)],
   P |-> [j \in Upto(B.cols) |-> s.P[j] + In(a, B, s.a_reg, t, j) * Weight(B, t, j)]]

Resting(B) == [a_reg |-> [j \in Upto(B.cols) |-> 0], P |-> [j \in Upto(B.cols) |-> 0]]

IsRun(f, a, B, T) ==
  f = [t \in 0 .. T |-> IF t = 0 THEN Resting(B) ELSE Cycle(a, B, f[t - 1], t - 1)]

(* A row of numbers as long as B is high. *)
IsRow(a, B) == IsMatrix(B) /\ \A k \in Upto(B.rows) : EntryOf(a, 0, k) \in Int

LEMMA TermType ==
  ASSUME NEW a, NEW B, IsRow(a, B), NEW j \in Upto(B.cols), NEW n
  PROVE  IntsTo(Term(a, B, j), n)
<1> SUFFICES ASSUME NEW s \in Upto(n) PROVE Term(a, B, j)[s] \in Int
  BY DEF IntsTo
<1>0. s \in Nat
  BY DEF Upto
<1>1. CASE s - j \in Upto(B.rows)
  <2>1. EntryOf(a, 0, s - j) \in Int
    BY <1>1 DEF IsRow
  <2>2. EntryOf(B, s - j, j) \in Int
    BY <1>1, Entries DEF IsRow
  <2> QED BY <1>0, <1>1, <2>1, <2>2, MulInt DEF Term
<1>2. CASE s - j \notin Upto(B.rows)
  BY <1>0, <1>2 DEF Term
<1> QED BY <1>1, <1>2

LEMMA AtRest ==
  ASSUME NEW a, NEW B, IsRow(a, B)
  PROVE  After(a, B, 0) = Resting(B)
<1>1. \A j \in Upto(B.cols) : 0 - 1 - j \notin Upto(B.rows)
  BY DEF Upto
<1>2. \A j \in Upto(B.cols) : Sigma(Term(a, B, j), 0) = 0
  BY SigmaNone
<1> QED BY <1>1, <1>2 DEF After, Resting

LEMMA OneCycle ==
  ASSUME NEW a, NEW B, IsRow(a, B), NEW t \in Nat
  PROVE  After(a, B, t + 1) = Cycle(a, B, After(a, B, t), t)
<1>0. B.rows \in Nat /\ B.cols \in Nat
  BY Entries DEF IsRow
<1> DEFINE A == After(a, B, t)
           AReg(j) == IF t - j \in Upto(B.rows) THEN EntryOf(a, 0, t - j) ELSE 0
<1>1. ASSUME NEW j \in Upto(B.cols) PROVE In(a, B, A.a_reg, t, j) = AReg(j)
  <2>1. CASE j > 0
    <3>1. j - 1 \in Upto(B.cols) /\ t - 1 - (j - 1) = t - j
      BY <1>0, <2>1 DEF Upto
    <3>2. A.a_reg = [i \in Upto(B.cols) |-> IF t - 1 - i \in Upto(B.rows) THEN EntryOf(a, 0, t - 1 - i) ELSE 0]
      BY DEF After
    <3> HIDE DEF A
    <3>3. A.a_reg[j - 1] = AReg(j)
      BY <3>1, <3>2
    <3> QED BY <2>1, <3>3 DEF In
  <2>2. CASE ~(j > 0)
    <3>1. j = 0 /\ t - j = t
      BY <1>0, <2>2 DEF Upto
    <3>2. t \in Upto(B.rows) <=> t < B.rows
      BY <1>0 DEF Upto
    <3> QED BY <3>1, <3>2 DEF In
  <2> QED BY <2>1, <2>2
<1>2. ASSUME NEW j \in Upto(B.cols)
      PROVE  A.P[j] + AReg(j) * Weight(B, t, j) = Sigma(Term(a, B, j), t + 1)
  <2>1. A.P[j] = Sigma(Term(a, B, j), t)
    BY DEF After
  <2>2. AReg(j) * Weight(B, t, j) = Term(a, B, j)[t]
    BY DEF Term, Weight
  <2>3. Sigma(Term(a, B, j), t + 1) = Sigma(Term(a, B, j), t) + Term(a, B, j)[t]
    BY TermType, SigmaNext
  <2> QED BY <2>1, <2>2, <2>3
<1>3. ASSUME NEW j \in Upto(B.cols) PROVE (t + 1) - 1 - j = t - j
  BY <1>0 DEF Upto
<1>4. After(a, B, t + 1) = [a_reg |-> [j \in Upto(B.cols) |-> AReg(j)],
                            P |-> [j \in Upto(B.cols) |-> Sigma(Term(a, B, j), t + 1)]]
  BY <1>3 DEF After
<1>5. Cycle(a, B, A, t) = [a_reg |-> [j \in Upto(B.cols) |-> AReg(j)],
                           P |-> [j \in Upto(B.cols) |-> A.P[j] + AReg(j) * Weight(B, t, j)]]
  <2> HIDE DEF A, AReg
  <2> QED BY <1>1 DEF Cycle
<1>6. [j \in Upto(B.cols) |-> A.P[j] + AReg(j) * Weight(B, t, j)]
        = [j \in Upto(B.cols) |-> Sigma(Term(a, B, j), t + 1)]
  <2> HIDE DEF A, AReg
  <2> QED BY <1>2
<1>7. Cycle(a, B, A, t) = After(a, B, t + 1)
  <2> HIDE DEF A, AReg
  <2> QED BY <1>4, <1>5, <1>6
<1> QED BY <1>7

(* After its cycles the row is the row of the product. *)
LEMMA OneRow ==
  ASSUME NEW a, NEW B, IsRow(a, B)
  PROVE  one_row(a, B) = [j \in Upto(B.cols) |->
                            Sigma([k \in Upto(B.rows) |-> EntryOf(a, 0, k) * EntryOf(B, k, j)], B.rows)]
<1> DEFINE T == TOTAL_CYCLES(B.rows, B.cols)
           form == [t \in 0 .. T |-> After(a, B, t)]
           after == CHOOSE f : IsRun(f, a, B, T)
<1>0. T \in Nat /\ T = B.rows + B.cols - 1 /\ B.rows \in Nat /\ B.cols \in Nat
  BY Entries DEF TOTAL_CYCLES, IsRow
<1> HIDE DEF T
<1>1. IsRun(form, a, B, T)
  <2>1. ASSUME NEW t \in 0 .. T
        PROVE  After(a, B, t) = IF t = 0 THEN Resting(B) ELSE Cycle(a, B, form[t - 1], t - 1)
    <3>1. CASE t = 0
      BY <3>1, AtRest
    <3>2. CASE t # 0
      <4>1. t - 1 \in Nat /\ t - 1 \in 0 .. T /\ (t - 1) + 1 = t
        BY <1>0, <3>2
      <4>2. form[t - 1] = After(a, B, t - 1)
        BY <4>1
      <4>3. After(a, B, (t - 1) + 1) = Cycle(a, B, After(a, B, t - 1), t - 1)
        BY <4>1, OneCycle
      <4> HIDE DEF form
      <4> QED BY <3>2, <4>1, <4>2, <4>3
    <3> QED BY <3>1, <3>2
  <2>2. form = [t \in 0 .. T |-> IF t = 0 THEN Resting(B) ELSE Cycle(a, B, form[t - 1], t - 1)]
    <3>1. form = [t \in 0 .. T |-> After(a, B, t)]
      OBVIOUS
    <3> HIDE DEF form
    <3> QED BY <2>1, <3>1
  <2> QED BY <2>2 DEF IsRun
<1>2. IsRun(after, a, B, T)
  BY <1>1
<1>3. one_row(a, B) = after[T].P
  BY DEF one_row, IsRun, Cycle, Resting, In, Weight, T, EntryOf
<1> HIDE DEF after
<1> DEFINE U == {t \in Nat : t <= T => after[t] = After(a, B, t)}
<1>4. 0 \in U
  <2>1. 0 \in 0 .. T
    BY <1>0
  <2> QED BY <1>2, <2>1, AtRest DEF IsRun
<1>5. ASSUME NEW t \in U PROVE t + 1 \in U
  <2> SUFFICES ASSUME t + 1 <= T PROVE after[t + 1] = After(a, B, t + 1)
    OBVIOUS
  <2>1. t \in Nat /\ t <= T /\ t + 1 \in 0 .. T /\ t + 1 # 0 /\ (t + 1) - 1 = t
    BY <1>0
  <2>2. after[t] = After(a, B, t)
    BY <2>1
  <2>3. after[t + 1] = Cycle(a, B, after[t], t)
    <3> DEFINE Body(x) == IF x = 0 THEN Resting(B) ELSE Cycle(a, B, after[x - 1], x - 1)
    <3>1. after = [x \in 0 .. T |-> Body(x)]
      BY <1>2 DEF IsRun
    <3>2. Body(t + 1) = Cycle(a, B, after[t], t)
      BY <2>1, Zenon
    <3> HIDE DEF Body
    <3>3. after[t + 1] = Body(t + 1)
      BY <2>1, <3>1
    <3> QED BY <3>2, <3>3
  <2> QED BY <2>1, <2>2, <2>3, OneCycle
<1>6. U = Nat
  <2>1. U \in SUBSET Nat
    OBVIOUS
  <2> HIDE DEF U
  <2> QED BY <1>4, <1>5, <2>1, Induction
<1>7. after[T] = After(a, B, T)
  BY <1>0, <1>6
<1>8. after[T].P = [j \in Upto(B.cols) |-> Sigma(Term(a, B, j), T)]
  BY <1>7 DEF After
<1>9. ASSUME NEW j \in Upto(B.cols)
      PROVE  Sigma(Term(a, B, j), T) = Sigma([k \in Upto(B.rows) |-> EntryOf(a, 0, k) * EntryOf(B, k, j)], B.rows)
  <2> DEFINE f == Term(a, B, j)
             g == [y \in Upto(B.rows) |-> f[j + y]]
             h == [k \in Upto(B.rows) |-> EntryOf(a, 0, k) * EntryOf(B, k, j)]
  <2>0. j \in Nat /\ j + B.rows \in Nat /\ j + B.rows <= T /\ f = Term(a, B, j)
    BY <1>0 DEF Upto
  <2>1. \A n : IntsTo(f, n)
    BY TermType
  <2>2. \A x \in 0 .. j - 1 : f[x] = 0
    <3> SUFFICES ASSUME NEW x \in 0 .. j - 1 PROVE f[x] = 0
      OBVIOUS
    <3>1. x \in Nat /\ x - j \notin Upto(B.rows)
      BY <2>0 DEF Upto
    <3> QED BY <3>1 DEF Term
  <2>3. \A x \in j + B.rows .. T - 1 : f[x] = 0
    <3> SUFFICES ASSUME NEW x \in j + B.rows .. T - 1 PROVE f[x] = 0
      OBVIOUS
    <3>1. x \in Nat /\ x - j \notin Upto(B.rows)
      BY <1>0, <2>0 DEF Upto
    <3> QED BY <3>1 DEF Term
  <2>4. \A k \in Upto(B.rows) : f[j + k] = h[k]
    <3> SUFFICES ASSUME NEW k \in Upto(B.rows) PROVE f[j + k] = h[k]
      OBVIOUS
    <3>1. j + k \in Nat /\ (j + k) - j = k
      BY <2>0 DEF Upto
    <3> QED BY <3>1 DEF Term
  <2>5. g = h
    BY <2>4
  <2> HIDE DEF f, g, h
  <2>6. Sigma(f, j) = 0
    <3>1. Sigma(f, j) = Sigma(f, 0)
      BY <2>0, <2>1, <2>2, SigmaZeros
    <3> QED BY <3>1, SigmaNone
  <2>7. Sigma(f, T) = Sigma(f, j + B.rows)
    BY <1>0, <2>0, <2>1, <2>3, SigmaZeros
  <2>8. Sigma(f, j + B.rows) = Sigma(f, j) + Sigma(g, B.rows)
    BY <1>0, <2>0, <2>1, SigmaPlus DEF g
  <2>9. Sigma(g, B.rows) \in Int
    <3>1. IntsTo(g, B.rows)
      <4> SUFFICES ASSUME NEW y \in Upto(B.rows) PROVE g[y] \in Int
        BY DEF IntsTo
      <4>1. j + y \in Upto(j + y + 1) /\ g[y] = f[j + y]
        BY <1>0, <2>0 DEF Upto, g
      <4>2. IntsTo(f, j + y + 1)
        BY <2>1
      <4> QED BY <4>1, <4>2 DEF IntsTo
    <3> QED BY <1>0, <3>1, SigmaType
  <2>10. Sigma(f, T) = Sigma(h, B.rows)
    BY <2>5, <2>6, <2>7, <2>8, <2>9
  <2> QED BY <2>10 DEF f, h
<1> QED BY <1>3, <1>8, <1>9
-----------------------------------------------------------------------------
(* The parts of a piece, put together again. *)

LEMMA PartEnds ==
  ASSUME NEW len \in Nat
  PROVE  /\ PartEnd(len, 0) = 0 /\ PartEnd(len, ENGINES) = len
         /\ \A e \in 0 .. ENGINES - 1 : PartEnd(len, e) <= PartEnd(len, e + 1)
         /\ \A e \in 0 .. ENGINES : PartEnd(len, e) \in 0 .. len
<1> DEFINE q == len \div ENGINES
           r == len % ENGINES
<1>1. /\ ENGINES \in Nat \ {0} /\ len \in Int /\ q \in Int /\ r \in Nat /\ r < ENGINES
      /\ len = q * ENGINES + r
  BY EnginesAssumption, DivMod DEF Upto
<1>2. \A e : PartEnd(len, e) = e * q + Lower(e, r)
  BY DEF PartEnd
<1> HIDE DEF q, r
<1>3. q >= 0
  <2> SUFFICES ASSUME ~(q >= 0) PROVE FALSE
    OBVIOUS
  <2>1. q < 0 /\ 0 \in Int
    BY <1>1
  <2>2. q * ENGINES + ENGINES <= 0 * ENGINES
    BY <1>1, <2>1, Apart
  <2>3. q * ENGINES \in Int /\ 0 * ENGINES = 0
    BY <1>1, MulInt
  <2> QED BY <1>1, <2>2, <2>3
<1>4. q \in Nat
  BY <1>1, <1>3
<1>5. PartEnd(len, 0) = 0
  BY <1>1, <1>2, <1>4 DEF Lower
<1>6. PartEnd(len, ENGINES) = len
  <2>1. ENGINES * q = q * ENGINES /\ ENGINES * q \in Nat
    BY <1>1, <1>4, MulNat
  <2> QED BY <1>1, <1>2, <2>1 DEF Lower
<1>7. ASSUME NEW e \in 0 .. ENGINES - 1 PROVE PartEnd(len, e) <= PartEnd(len, e + 1)
  <2>1. e \in Nat /\ e * q \in Nat /\ (e + 1) * q = e * q + q
    BY <1>1, <1>4, MulNat, SMT
  <2>2. Lower(e, r) \in Nat /\ Lower(e + 1, r) \in Nat /\ Lower(e, r) <= Lower(e + 1, r)
    BY <1>1, <2>1 DEF Lower
  <2> QED BY <1>2, <1>4, <2>1, <2>2
<1>8. ASSUME NEW e \in 0 .. ENGINES PROVE PartEnd(len, e) \in 0 .. len
  <2>1. e \in Nat /\ e * q \in Nat
    BY <1>1, <1>4, MulNat
  <2>2. Lower(e, r) \in Nat /\ Lower(e, r) <= r
    BY <1>1, <2>1 DEF Lower
  <2>3. e * q <= q * ENGINES
    <3>1. CASE e = ENGINES
      BY <1>1, <1>4, <3>1, MulNat
    <3>2. CASE e # ENGINES
      <4>1. ENGINES - e \in Nat /\ (ENGINES - e) * q \in Nat
        BY <1>1, <1>4, MulNat
      <4>2. ENGINES * q = q * ENGINES /\ ENGINES * q = e * q + (ENGINES - e) * q
        BY <1>1, <1>4, <2>1, SMT
      <4>3. q * ENGINES \in Nat
        BY <1>1, <1>4, MulNat
      <4> QED BY <2>1, <4>1, <4>2, <4>3
    <3> QED BY <3>1, <3>2
  <2>4. q * ENGINES \in Nat
    BY <1>1, <1>4, MulNat
  <2> QED BY <1>1, <1>2, <2>1, <2>2, <2>3, <2>4
<1> QED BY <1>5, <1>6, <1>7, <1>8

LEMMA Gathered ==
  ASSUME NEW S, NEW v \in Seq(S), NEW seqs, seqs = [e \in Engine |-> Part(v, e)]
  PROVE  FlattenSeq(seqs) = v
<1> DEFINE g == CHOOSE g : IsFlat(g, seqs, ENGINES)
           cut(e) == PartEnd(Len(v), e)
<1>0. ENGINES \in Nat \ {0} /\ Engine = 1 .. ENGINES /\ Len(v) \in Nat
  BY EnginesAssumption DEF Engine
<1>1. IsFlat(g, seqs, ENGINES)
  BY <1>0, FlatExists
<1>2. FlattenSeq(seqs) = g[ENGINES]
  <2>1. Len(seqs) = ENGINES /\ ENGINES # 0
    <3>1. seqs \in Seq(Range(seqs)) /\ DOMAIN seqs = 1 .. ENGINES
      BY <1>0 DEF Range
    <3>2. Len(seqs) \in Nat /\ 1 .. Len(seqs) = 1 .. ENGINES
      BY <3>1, LenProperties
    <3> QED BY <1>0, <3>2
  <2> QED BY <2>1 DEF FlattenSeq, IsFlat
<1>3. /\ cut(0) = 0 /\ cut(ENGINES) = Len(v)
      /\ \A e \in 0 .. ENGINES - 1 : cut(e) <= cut(e + 1)
      /\ \A e \in 0 .. ENGINES : cut(e) \in 0 .. Len(v)
  BY <1>0, PartEnds
<1>4. ASSUME NEW e \in Engine PROVE seqs[e] = SubSeq(v, cut(e - 1) + 1, cut(e))
  BY DEF Part
<1> HIDE DEF g, cut
<1> DEFINE U == {m \in Nat : m + 1 <= ENGINES => g[m + 1] = SubSeq(v, 1, cut(m + 1))}
<1>5. 0 \in U
  <2>1. g[1] = seqs[1]
    BY <1>0, <1>1 DEF IsFlat
  <2>2. seqs[1] = SubSeq(v, cut(1 - 1) + 1, cut(1))
    BY <1>0, <1>4
  <2>3. 1 - 1 = 0 /\ cut(0) + 1 = 1
    BY <1>3
  <2> QED BY <2>1, <2>2, <2>3
<1>6. ASSUME NEW m \in U PROVE m + 1 \in U
  <2> DEFINE k == m + 1
  <2> SUFFICES ASSUME k + 1 <= ENGINES PROVE g[k + 1] = SubSeq(v, 1, cut(k + 1))
    OBVIOUS
  <2>0. k \in Nat /\ k >= 1 /\ k <= ENGINES /\ k + 1 \in 1 .. ENGINES /\ (k + 1) - 1 = k /\ k + 1 # 1
        /\ k \in 0 .. ENGINES - 1 /\ k \in 0 .. ENGINES /\ k + 1 \in 0 .. ENGINES
    BY <1>0
  <2>1. g[k] = SubSeq(v, 1, cut(k))
    BY <2>0
  <2> HIDE DEF k
  <2>2. g[k + 1] = g[k] \o seqs[k + 1]
    <3> DEFINE Body(i) == IF i = 1 THEN seqs[i] ELSE g[i - 1] \o seqs[i]
    <3>1. g = [i \in 1 .. ENGINES |-> Body(i)]
      BY <1>1 DEF IsFlat
    <3>2. Body(k + 1) = g[k] \o seqs[k + 1]
      BY <2>0, Zenon
    <3> HIDE DEF Body
    <3> QED BY <2>0, <3>1, <3>2
  <2>3. seqs[k + 1] = SubSeq(v, cut(k) + 1, cut(k + 1))
    <3>1. seqs[k + 1] = SubSeq(v, cut((k + 1) - 1) + 1, cut(k + 1))
      BY <1>0, <1>4, <2>0
    <3> QED BY <2>0, <3>1
  <2>4. /\ cut(k) \in 0 .. Len(v) /\ cut(k + 1) \in 0 .. Len(v) /\ cut(k) <= cut(k + 1)
    BY <1>3, <2>0
  <2>5. SubSeq(v, 1, cut(k)) \o SubSeq(v, cut(k) + 1, cut(k + 1)) = SubSeq(v, 1, cut(k + 1))
    <3>1. 1 \in 1 .. Len(v) + 1 /\ cut(k) \in 1 - 1 .. Len(v) /\ cut(k + 1) \in cut(k) .. Len(v)
      BY <1>0, <2>4
    <3> QED BY <3>1, ConcatAdjacentSubSeq
  <2> QED BY <2>1, <2>2, <2>3, <2>5
<1>7. U = Nat
  <2>1. U \in SUBSET Nat
    OBVIOUS
  <2> HIDE DEF U
  <2> QED BY <1>5, <1>6, <2>1, Induction
<1>8. g[ENGINES] = SubSeq(v, 1, cut(ENGINES))
  <2>1. ENGINES - 1 \in Nat
    BY <1>0
  <2>3. ENGINES - 1 \in U
    BY <1>7, <2>1
  <2>2. (ENGINES - 1) + 1 = ENGINES /\ ENGINES <= ENGINES
    BY <1>0
  <2> QED BY <2>2, <2>3
<1> QED BY <1>2, <1>3, <1>8, SubSeqFull

(* What is made of a part is the part of what is made of the piece. *)
LEMMA PartOfMade ==
  ASSUME NEW S, NEW p \in Seq(S), NEW v, DOMAIN v = 1 .. Len(p), v \in Seq(Range(v)), NEW e \in Engine
  PROVE  /\ DOMAIN Part(p, e) = DOMAIN Part(v, e)
         /\ \A x \in DOMAIN Part(p, e) :
              \E y \in 1 .. Len(p) : Part(p, e)[x] = p[y] /\ Part(v, e)[x] = v[y]
         /\ Part(v, e) = [x \in DOMAIN Part(v, e) |-> Part(v, e)[x]]
<1> DEFINE a == PartEnd(Len(p), e - 1) + 1
           b == PartEnd(Len(p), e)
<1>1. Len(p) \in Nat /\ Len(v) = Len(p)
  <2>1. Len(p) \in Nat /\ Len(v) \in Nat /\ DOMAIN v = 1 .. Len(v)
    BY LenProperties
  <2> QED BY <2>1, SMT
<1>2. e \in 1 .. ENGINES /\ e - 1 \in 0 .. ENGINES - 1 /\ (e - 1) + 1 = e /\ e \in 0 .. ENGINES /\ e - 1 \in 0 .. ENGINES
  BY EnginesAssumption DEF Engine
<1>3. a \in Nat /\ a >= 1 /\ b \in Nat /\ b <= Len(p) /\ a <= b + 1
  <2>1. PartEnd(Len(p), e - 1) \in 0 .. Len(p) /\ b \in 0 .. Len(p)
    BY <1>1, <1>2, PartEnds
  <2>2. PartEnd(Len(p), e - 1) <= PartEnd(Len(p), (e - 1) + 1)
    BY <1>1, <1>2, PartEnds
  <2> QED BY <1>2, <2>1, <2>2
<1>4. Part(p, e) = SubSeq(p, a, b) /\ Part(v, e) = SubSeq(v, a, b)
  BY <1>1 DEF Part
<1> HIDE DEF a, b
<1>5. \A i \in a .. b : i \in 1 .. Len(p) /\ p[i] \in S /\ v[i] \in Range(v)
  <2> SUFFICES ASSUME NEW i \in a .. b PROVE i \in 1 .. Len(p) /\ p[i] \in S /\ v[i] \in Range(v)
    OBVIOUS
  <2>1. i \in 1 .. Len(p)
    BY <1>1, <1>3
  <2> QED BY <1>1, <2>1, ElementOfSeq
<1>6. /\ SubSeq(p, a, b) \in Seq(S) /\ SubSeq(v, a, b) \in Seq(Range(v))
      /\ Len(SubSeq(p, a, b)) = b - a + 1 /\ Len(SubSeq(v, a, b)) = b - a + 1
      /\ \A x \in 1 .. b - a + 1 : SubSeq(p, a, b)[x] = p[a + x - 1] /\ SubSeq(v, a, b)[x] = v[a + x - 1]
  <2>1. a \in Int /\ b \in Int
    BY <1>3
  <2>2. /\ SubSeq(p, a, b) \in Seq(S)
        /\ Len(SubSeq(p, a, b)) = IF a <= b THEN b - a + 1 ELSE 0
        /\ \A x \in 1 .. b - a + 1 : SubSeq(p, a, b)[x] = p[a + x - 1]
    BY <1>5, <2>1, SubSeqProperties
  <2>3. /\ SubSeq(v, a, b) \in Seq(Range(v))
        /\ Len(SubSeq(v, a, b)) = IF a <= b THEN b - a + 1 ELSE 0
        /\ \A x \in 1 .. b - a + 1 : SubSeq(v, a, b)[x] = v[a + x - 1]
    BY <1>5, <2>1, SubSeqProperties
  <2>4. (IF a <= b THEN b - a + 1 ELSE 0) = b - a + 1
    BY <1>3
  <2> QED BY <2>2, <2>3, <2>4
<1> DEFINE P == Part(p, e)
           W == Part(v, e)
           n == b - a + 1
<1>7. /\ P \in Seq(S) /\ W \in Seq(Range(v)) /\ Len(P) = n /\ Len(W) = n
      /\ \A x \in 1 .. n : P[x] = p[a + x - 1] /\ W[x] = v[a + x - 1]
  BY <1>4, <1>6
<1> HIDE DEF P, W
<1>8. DOMAIN P = 1 .. n /\ DOMAIN W = 1 .. n /\ W = [x \in DOMAIN W |-> W[x]]
  BY <1>7, LenProperties
<1>9. \A x \in 1 .. n : a + x - 1 \in 1 .. Len(p)
  BY <1>1, <1>3
<1> QED BY <1>7, <1>8, <1>9 DEF P, W
-----------------------------------------------------------------------------
(* The tiles of a job, apart from the state. *)

RowTiles(j) == CeilTiles(j.A.rows, j.arr_M)
ColTiles(j) == CeilTiles(j.B.cols, j.arr_N)
DepthTiles(j) == CeilTiles(j.A.cols, j.arr_K)
Tiles(j) == RowTiles(j) * ColTiles(j) * DepthTiles(j)

TileIn(j, m, c, k) ==
  [m |-> m, c |-> c,
   A |-> CutFrom(j.A, m * j.arr_M, k * j.arr_K, j.arr_M, j.arr_K),
   B |-> CutFrom(j.B, k * j.arr_K, c * j.arr_N, j.arr_K, j.arr_N)]

TileNo(j, n) ==
  TileIn(j, n \div (ColTiles(j) * DepthTiles(j)), (n \div DepthTiles(j)) % ColTiles(j), n % DepthTiles(j))

Pieces(j) == IF j.kind = "gpu" THEN CeilTiles(Tiles(j), j.batch_size) ELSE Tiles(j)

PieceOf(j, i) ==
  IF j.kind = "gpu"
  THEN [x \in 1 .. Lower(j.batch_size, Tiles(j) - i * j.batch_size) |-> TileNo(j, i * j.batch_size + x - 1)]
  ELSE [r \in 1 .. TileNo(j, i).A.rows |-> Row(TileNo(j, i), r - 1)]

ComputeOf(j, item) ==
  IF j.kind = "gpu" THEN Product(item.A, item.B) ELSE one_row(item.A, item.B)

LEMMA OfJob ==
  /\ n_row_tiles = RowTiles(job) /\ n_col_tiles = ColTiles(job) /\ n_k_tiles = DepthTiles(job)
  /\ n_tiles = Tiles(job) /\ n_pieces = Pieces(job)
  /\ \A n : tile(n) = TileNo(job, n)
  /\ \A m, c, k : Tile(m, c, k) = TileIn(job, m, c, k)
  /\ \A i : Piece(i) = PieceOf(job, i)
  /\ \A item : Compute(item) = ComputeOf(job, item)
<1>1. n_row_tiles = RowTiles(job) /\ n_col_tiles = ColTiles(job) /\ n_k_tiles = DepthTiles(job)
  BY DEF n_row_tiles, n_col_tiles, n_k_tiles, RowTiles, ColTiles, DepthTiles
<1>2. n_tiles = Tiles(job)
  BY <1>1 DEF n_tiles, Tiles
<1>3. n_pieces = Pieces(job)
  BY <1>2 DEF n_pieces, Pieces, OnGpu
<1>4. ASSUME NEW m, NEW c, NEW k PROVE Tile(m, c, k) = TileIn(job, m, c, k)
  BY DEF Tile, TileIn
<1>5. ASSUME NEW n PROVE tile(n) = TileNo(job, n)
  BY <1>1, <1>4 DEF tile, TileNo
<1>6. ASSUME NEW i PROVE Piece(i) = PieceOf(job, i)
  BY <1>2, <1>5 DEF Piece, batch, PieceOf, OnGpu
<1>7. ASSUME NEW item PROVE Compute(item) = ComputeOf(job, item)
  BY DEF Compute, ComputeOf, OnGpu
<1> QED BY <1>1, <1>2, <1>3, <1>4, <1>5, <1>6, <1>7

JobFits(j) ==
  /\ IsMatrix(j.A) /\ IsMatrix(j.B) /\ j.A.cols = j.B.rows
  /\ {j.arr_M, j.arr_K, j.arr_N, j.batch_size} \subseteq Nat \ {0}

(* A tile of size P at place k begins inside. *)
LEMMA Inside ==
  ASSUME NEW x \in Nat \ {0}, NEW P \in Nat \ {0}, NEW k \in Upto(CeilTiles(x, P))
  PROVE  /\ k * P \in Upto(x)
         /\ Lower(P, x - k * P) \in Nat \ {0}
         /\ \A r \in Upto(Lower(P, x - k * P)) : r \in Upto(P) /\ k * P + r \in Upto(x)
         /\ \A r \in Upto(P) : k * P + r < x => r \in Upto(Lower(P, x - k * P))
<1>1. /\ CeilTiles(x, P) \in Nat \ {0} /\ CeilTiles(x, P) * P \in Nat
      /\ CeilTiles(x, P) * P < x + P
  BY CeilTilesIs
<1>2. k \in Nat /\ k < CeilTiles(x, P) /\ k * P \in Nat
  BY <1>1, MulNat DEF Upto
<1>3. k * P + P <= CeilTiles(x, P) * P
  <2>1. k \in Int /\ CeilTiles(x, P) \in Int
    BY <1>1, <1>2
  <2> QED BY <1>2, <2>1, Apart
<1>4. k * P < x
  BY <1>1, <1>2, <1>3
<1> DEFINE d == k * P
<1>5. d \in Nat /\ d < x
  BY <1>2, <1>4
<1> HIDE DEF d
<1>6. /\ d \in Upto(x)
      /\ Lower(P, x - d) \in Nat \ {0}
      /\ \A r \in Upto(Lower(P, x - d)) : r \in Upto(P) /\ d + r \in Upto(x)
      /\ \A r \in Upto(P) : d + r < x => r \in Upto(Lower(P, x - d))
  BY <1>5 DEF Upto, Lower
<1> QED BY <1>6 DEF d

Cuts(M, row, col, rows, cols) ==
  /\ IsMatrix(M) /\ row \in Upto(M.rows) /\ col \in Upto(M.cols)
  /\ rows \in Nat \ {0} /\ cols \in Nat \ {0}

LEMMA CutIs ==
  ASSUME NEW M, NEW row, NEW col, NEW rows, NEW cols, Cuts(M, row, col, rows, cols),
         NEW C, C = CutFrom(M, row, col, rows, cols)
  PROVE  /\ IsMatrix(C)
         /\ C.rows = Lower(rows, M.rows - row) /\ C.cols = Lower(cols, M.cols - col)
         /\ \A i \in Upto(C.rows), k \in Upto(C.cols) :
              /\ EntryOf(C, i, k) = EntryOf(M, row + i, col + k)
              /\ row + i \in Upto(M.rows) /\ col + k \in Upto(M.cols)
<1> DEFINE R == Lower(rows, M.rows - row)
           K == Lower(cols, M.cols - col)
<1>0. /\ IsMatrix(M) /\ row \in Upto(M.rows) /\ col \in Upto(M.cols)
      /\ rows \in Nat \ {0} /\ cols \in Nat \ {0}
  BY DEF Cuts
<1>1. M.rows \in Nat \ {0} /\ M.cols \in Nat \ {0}
  BY <1>0, Entries
<1>2. /\ R \in Nat \ {0} /\ \A i \in Upto(R) : row + i \in Upto(M.rows)
      /\ K \in Nat \ {0} /\ \A k \in Upto(K) : col + k \in Upto(M.cols)
  BY <1>0, <1>1 DEF Upto, Lower
<1>3. C = [rows |-> R, cols |-> K,
           cell |-> [rc \in Upto(R) \X Upto(K) |-> EntryOf(M, row + rc[1], col + rc[2])]]
  BY DEF CutFrom, Sized, Matrix, EntryOf
<1> HIDE DEF R, K
<1>4. C.rows = R /\ C.cols = K
      /\ C.cell = [rc \in Upto(R) \X Upto(K) |-> EntryOf(M, row + rc[1], col + rc[2])]
  BY <1>3
<1>5. \A i \in Upto(R), k \in Upto(K) : EntryOf(C, i, k) = EntryOf(M, row + i, col + k)
  BY <1>4, Zenon DEF EntryOf
<1>6. C.cell \in [Upto(R) \X Upto(K) -> Int]
  <2> SUFFICES ASSUME NEW rc \in Upto(R) \X Upto(K) PROVE EntryOf(M, row + rc[1], col + rc[2]) \in Int
    BY <1>4
  <2>1. rc[1] \in Upto(R) /\ rc[2] \in Upto(K)
    OBVIOUS
  <2> QED BY <1>0, <1>2, <2>1, Entries
<1>7. IsMatrix(C)
  BY <1>2, <1>4, <1>6 DEF IsMatrix
<1> QED BY <1>2, <1>4, <1>5, <1>7 DEF R, K

Height(j, m) == Lower(j.arr_M, j.A.rows - m * j.arr_M)
Width(j, c) == Lower(j.arr_N, j.B.cols - c * j.arr_N)
Depth(j, k) == Lower(j.arr_K, j.A.cols - k * j.arr_K)

(* The terms of entry i, q of the product, zero where there is none. *)
Terms(j, i, q) ==
  [x \in Nat |-> IF x < j.A.cols THEN EntryOf(j.A, i, x) * EntryOf(j.B, x, q) ELSE 0]

(* What the tiles at depth k contribute to it. *)
Share(j, k, i, q) == Sigma([y \in Upto(j.arr_K) |-> Terms(j, i, q)[k * j.arr_K + y]], j.arr_K)

LEMMA JobSizes ==
  ASSUME NEW j, JobFits(j)
  PROVE  /\ j.A.rows \in Nat \ {0} /\ j.A.cols \in Nat \ {0} /\ j.B.cols \in Nat \ {0}
         /\ j.arr_M \in Nat \ {0} /\ j.arr_K \in Nat \ {0} /\ j.arr_N \in Nat \ {0}
         /\ j.batch_size \in Nat \ {0}
         /\ RowTiles(j) \in Nat \ {0} /\ ColTiles(j) \in Nat \ {0} /\ DepthTiles(j) \in Nat \ {0}
<1>1. /\ j.A.rows \in Nat \ {0} /\ j.A.cols \in Nat \ {0} /\ j.B.cols \in Nat \ {0}
      /\ j.arr_M \in Nat \ {0} /\ j.arr_K \in Nat \ {0} /\ j.arr_N \in Nat \ {0}
      /\ j.batch_size \in Nat \ {0}
  BY Entries DEF JobFits
<1> QED BY <1>1, CeilTilesIs DEF RowTiles, ColTiles, DepthTiles

LEMMA TermsType ==
  ASSUME NEW j, JobFits(j), NEW i \in Upto(j.A.rows), NEW q \in Upto(j.B.cols), NEW n
  PROVE  IntsTo(Terms(j, i, q), n)
<1> SUFFICES ASSUME NEW x \in Upto(n) PROVE Terms(j, i, q)[x] \in Int
  BY DEF IntsTo
<1>0. x \in Nat
  BY DEF Upto
<1>1. CASE x < j.A.cols
  <2>1. x \in Upto(j.A.cols) /\ x \in Upto(j.B.rows)
    BY <1>0, <1>1, JobSizes DEF Upto, JobFits
  <2>2. EntryOf(j.A, i, x) \in Int /\ EntryOf(j.B, x, q) \in Int
    BY <2>1, Entries DEF JobFits
  <2> QED BY <1>0, <1>1, <2>2, MulInt DEF Terms
<1>2. CASE ~(x < j.A.cols)
  BY <1>0, <1>2 DEF Terms
<1> QED BY <1>1, <1>2

LEMMA ShareType ==
  ASSUME NEW j, JobFits(j), NEW i \in Upto(j.A.rows), NEW q \in Upto(j.B.cols), NEW k \in Nat
  PROVE  Share(j, k, i, q) \in Int
<1> DEFINE f == [y \in Upto(j.arr_K) |-> Terms(j, i, q)[k * j.arr_K + y]]
<1>1. IntsTo(f, j.arr_K)
  <2> SUFFICES ASSUME NEW y \in Upto(j.arr_K) PROVE Terms(j, i, q)[k * j.arr_K + y] \in Int
    BY DEF IntsTo
  <2>1. k * j.arr_K \in Nat /\ y \in Nat
    BY JobSizes, MulNat DEF Upto
  <2>2. k * j.arr_K + y \in Upto(k * j.arr_K + y + 1)
    BY <2>1 DEF Upto
  <2> QED BY <2>2, TermsType DEF IntsTo
<1> HIDE DEF f
<1>2. Sigma(f, j.arr_K) \in Int
  BY <1>1, JobSizes, SigmaType
<1> QED BY <1>2 DEF Share, f

(* A tile. *)
LEMMA TileIs ==
  ASSUME NEW j, JobFits(j), NEW m \in Upto(RowTiles(j)), NEW c \in Upto(ColTiles(j)),
         NEW k \in Upto(DepthTiles(j)), NEW t, t = TileIn(j, m, c, k)
  PROVE  /\ t.m = m /\ t.c = c /\ IsMatrix(t.A) /\ IsMatrix(t.B)
         /\ t.A.rows = Height(j, m) /\ t.B.cols = Width(j, c)
         /\ t.A.cols = Depth(j, k) /\ t.B.rows = Depth(j, k)
         /\ Height(j, m) \in Nat \ {0} /\ Width(j, c) \in Nat \ {0} /\ Depth(j, k) \in Nat \ {0}
         /\ \A r \in Upto(Height(j, m)), x \in Upto(Depth(j, k)) :
              EntryOf(t.A, r, x) = EntryOf(j.A, m * j.arr_M + r, k * j.arr_K + x)
         /\ \A q \in Upto(Width(j, c)), x \in Upto(Depth(j, k)) :
              EntryOf(t.B, x, q) = EntryOf(j.B, k * j.arr_K + x, c * j.arr_N + q)
<1>1. /\ t.m = m /\ t.c = c
      /\ t.A = CutFrom(j.A, m * j.arr_M, k * j.arr_K, j.arr_M, j.arr_K)
      /\ t.B = CutFrom(j.B, k * j.arr_K, c * j.arr_N, j.arr_K, j.arr_N)
  BY DEF TileIn
<1>2. /\ m * j.arr_M \in Upto(j.A.rows) /\ Height(j, m) \in Nat \ {0}
      /\ k * j.arr_K \in Upto(j.A.cols) /\ Depth(j, k) \in Nat \ {0}
      /\ c * j.arr_N \in Upto(j.B.cols) /\ Width(j, c) \in Nat \ {0}
  BY JobSizes, Inside DEF RowTiles, ColTiles, DepthTiles, Height, Depth, Width
<1>3. IsMatrix(j.A) /\ IsMatrix(j.B) /\ j.A.cols = j.B.rows
  BY DEF JobFits
<1>4. /\ IsMatrix(t.A) /\ t.A.rows = Height(j, m) /\ t.A.cols = Depth(j, k)
      /\ \A i \in Upto(t.A.rows), x \in Upto(t.A.cols) :
           EntryOf(t.A, i, x) = EntryOf(j.A, m * j.arr_M + i, k * j.arr_K + x)
  <2>1. Cuts(j.A, m * j.arr_M, k * j.arr_K, j.arr_M, j.arr_K)
    BY <1>2, <1>3, JobSizes DEF Cuts
  <2> QED BY <1>1, <2>1, CutIs DEF Height, Depth
<1>5. /\ IsMatrix(t.B) /\ t.B.rows = Depth(j, k) /\ t.B.cols = Width(j, c)
      /\ \A i \in Upto(t.B.rows), x \in Upto(t.B.cols) :
           EntryOf(t.B, i, x) = EntryOf(j.B, k * j.arr_K + i, c * j.arr_N + x)
  <2>1. Cuts(j.B, k * j.arr_K, c * j.arr_N, j.arr_K, j.arr_N)
    BY <1>2, <1>3, JobSizes DEF Cuts
  <2> QED BY <1>1, <1>3, <2>1, CutIs DEF Width, Depth
<1> QED BY <1>1, <1>2, <1>4, <1>5

(* An entry of a tile's product, and how an engine comes to it. *)
LEMMA TileShare ==
  ASSUME NEW j, JobFits(j), NEW m \in Upto(RowTiles(j)), NEW c \in Upto(ColTiles(j)),
         NEW k \in Upto(DepthTiles(j)), NEW t, t = TileIn(j, m, c, k),
         NEW r \in Upto(Height(j, m)), NEW q \in Upto(Width(j, c))
  PROVE  Sigma([x \in Upto(Depth(j, k)) |-> EntryOf(t.A, r, x) * EntryOf(t.B, x, q)], Depth(j, k))
           = Share(j, k, m * j.arr_M + r, c * j.arr_N + q)
<1> DEFINE i == m * j.arr_M + r
           l == c * j.arr_N + q
           d == Depth(j, k)
           f == [x \in Upto(d) |-> EntryOf(t.A, r, x) * EntryOf(t.B, x, q)]
           g == [y \in Upto(j.arr_K) |-> Terms(j, i, l)[k * j.arr_K + y]]
<1>1. i \in Upto(j.A.rows) /\ l \in Upto(j.B.cols)
  BY JobSizes, Inside DEF RowTiles, ColTiles, Height, Width
<1>2. /\ k * j.arr_K \in Upto(j.A.cols) /\ d \in Nat \ {0} /\ k \in Nat
      /\ \A x \in Upto(d) : x \in Upto(j.arr_K) /\ k * j.arr_K + x \in Upto(j.A.cols)
      /\ \A x \in Upto(j.arr_K) : k * j.arr_K + x < j.A.cols => x \in Upto(d)
  <2>1. k \in Nat
    BY DEF Upto
  <2> QED BY <2>1, JobSizes, Inside DEF DepthTiles, Depth
<1>3. k * j.arr_K \in Nat /\ j.arr_K \in Nat
  BY <1>2, JobSizes DEF Upto
<1>4. ASSUME NEW x \in Upto(d) PROVE g[x] = f[x]
  <2>1. /\ EntryOf(t.A, r, x) = EntryOf(j.A, i, k * j.arr_K + x)
        /\ EntryOf(t.B, x, q) = EntryOf(j.B, k * j.arr_K + x, l)
    BY TileIs
  <2>2. k * j.arr_K + x \in Nat /\ k * j.arr_K + x < j.A.cols /\ x \in Upto(j.arr_K)
    BY <1>2, JobSizes DEF Upto
  <2> HIDE DEF i, l, d
  <2>3. Terms(j, i, l)[k * j.arr_K + x] = EntryOf(j.A, i, k * j.arr_K + x) * EntryOf(j.B, k * j.arr_K + x, l)
    BY <2>2 DEF Terms
  <2> QED BY <2>1, <2>2, <2>3
<1>5. ASSUME NEW x \in d .. j.arr_K - 1 PROVE g[x] = 0
  <2> HIDE DEF d
  <2>1. x \in Upto(j.arr_K) /\ x \notin Upto(d) /\ x \in Nat
    BY <1>2, <1>3 DEF Upto
  <2>2. ~(k * j.arr_K + x < j.A.cols) /\ k * j.arr_K + x \in Nat
    BY <1>2, <1>3, <2>1
  <2> HIDE DEF i, l
  <2> QED BY <2>1, <2>2 DEF Terms
<1>6. IntsTo(g, j.arr_K)
  <2> HIDE DEF i, l, d
  <2> SUFFICES ASSUME NEW y \in Upto(j.arr_K) PROVE Terms(j, i, l)[k * j.arr_K + y] \in Int
    BY DEF IntsTo
  <2>1. k * j.arr_K + y \in Upto(k * j.arr_K + y + 1)
    BY <1>3 DEF Upto
  <2> QED BY <1>1, <2>1, TermsType DEF IntsTo
<1>7. d <= j.arr_K
  <2> HIDE DEF d
  <2>1. d - 1 \in Upto(d)
    BY <1>2 DEF Upto
  <2>2. d - 1 \in Upto(j.arr_K)
    BY <1>2, <2>1
  <2> QED BY <1>2, <1>3, <2>2 DEF Upto
<1>8. IntsTo(g, d) /\ IntsTo(f, d)
  <2> HIDE DEF f, g, d
  <2> QED BY <1>2, <1>3, <1>4, <1>6, <1>7 DEF IntsTo, Upto
<1> HIDE DEF f, g, d
<1>9. Sigma(g, j.arr_K) = Sigma(g, d)
  BY <1>2, <1>3, <1>5, <1>7, <1>8, SigmaZeros
<1>10. Sigma(g, d) = Sigma(f, d)
  BY <1>2, <1>4, <1>8, SigmaSame
<1> QED BY <1>9, <1>10 DEF Share, f, g, d

LEMMA ProductEntry ==
  ASSUME NEW A, NEW B, A.cols \in Nat, NEW i \in Upto(A.rows), NEW q \in Upto(B.cols)
  PROVE  Product(A, B)[<<i, q>>] = Sigma([x \in Upto(A.cols) |-> EntryOf(A, i, x) * EntryOf(B, x, q)], A.cols)
<1> DEFINE f(a, b) == [x \in Upto(A.cols) |-> EntryOf(A, a, x) * EntryOf(B, x, b)]
<1>1. Product(A, B) = [rc \in Upto(A.rows) \X Upto(B.cols) |-> SumFunction(f(rc[1], rc[2]))]
  BY DEF Product, Matrix, EntryOf
<1>2. DOMAIN f(i, q) = Upto(A.cols)
  OBVIOUS
<1> HIDE DEF f
<1>3. SumFunction(f(i, q)) = Sigma(f(i, q), A.cols)
  BY <1>2, SumOnUpto
<1>4. Product(A, B)[<<i, q>>] = Sigma(f(i, q), A.cols)
  BY <1>1, <1>3
<1> QED BY <1>4 DEF f

(* What an engine on a GPU makes of a tile, *)
LEMMA TileMade ==
  ASSUME NEW j, JobFits(j), NEW m \in Upto(RowTiles(j)), NEW c \in Upto(ColTiles(j)),
         NEW k \in Upto(DepthTiles(j)), NEW t, t = TileIn(j, m, c, k),
         NEW r \in Upto(Height(j, m)), NEW q \in Upto(Width(j, c))
  PROVE  Product(t.A, t.B)[<<r, q>>] = Share(j, k, m * j.arr_M + r, c * j.arr_N + q)
<1>1. /\ t.A.rows = Height(j, m) /\ t.B.cols = Width(j, c)
      /\ t.A.cols = Depth(j, k) /\ Depth(j, k) \in Nat
  BY TileIs
<1>2. Product(t.A, t.B)[<<r, q>>]
        = Sigma([x \in Upto(t.A.cols) |-> EntryOf(t.A, r, x) * EntryOf(t.B, x, q)], t.A.cols)
  BY <1>1, ProductEntry
<1> QED BY <1>1, <1>2, TileShare

(* and an engine on a CPU of one of its rows. *)
LEMMA RowMade ==
  ASSUME NEW j, JobFits(j), NEW m \in Upto(RowTiles(j)), NEW c \in Upto(ColTiles(j)),
         NEW k \in Upto(DepthTiles(j)), NEW t, t = TileIn(j, m, c, k),
         NEW r \in Upto(Height(j, m)), NEW q \in Upto(Width(j, c))
  PROVE  one_row(Row(t, r).A, Row(t, r).B)[q] = Share(j, k, m * j.arr_M + r, c * j.arr_N + q)
<1> DEFINE a == CutFrom(t.A, r, 0, 1, t.A.cols)
           B == t.B
           d == Depth(j, k)
<1>1. /\ IsMatrix(t.A) /\ IsMatrix(B) /\ t.A.rows = Height(j, m) /\ B.cols = Width(j, c)
      /\ t.A.cols = d /\ B.rows = d /\ d \in Nat \ {0}
  BY TileIs
<1>2. Row(t, r).A = a /\ Row(t, r).B = B
  BY DEF Row, TileIn
<1>3. \A x \in Upto(d) : EntryOf(a, 0, x) = EntryOf(t.A, r, x) /\ EntryOf(a, 0, x) \in Int
  <2> HIDE DEF a, d
  <2>1. r \in Upto(t.A.rows) /\ 0 \in Upto(t.A.cols) /\ 1 \in Nat \ {0} /\ t.A.cols \in Nat \ {0}
    BY <1>1 DEF Upto
  <2>2. /\ a.rows = Lower(1, t.A.rows - r) /\ a.cols = Lower(t.A.cols, t.A.cols - 0)
        /\ \A i \in Upto(a.rows), x \in Upto(a.cols) :
             EntryOf(a, i, x) = EntryOf(t.A, r + i, 0 + x)
    <3>1. a = CutFrom(t.A, r, 0, 1, t.A.cols)
      BY DEF a
    <3>2. Cuts(t.A, r, 0, 1, t.A.cols)
      BY <1>1, <2>1 DEF Cuts
    <3> QED BY <3>1, <3>2, CutIs
  <2>3. t.A.rows \in Nat /\ r \in Nat /\ r < t.A.rows
    BY <1>1, <2>1, Entries DEF Upto
  <2>4. a.rows = 1 /\ a.cols = d
    BY <1>1, <2>1, <2>2, <2>3 DEF Lower
  <2>5. 0 \in Upto(a.rows) /\ r + 0 = r
    BY <2>3, <2>4 DEF Upto
  <2> SUFFICES ASSUME NEW x \in Upto(d)
               PROVE  EntryOf(a, 0, x) = EntryOf(t.A, r, x) /\ EntryOf(a, 0, x) \in Int
    OBVIOUS
  <2>6. 0 + x = x
    BY DEF Upto
  <2>7. EntryOf(a, 0, x) = EntryOf(t.A, r, x)
    BY <2>2, <2>4, <2>5, <2>6
  <2>8. EntryOf(t.A, r, x) \in Int
    BY <1>1, <2>1, Entries
  <2> QED BY <2>7, <2>8
<1>4. IsRow(a, B)
  <2> HIDE DEF a, B, d
  <2> QED BY <1>1, <1>3 DEF IsRow
<1> DEFINE s(b) == Sigma([x \in Upto(B.rows) |-> EntryOf(a, 0, x) * EntryOf(B, x, b)], B.rows)
<1>5. one_row(a, B) = [b \in Upto(B.cols) |-> s(b)]
  <2> HIDE DEF a, B, d
  <2> QED BY <1>4, OneRow
<1>6. s(q) = Sigma([x \in Upto(d) |-> EntryOf(t.A, r, x) * EntryOf(t.B, x, q)], d)
  <2>1. [x \in Upto(B.rows) |-> EntryOf(a, 0, x) * EntryOf(B, x, q)]
          = [x \in Upto(d) |-> EntryOf(t.A, r, x) * EntryOf(t.B, x, q)]
    <3> HIDE DEF a, d
    <3> QED BY <1>1, <1>3
  <2> QED BY <1>1, <2>1
<1>7. s(q) = Share(j, k, m * j.arr_M + r, c * j.arr_N + q)
  BY <1>6, TileShare
<1> HIDE DEF a, s
<1>8. one_row(a, B)[q] = s(q)
  BY <1>1, <1>5
<1> QED BY <1>2, <1>7, <1>8

(* The shares of all depths are the entry. *)
LEMMA SharesAreEntry ==
  ASSUME NEW j, JobFits(j), NEW i \in Upto(j.A.rows), NEW q \in Upto(j.B.cols)
  PROVE  Sigma([k \in Upto(DepthTiles(j)) |-> Share(j, k, i, q)], DepthTiles(j))
           = Product(j.A, j.B)[<<i, q>>]
<1> DEFINE f == Terms(j, i, q)
           n == DepthTiles(j)
           P == j.arr_K
           d == j.A.cols
           h == [x \in Upto(d) |-> EntryOf(j.A, i, x) * EntryOf(j.B, x, q)]
<1>1. n \in Nat /\ P \in Nat /\ n * P \in Nat /\ d \in Nat /\ d <= n * P
  BY JobSizes, CeilTilesIs DEF DepthTiles
<1>2. \A x : IntsTo(f, x)
  BY TermsType
<1>3. /\ \A x \in Upto(d) : f[x] = h[x]
      /\ \A x \in d .. n * P - 1 : f[x] = 0
  <2> HIDE DEF n, P, d
  <2>1. ASSUME NEW x \in Upto(d) PROVE f[x] = h[x]
    <3>1. x \in Nat /\ x < d
      BY <1>1 DEF Upto
    <3> QED BY <3>1 DEF Terms, d
  <2>2. ASSUME NEW x \in d .. n * P - 1 PROVE f[x] = 0
    <3>1. x \in Nat /\ ~(x < d)
      BY <1>1
    <3> QED BY <3>1 DEF Terms, d
  <2> QED BY <2>1, <2>2
<1> HIDE DEF f, n, P, d, h
<1>4. Sigma(f, n * P) = Sigma([k \in Upto(n) |-> Sigma([y \in Upto(P) |-> f[k * P + y]], P)], n)
  BY <1>1, <1>2, SigmaParts
<1>5. Sigma(f, n * P) = Sigma(f, d)
  BY <1>1, <1>2, <1>3, SigmaZeros
<1>6. Sigma(f, d) = Sigma(h, d)
  <2>1. \A x \in Upto(d) : h[x] = f[x]
    BY <1>3
  <2> QED BY <1>1, <1>2, <2>1, SigmaSame
<1>7. Product(j.A, j.B)[<<i, q>>] = Sigma(h, d)
  <2>1. j.A.cols \in Nat
    BY JobSizes
  <2> QED BY <2>1, ProductEntry DEF h, d
<1> QED BY <1>4, <1>5, <1>6, <1>7 DEF Share, f, n, P
-----------------------------------------------------------------------------
(* The places of the tiles. *)

(* The number of a tile tells its place. *)
LEMMA TilePlace ==
  ASSUME NEW j, JobFits(j), NEW n \in Upto(Tiles(j))
  PROVE  /\ n \div (ColTiles(j) * DepthTiles(j)) \in Upto(RowTiles(j))
         /\ (n \div DepthTiles(j)) % ColTiles(j) \in Upto(ColTiles(j))
         /\ n % DepthTiles(j) \in Upto(DepthTiles(j))
         /\ n = ((n \div (ColTiles(j) * DepthTiles(j))) * ColTiles(j)
                 + ((n \div DepthTiles(j)) % ColTiles(j))) * DepthTiles(j) + (n % DepthTiles(j))
<1> DEFINE R == RowTiles(j)
           C == ColTiles(j)
           K == DepthTiles(j)
           CK == C * K
           u == n \div K
           k == n % K
           v == u \div C
           c == u % C
<1>1. R \in Nat \ {0} /\ C \in Nat \ {0} /\ K \in Nat \ {0}
  BY JobSizes
<1>2. CK \in Nat \ {0} /\ CK \in Int /\ R * CK = Tiles(j) /\ R * CK \in Nat
  <2>1. C * K \in Nat /\ R * C \in Nat /\ R * (C * K) = (R * C) * K
    BY <1>1, MulNat, SMT
  <2>2. C * K # 0
    BY <1>1, SMT
  <2>3. R * (C * K) \in Nat
    BY <1>1, <2>1, MulNat
  <2> QED BY <2>1, <2>2, <2>3 DEF Tiles
<1>3. n \in Nat /\ n < R * CK
  BY <1>2 DEF Upto
<1> HIDE DEF R, C, K, CK
<1>4. u \in Int /\ k \in Upto(K) /\ n = u * K + k
  BY <1>1, <1>3, DivMod
<1>5. v \in Int /\ c \in Upto(C) /\ u = v * C + c
  <2> HIDE DEF u
  <2> QED BY <1>1, <1>4, DivMod
<1> HIDE DEF u, k, v, c
<1>6. n = v * CK + (k + c * K) /\ v * CK \in Int
  <2>1. c \in Int /\ k \in Int /\ C \in Int /\ K \in Int
    BY <1>1, <1>4, <1>5 DEF Upto
  <2>2. (v * C + c) * K + k = v * (C * K) + (k + c * K)
    BY <1>5, <2>1, SMT
  <2>3. v * (C * K) \in Int
    BY <1>2, <1>5, MulInt DEF CK
  <2> QED BY <1>4, <1>5, <2>2, <2>3 DEF CK
<1>7. k + c * K \in Upto(CK)
  <2>1. k + c * K \in Upto(K * C)
    BY <1>1, <1>4, <1>5, BelowProduct
  <2>2. K * C = CK
    BY <1>1, MulNat DEF CK
  <2> QED BY <2>1, <2>2
<1>8. n \div CK = v
  BY <1>2, <1>5, <1>6, <1>7, DivModIs
<1>9. v \in Upto(R)
  <2>1. k + c * K \in Nat /\ k + c * K < CK
    BY <1>2, <1>7 DEF Upto
  <2>2. ~(v < 0)
    <3> SUFFICES ASSUME v < 0 PROVE FALSE
      OBVIOUS
    <3>1. v * CK + CK <= 0 * CK
      BY <1>2, <1>5, Apart
    <3>2. 0 * CK = 0
      BY <1>2
    <3> QED BY <1>2, <1>3, <1>6, <2>1, <3>1, <3>2
  <2>3. ~(R < v) /\ v # R
    <3>1. ~(R < v)
      <4> SUFFICES ASSUME R < v PROVE FALSE
        OBVIOUS
      <4>1. R * CK + CK <= v * CK
        BY <1>1, <1>2, <1>5, Apart
      <4> QED BY <1>2, <1>3, <1>6, <2>1, <4>1
    <3>2. v # R
      BY <1>2, <1>3, <1>6, <2>1
    <3> QED BY <3>1, <3>2
  <2> QED BY <1>1, <1>5, <2>2, <2>3 DEF Upto
<1>10. n = (v * C + c) * K + k
  BY <1>4, <1>5
<1>11. c = (n \div K) % C /\ k = n % K
  BY DEF c, u, k
<1>12. /\ n \div CK \in Upto(R) /\ (n \div K) % C \in Upto(C) /\ n % K \in Upto(K)
       /\ n = ((n \div CK) * C + ((n \div K) % C)) * K + (n % K)
  <2>1. n \div CK \in Upto(R)
    BY <1>8, <1>9, Zenon
  <2>2. (n \div K) % C \in Upto(C)
    BY <1>5, <1>11, Zenon
  <2>3. n % K \in Upto(K)
    BY <1>4, <1>11, Zenon
  <2>4. n = ((n \div CK) * C + ((n \div K) % C)) * K + (n % K)
    BY <1>8, <1>10, <1>11, Zenon
  <2> QED BY <2>1, <2>2, <2>3, <2>4, Zenon
<1> QED BY <1>12, Zenon DEF R, C, K, CK

LEMMA PlaceTile ==
  ASSUME NEW j, JobFits(j), NEW m \in Upto(RowTiles(j)), NEW c \in Upto(ColTiles(j)),
         NEW k \in Upto(DepthTiles(j)), NEW n, n = (m * ColTiles(j) + c) * DepthTiles(j) + k
  PROVE  /\ n \in Upto(Tiles(j)) /\ n % DepthTiles(j) = k
         /\ n \div (ColTiles(j) * DepthTiles(j)) = m
         /\ (n \div DepthTiles(j)) % ColTiles(j) = c
<1> DEFINE R == RowTiles(j)
           C == ColTiles(j)
           K == DepthTiles(j)
           CK == C * K
           u == m * C + c
<1>1. R \in Nat \ {0} /\ C \in Nat \ {0} /\ K \in Nat \ {0}
  BY JobSizes
<1>2. m \in Nat /\ c \in Nat /\ k \in Nat /\ c < C /\ k < K /\ m < R
  BY <1>1 DEF Upto
<1> HIDE DEF R, C, K
<1>3. CK \in Nat \ {0}
  <2>1. C * K \in Nat
    BY <1>1, MulNat
  <2>2. C * K # 0
    BY <1>1, SMT
  <2> QED BY <2>1, <2>2
<1>4. u \in Nat
  BY <1>1, <1>2, MulNat
<1>5. n = u * K + k
  BY DEF C, K
<1>6. n \div K = u /\ n % K = k
  <2>1. k \in Upto(K) /\ u \in Int
    BY <1>4 DEF K
  <2> HIDE DEF u
  <2> QED BY <1>1, <1>5, <2>1, DivModIs
<1>7. u % C = c
  <2>1. c \in Upto(C) /\ m \in Int
    BY <1>2 DEF C
  <2> QED BY <1>1, <2>1, DivModIs
<1>8. n = m * CK + (k + c * K)
  <2>1. (m * C + c) * K + k = m * (C * K) + (k + c * K)
    BY <1>1, <1>2, SMT
  <2> QED BY <1>5, <2>1
<1>9. n \div CK = m
  <2>1. k + c * K \in Upto(K * C)
    BY <1>1, BelowProduct DEF K, C
  <2>2. K * C = CK
    BY <1>1, MulNat
  <2>3. m \in Int /\ k + c * K \in Upto(CK)
    BY <1>2, <2>1, <2>2
  <2> HIDE DEF CK
  <2> QED BY <1>3, <1>8, <2>3, DivModIs
<1>10. n \in Upto(Tiles(j))
  <2>1. c + m * C \in Upto(C * R)
    BY <1>1, BelowProduct DEF C, R
  <2>2. u \in Upto(C * R)
    <3>1. m * C \in Nat
      BY <1>1, <1>2, MulNat
    <3>2. c + m * C = m * C + c
      BY <1>2, <3>1
    <3> QED BY <2>1, <3>2
  <2> HIDE DEF u
  <2>3. C * R \in Nat \ {0}
    BY <2>2, <1>1, MulNat DEF Upto
  <2>4. k + u * K \in Upto(K * (C * R))
    BY <1>1, <2>2, <2>3, BelowProduct DEF K
  <2>5. K * (C * R) = Tiles(j)
    <3>1. K * (C * R) = (R * C) * K
      BY <1>1, SMT
    <3> QED BY <3>1 DEF Tiles, R, C, K
  <2>6. k + u * K = n
    <3>1. u * K \in Nat
      BY <1>1, <1>4, MulNat
    <3> QED BY <1>2, <1>5, <3>1
  <2> QED BY <2>4, <2>5, <2>6
<1> QED BY <1>6, <1>7, <1>9, <1>10 DEF C, K, CK

(* What tile n adds to entry rc of the block of a key. *)
Adds(j, key, rc) ==
  [n \in Nat |-> IF <<TileNo(j, n).m, TileNo(j, n).c>> = key
                 THEN Share(j, n % DepthTiles(j), key[1] * j.arr_M + rc[1], key[2] * j.arr_N + rc[2])
                 ELSE 0]

Keys(j) == Upto(RowTiles(j)) \X Upto(ColTiles(j))
BlockCells(j, key) == Upto(Height(j, key[1])) \X Upto(Width(j, key[2]))

LEMMA KeyOf ==
  \A j, n : /\ TileNo(j, n).m = n \div (ColTiles(j) * DepthTiles(j))
            /\ TileNo(j, n).c = (n \div DepthTiles(j)) % ColTiles(j)
BY DEF TileNo, TileIn

LEMMA InProduct ==
  ASSUME NEW j, JobFits(j), NEW key \in Keys(j), NEW rc \in BlockCells(j, key)
  PROVE  /\ key[1] * j.arr_M + rc[1] \in Upto(j.A.rows)
         /\ key[2] * j.arr_N + rc[2] \in Upto(j.B.cols)
<1>1. key[1] \in Upto(RowTiles(j)) /\ key[2] \in Upto(ColTiles(j))
  BY DEF Keys
<1>2. rc[1] \in Upto(Height(j, key[1])) /\ rc[2] \in Upto(Width(j, key[2]))
  BY DEF BlockCells
<1> QED BY <1>1, <1>2, JobSizes, Inside DEF RowTiles, ColTiles, Height, Width

LEMMA AddsType ==
  ASSUME NEW j, JobFits(j), NEW key \in Keys(j), NEW rc \in BlockCells(j, key)
  PROVE  (\A n \in Nat : Adds(j, key, rc)[n] \in Int) /\ \A n : IntsTo(Adds(j, key, rc), n)
<1>1. \A n \in Nat : Adds(j, key, rc)[n] \in Int
  <2> SUFFICES ASSUME NEW n \in Nat PROVE Adds(j, key, rc)[n] \in Int
    OBVIOUS
  <2>1. n % DepthTiles(j) \in Nat
    <3>1. n \in Int /\ DepthTiles(j) \in Nat \ {0}
      BY JobSizes
    <3>2. n % DepthTiles(j) \in Upto(DepthTiles(j))
      BY <3>1, DivMod
    <3> QED BY <3>1, <3>2 DEF Upto
  <2>2. Share(j, n % DepthTiles(j), key[1] * j.arr_M + rc[1], key[2] * j.arr_N + rc[2]) \in Int
    BY <2>1, InProduct, ShareType
  <2> QED BY <2>2 DEF Adds
<1> QED BY <1>1 DEF IntsTo, Upto

(* All tiles together add up to the product. *)
LEMMA AllTiles ==
  ASSUME NEW j, JobFits(j), NEW key \in Keys(j), NEW rc \in BlockCells(j, key)
  PROVE  Sigma(Adds(j, key, rc), Tiles(j))
           = Product(j.A, j.B)[<<key[1] * j.arr_M + rc[1], key[2] * j.arr_N + rc[2]>>]
<1> DEFINE f == Adds(j, key, rc)
           K == DepthTiles(j)
           m == key[1]
           c == key[2]
           i == m * j.arr_M + rc[1]
           q == c * j.arr_N + rc[2]
           a == (m * ColTiles(j) + c) * K
           T == Tiles(j)
<1>1. m \in Upto(RowTiles(j)) /\ c \in Upto(ColTiles(j)) /\ key = <<m, c>>
  BY DEF Keys
<1>2. K \in Nat \ {0} /\ a \in Nat /\ m * ColTiles(j) + c \in Nat
  <2>1. K \in Nat \ {0} /\ ColTiles(j) \in Nat /\ m \in Nat /\ c \in Nat
    BY <1>1, JobSizes DEF Upto
  <2>2. m * ColTiles(j) + c \in Nat
    BY <2>1, MulNat
  <2> QED BY <2>1, <2>2, MulNat
<1>3. \A n : IntsTo(f, n)
  BY AddsType
<1>4. ASSUME NEW k \in Upto(K) PROVE a + k \in Upto(T) /\ f[a + k] = Share(j, k, i, q)
  <2> DEFINE n == a + k
  <2>1. /\ n \in Upto(T) /\ n % K = k
        /\ n \div (ColTiles(j) * K) = m /\ (n \div K) % ColTiles(j) = c
    BY <1>1, PlaceTile
  <2> HIDE DEF n
  <2>2. TileNo(j, n).m = m /\ TileNo(j, n).c = c
    BY <2>1, KeyOf
  <2>3. n \in Nat
    BY <2>1 DEF Upto
  <2>4. f[n] = Share(j, k, i, q)
    BY <1>1, <2>1, <2>2, <2>3 DEF Adds
  <2> QED BY <2>1, <2>4 DEF n
<1>5. T \in Nat /\ a + K <= T
  <2>1. K - 1 \in Upto(K) /\ K - 1 \in Int
    BY <1>2 DEF Upto
  <2>2. a + (K - 1) \in Upto(T)
    BY <1>4, <2>1
  <2>3. T \in Nat
    <3>1. RowTiles(j) \in Nat /\ ColTiles(j) \in Nat /\ K \in Nat
      BY JobSizes
    <3>2. RowTiles(j) * ColTiles(j) \in Nat
      BY <3>1, MulNat
    <3> QED BY <3>1, <3>2, MulNat DEF Tiles
  <2> HIDE DEF a, K, T
  <2> QED BY <1>2, <2>2, <2>3 DEF Upto
<1>6. ASSUME NEW n \in Upto(T), f[n] # 0 PROVE n \in a .. a + K - 1
  <2>1. n \in Nat
    BY <1>5 DEF Upto
  <2>2. TileNo(j, n).m = m /\ TileNo(j, n).c = c
    <3>1. <<TileNo(j, n).m, TileNo(j, n).c>> = key
      BY <1>6, <2>1 DEF Adds
    <3> QED BY <1>1, <3>1
  <2>3. n \div (ColTiles(j) * K) = m /\ (n \div K) % ColTiles(j) = c
    BY <2>2, KeyOf
  <2>4. n = a + (n % K) /\ n % K \in Upto(K)
    <3> DEFINE x == n \div (ColTiles(j) * K)
               y == (n \div K) % ColTiles(j)
               z == n % K
    <3>1. z \in Upto(K) /\ n = (x * ColTiles(j) + y) * K + z
      BY TilePlace
    <3>2. x = m /\ y = c
      BY <2>3
    <3> HIDE DEF x, y, z
    <3>3. n = (m * ColTiles(j) + c) * K + z
      BY <3>1, <3>2, Zenon
    <3> QED BY <3>1, <3>3, Zenon DEF z, a
  <2> DEFINE z == n % K
  <2>5. n = a + z /\ z \in Upto(K)
    BY <2>4
  <2> HIDE DEF a, K, T, z
  <2> QED BY <1>2, <2>1, <2>5 DEF Upto
<1>7. Product(j.A, j.B)[<<i, q>>] = Sigma([k \in Upto(K) |-> Share(j, k, i, q)], K)
  BY InProduct, SharesAreEntry
<1>8. [k \in Upto(K) |-> f[a + k]] = [k \in Upto(K) |-> Share(j, k, i, q)]
  <2> HIDE DEF f, a, i, q, K
  <2> QED BY <1>4
<1> HIDE DEF f, a, i, q, K, T
<1>9. \A n \in 0 .. a - 1 : f[n] = 0
  <2> SUFFICES ASSUME NEW n \in 0 .. a - 1, f[n] # 0 PROVE FALSE
    OBVIOUS
  <2>1. n \in Upto(T) /\ n \notin a .. a + K - 1
    BY <1>2, <1>5 DEF Upto
  <2> QED BY <1>6, <2>1
<1>10. \A n \in a + K .. T - 1 : f[n] = 0
  <2> SUFFICES ASSUME NEW n \in a + K .. T - 1, f[n] # 0 PROVE FALSE
    OBVIOUS
  <2>1. n \in Upto(T) /\ n \notin a .. a + K - 1
    BY <1>2, <1>5 DEF Upto
  <2> QED BY <1>6, <2>1
<1>11. Sigma(f, a) = 0
  <2>1. Sigma(f, a) = Sigma(f, 0)
    BY <1>2, <1>3, <1>9, SigmaZeros
  <2> QED BY <2>1, SigmaNone
<1>12. Sigma(f, T) = Sigma(f, a + K)
  BY <1>2, <1>3, <1>5, <1>10, SigmaZeros
<1>13. Sigma(f, a + K) = Sigma(f, a) + Sigma([k \in Upto(K) |-> f[a + k]], K)
  BY <1>2, <1>3, SigmaPlus
<1> DEFINE s == Sigma([k \in Upto(K) |-> f[a + k]], K)
<1>14. s \in Int
  <2>1. IntsTo([k \in Upto(K) |-> f[a + k]], K)
    <3> SUFFICES ASSUME NEW k \in Upto(K) PROVE f[a + k] \in Int
      BY DEF IntsTo
    <3>1. a + k \in Upto(a + k + 1)
      BY <1>2 DEF Upto
    <3> QED BY <1>3, <3>1 DEF IntsTo
  <2> QED BY <1>2, <2>1, SigmaType
<1>15. Sigma(f, T) = s
  <2> HIDE DEF s
  <2>1. Sigma(f, a + K) = Sigma(f, a) + s
    BY <1>13 DEF s
  <2> QED BY <1>11, <1>12, <1>14, <2>1
<1>16. s = Product(j.A, j.B)[<<i, q>>]
  BY <1>7, <1>8
<1> HIDE DEF s
<1> QED BY <1>15, <1>16 DEF f, T, i, q, m, c
-----------------------------------------------------------------------------
(* What the pieces add. *)

LEMMA IndexedSeq ==
  ASSUME NEW n \in Nat, NEW s, s = [x \in 1 .. n |-> s[x]]
  PROVE  s \in Seq(Range(s)) /\ Len(s) = n /\ DOMAIN s = 1 .. n
<1>1. DOMAIN s = 1 .. n /\ s \in Seq(Range(s))
  BY DEF Range
<1>2. Len(s) \in Nat /\ 1 .. Len(s) = 1 .. n
  BY <1>1, LenProperties
<1> QED BY <1>1, <1>2

LEMMA SumOfChosen ==
  ASSUME NEW h, NEW n \in Nat, NEW D \in SUBSET (1 .. n), NEW f, IntsTo(f, n),
         \A x \in 1 .. n : f[x - 1] = IF x \in D THEN h[x] ELSE 0
  PROVE  SumFunctionOnSet(h, D) = Sigma(f, n)
<1> DEFINE U == {m \in Nat : m <= n => SumFunctionOnSet(h, D \cap 1 .. m) = Sigma(f, m)}
<1>1. 0 \in U
  <2>1. D \cap 1 .. 0 = {}
    OBVIOUS
  <2> QED BY <2>1, SumOfNone, SigmaNone
<1>2. ASSUME NEW m \in U PROVE m + 1 \in U
  <2> SUFFICES ASSUME m + 1 <= n PROVE SumFunctionOnSet(h, D \cap 1 .. m + 1) = Sigma(f, m + 1)
    OBVIOUS
  <2> DEFINE E == D \cap 1 .. m
  <2>1. m \in Nat /\ m <= n /\ m + 1 \in 1 .. n /\ (m + 1) - 1 = m
    OBVIOUS
  <2>2. SumFunctionOnSet(h, E) = Sigma(f, m)
    BY <2>1
  <2>3. IntsTo(f, m + 1)
    BY <2>1 DEF IntsTo, Upto
  <2>4. Sigma(f, m + 1) = Sigma(f, m) + f[m] /\ Sigma(f, m) \in Int /\ f[m] \in Int
    BY <2>1, <2>3, SigmaNext
  <2>5. f[m] = IF m + 1 \in D THEN h[m + 1] ELSE 0
    BY <2>1
  <2>6. IsFiniteSet(E)
    <3>1. IsFiniteSet(1 .. m)
      BY <2>1, FS_Interval
    <3> QED BY <3>1, FS_Subset
  <2>7. \A y \in E : h[y] \in Int
    <3> SUFFICES ASSUME NEW y \in E PROVE h[y] \in Int
      OBVIOUS
    <3>1. y \in D /\ y \in 1 .. n /\ y - 1 \in Upto(n)
      BY <2>1 DEF Upto
    <3>2. f[y - 1] = h[y] /\ f[y - 1] \in Int
      BY <3>1 DEF IntsTo
    <3> QED BY <3>2
  <2>8. CASE m + 1 \in D
    <3>1. D \cap 1 .. m + 1 = E \cup {m + 1} /\ m + 1 \notin E
      BY <2>1, <2>8
    <3>2. h[m + 1] \in Int /\ f[m] = h[m + 1]
      BY <2>4, <2>5, <2>8
    <3> HIDE DEF E
    <3>3. SumFunctionOnSet(h, E \cup {m + 1}) = SumFunctionOnSet(h, E) + h[m + 1]
      BY <2>6, <2>7, <3>1, <3>2, SumAdd
    <3> QED BY <2>2, <2>4, <3>1, <3>2, <3>3
  <2>9. CASE m + 1 \notin D
    <3>1. D \cap 1 .. m + 1 = E
      BY <2>1, <2>9
    <3> QED BY <2>2, <2>4, <2>5, <2>9, <3>1
  <2> QED BY <2>8, <2>9
<1>3. U = Nat
  <2>1. U \in SUBSET Nat
    OBVIOUS
  <2> HIDE DEF U
  <2> QED BY <1>1, <1>2, <2>1, Induction
<1>4. SumFunctionOnSet(h, D \cap 1 .. n) = Sigma(f, n)
  BY <1>3
<1>5. D \cap 1 .. n = D
  OBVIOUS
<1> QED BY <1>4, <1>5

Gpu(j) == j.kind = "gpu"

(* The tiles in the pieces before the i-th. *)
Done(j, i) == IF Gpu(j) THEN Lower(i * j.batch_size, Tiles(j)) ELSE i

Made(j, i) == [x \in 1 .. Len(PieceOf(j, i)) |-> ComputeOf(j, PieceOf(j, i)[x])]

(* What the i-th piece adds to an entry. *)
Gain(j, i, key, rc) ==
  IF Gpu(j)
  THEN SumFunction([x \in {x \in DOMAIN Made(j, i) : <<PieceOf(j, i)[x].m, PieceOf(j, i)[x].c>> = key} |->
                      Made(j, i)[x][rc]])
  ELSE IF key = <<TileNo(j, i).m, TileNo(j, i).c>> THEN Made(j, i)[rc[1] + 1][rc[2]] ELSE 0

LEMMA TilesType == ASSUME NEW j, JobFits(j) PROVE Tiles(j) \in Nat \ {0}
<1>1. RowTiles(j) \in Nat \ {0} /\ ColTiles(j) \in Nat \ {0} /\ DepthTiles(j) \in Nat \ {0}
  BY JobSizes
<1>2. RowTiles(j) * ColTiles(j) \in Nat \ {0}
  BY <1>1, SMT
<1> DEFINE n == RowTiles(j) * ColTiles(j)
<1> HIDE DEF n
<1>3. n \in Nat \ {0}
  BY <1>2 DEF n
<1>4. n * DepthTiles(j) \in Nat \ {0}
  BY <1>1, <1>3, SMT
<1> QED BY <1>4 DEF Tiles, n

(* All pieces are all tiles. *)
LEMMA DoneEnds ==
  ASSUME NEW j, JobFits(j)
  PROVE  Pieces(j) \in Nat \ {0} /\ Done(j, 0) = 0 /\ Done(j, Pieces(j)) = Tiles(j)
<1>1. Tiles(j) \in Nat \ {0} /\ j.batch_size \in Nat \ {0}
  BY TilesType, JobSizes
<1>2. CASE ~Gpu(j)
  BY <1>1, <1>2 DEF Gpu, Pieces, Done
<1>3. CASE Gpu(j)
  <2>1. Pieces(j) = CeilTiles(Tiles(j), j.batch_size)
    BY <1>3 DEF Gpu, Pieces
  <2>2. /\ Pieces(j) \in Nat \ {0} /\ Pieces(j) * j.batch_size \in Nat
        /\ Tiles(j) <= Pieces(j) * j.batch_size
    BY <1>1, <2>1, CeilTilesIs
  <2>3. Lower(Pieces(j) * j.batch_size, Tiles(j)) = Tiles(j)
    BY <1>1, <2>2 DEF Lower
  <2>4. 0 * j.batch_size = 0 /\ Lower(0, Tiles(j)) = 0
    BY <1>1 DEF Lower
  <2> QED BY <1>3, <2>2, <2>3, <2>4 DEF Done
<1> QED BY <1>2, <1>3

LEMMA GpuPiece ==
  ASSUME NEW j, JobFits(j), Gpu(j), NEW i \in Upto(Pieces(j)), NEW n, n = Lower(j.batch_size, Tiles(j) - i * j.batch_size)
  PROVE  /\ n \in Nat \ {0} /\ i * j.batch_size \in Nat
         /\ Done(j, i) = i * j.batch_size /\ Done(j, i + 1) = i * j.batch_size + n
         /\ PieceOf(j, i) = [x \in 1 .. n |-> TileNo(j, i * j.batch_size + x - 1)]
         /\ Len(PieceOf(j, i)) = n /\ DOMAIN PieceOf(j, i) = 1 .. n
         /\ PieceOf(j, i) \in Seq(Range(PieceOf(j, i)))
         /\ \A x \in 1 .. n : i * j.batch_size + x - 1 \in Upto(Tiles(j))
<1> DEFINE b == j.batch_size
           T == Tiles(j)
           d == i * b
<1>1. T \in Nat \ {0} /\ b \in Nat \ {0}
  BY TilesType, JobSizes
<1>2. /\ d \in Upto(T) /\ n \in Nat \ {0} /\ i \in Nat
      /\ \A r \in Upto(n) : d + r \in Upto(T)
  <2>1. i \in Upto(CeilTiles(T, b))
    BY DEF Gpu, Pieces
  <2>2. i \in Nat
    BY <1>1, <2>1, CeilTilesIs DEF Upto
  <2> QED BY <1>1, <2>1, <2>2, Inside
<1>3. d \in Nat /\ d < T /\ (i + 1) * b = d + b
  <2> HIDE DEF b, T
  <2>1. (i + 1) * b = i * b + b
    BY <1>1, <1>2, SMT
  <2> QED BY <1>1, <1>2, <2>1 DEF Upto
<1>4. PieceOf(j, i) = [x \in 1 .. n |-> TileNo(j, d + x - 1)]
  BY DEF PieceOf, Gpu
<1> HIDE DEF d, T, b
<1>5. Lower(d, T) = d /\ Lower(d + b, T) = d + n
  <2>1. n = Lower(b, T - d)
    BY DEF b, T, d
  <2> QED BY <1>1, <1>3, <2>1 DEF Lower
<1>6. Done(j, i) = d /\ Done(j, i + 1) = d + n
  BY <1>3, <1>5 DEF Done, d, T, b
<1>7. \A x \in 1 .. n : d + x - 1 \in Upto(T)
  <2> SUFFICES ASSUME NEW x \in 1 .. n PROVE d + x - 1 \in Upto(T)
    OBVIOUS
  <2>1. x - 1 \in Upto(n) /\ d + (x - 1) = d + x - 1
    BY <1>2, <1>3 DEF Upto
  <2> QED BY <1>2, <2>1
<1>8. Len(PieceOf(j, i)) = n /\ DOMAIN PieceOf(j, i) = 1 .. n /\ PieceOf(j, i) \in Seq(Range(PieceOf(j, i)))
  <2> DEFINE s == PieceOf(j, i)
  <2>1. s = [x \in 1 .. n |-> s[x]]
    BY <1>4
  <2> HIDE DEF s
  <2>2. Len(s) = n /\ DOMAIN s = 1 .. n /\ s \in Seq(Range(s))
    BY <1>2, <2>1, IndexedSeq
  <2> QED BY <2>2 DEF s
<1> QED BY <1>2, <1>3, <1>4, <1>6, <1>7, <1>8 DEF d, T, b

LEMMA CpuPiece ==
  ASSUME NEW j, JobFits(j), ~Gpu(j), NEW i \in Upto(Pieces(j))
  PROVE  /\ i \in Upto(Tiles(j)) /\ i \in Nat
         /\ TileNo(j, i).A.rows \in Nat \ {0}
         /\ PieceOf(j, i) = [x \in 1 .. TileNo(j, i).A.rows |-> Row(TileNo(j, i), x - 1)]
         /\ Len(PieceOf(j, i)) = TileNo(j, i).A.rows
         /\ DOMAIN PieceOf(j, i) = 1 .. TileNo(j, i).A.rows
         /\ PieceOf(j, i) \in Seq(Range(PieceOf(j, i)))
<1> DEFINE n == TileNo(j, i).A.rows
<1>1. i \in Upto(Tiles(j)) /\ i \in Nat
  <2>1. i \in Upto(Tiles(j))
    BY DEF Gpu, Pieces
  <2> QED BY <2>1, TilesType DEF Upto
<1>2. n \in Nat \ {0}
  <2> DEFINE m == i \div (ColTiles(j) * DepthTiles(j))
             c == (i \div DepthTiles(j)) % ColTiles(j)
             k == i % DepthTiles(j)
  <2>1. m \in Upto(RowTiles(j)) /\ c \in Upto(ColTiles(j)) /\ k \in Upto(DepthTiles(j))
    BY <1>1, TilePlace
  <2>2. TileNo(j, i) = TileIn(j, m, c, k)
    BY DEF TileNo
  <2> HIDE DEF m, c, k
  <2>3. n = Height(j, m) /\ Height(j, m) \in Nat \ {0}
    BY <2>1, <2>2, TileIs
  <2> QED BY <2>3
<1>3. PieceOf(j, i) = [x \in 1 .. n |-> Row(TileNo(j, i), x - 1)]
  BY DEF PieceOf, Gpu
<1> HIDE DEF n
<1> DEFINE s == PieceOf(j, i)
<1>4. s = [x \in 1 .. n |-> s[x]]
  BY <1>3
<1> HIDE DEF s
<1>5. Len(s) = n /\ DOMAIN s = 1 .. n /\ s \in Seq(Range(s))
  BY <1>2, <1>4, IndexedSeq
<1> QED BY <1>1, <1>2, <1>3, <1>5 DEF s, n

LEMMA GpuGain ==
  ASSUME NEW j, JobFits(j), Gpu(j), NEW i \in Upto(Pieces(j)),
         NEW key \in Keys(j), NEW rc \in BlockCells(j, key)
  PROVE  Sigma(Adds(j, key, rc), Done(j, i + 1)) = Sigma(Adds(j, key, rc), Done(j, i)) + Gain(j, i, key, rc)
<1> DEFINE n == Lower(j.batch_size, Tiles(j) - i * j.batch_size)
           d == i * j.batch_size
           p == PieceOf(j, i)
           f == Adds(j, key, rc)
           g == [y \in Upto(n) |-> f[d + y]]
           M == Made(j, i)
           D == {x \in DOMAIN M : <<p[x].m, p[x].c>> = key}
           h == [x \in D |-> M[x][rc]]
<1>1. /\ n \in Nat \ {0} /\ d \in Nat
      /\ Done(j, i) = d /\ Done(j, i + 1) = d + n
      /\ p = [x \in 1 .. n |-> TileNo(j, d + x - 1)]
      /\ Len(p) = n /\ DOMAIN p = 1 .. n
      /\ \A x \in 1 .. n : d + x - 1 \in Upto(Tiles(j))
  BY GpuPiece
<1>2. M = [x \in 1 .. n |-> ComputeOf(j, p[x])]
  BY <1>1 DEF Made
<1>3. (\A x \in Nat : f[x] \in Int) /\ \A x : IntsTo(f, x)
  BY AddsType
<1>4. Gain(j, i, key, rc) = SumFunction(h)
  BY DEF Gain
<1>5. ASSUME NEW x \in 1 .. n PROVE g[x - 1] = IF x \in D THEN h[x] ELSE 0
  <2> DEFINE t == d + x - 1
             m == t \div (ColTiles(j) * DepthTiles(j))
             c == (t \div DepthTiles(j)) % ColTiles(j)
             k == t % DepthTiles(j)
  <2>1. t \in Upto(Tiles(j)) /\ p[x] = TileNo(j, t) /\ M[x] = ComputeOf(j, p[x]) /\ x \in DOMAIN M
    BY <1>1, <1>2
  <2>2. x - 1 \in Upto(n) /\ d + (x - 1) = t /\ t \in Nat
    <3>1. x - 1 \in Upto(n) /\ d + (x - 1) = t
      BY <1>1 DEF Upto
    <3>2. t \in Nat
      BY <1>1
    <3> QED BY <3>1, <3>2
  <2> HIDE DEF n, d, p, f, M, t
  <2>3. g[x - 1] = f[t]
    BY <2>2
  <2>4. m \in Upto(RowTiles(j)) /\ c \in Upto(ColTiles(j)) /\ k \in Upto(DepthTiles(j))
    BY <2>1, TilePlace
  <2>5. p[x] = TileIn(j, m, c, k)
    BY <2>1 DEF TileNo
  <2>6. f[t] = IF <<p[x].m, p[x].c>> = key
               THEN Share(j, k, key[1] * j.arr_M + rc[1], key[2] * j.arr_N + rc[2]) ELSE 0
    BY <2>1, <2>2 DEF Adds, f
  <2>7. CASE <<p[x].m, p[x].c>> = key
    <3>1. x \in D /\ h[x] = M[x][rc]
      BY <2>1, <2>7
    <3>2. M[x] = Product(p[x].A, p[x].B)
      BY <2>1 DEF ComputeOf, Gpu
    <3> HIDE DEF m, c, k
    <3>3. p[x].m = m /\ p[x].c = c
      BY <2>5 DEF TileIn
    <3>4. key[1] = m /\ key[2] = c
      BY <2>7, <3>3
    <3>5. rc[1] \in Upto(Height(j, m)) /\ rc[2] \in Upto(Width(j, c)) /\ rc = <<rc[1], rc[2]>>
      BY <3>4 DEF BlockCells
    <3>6. Product(p[x].A, p[x].B)[<<rc[1], rc[2]>>] = Share(j, k, m * j.arr_M + rc[1], c * j.arr_N + rc[2])
      BY <2>4, <2>5, <3>5, TileMade
    <3> QED BY <2>3, <2>6, <2>7, <3>1, <3>2, <3>4, <3>5, <3>6
  <2>8. CASE <<p[x].m, p[x].c>> # key
    BY <2>3, <2>6, <2>8
  <2> QED BY <2>7, <2>8
<1>6. D \in SUBSET (1 .. n)
  BY <1>2
<1>7. IntsTo(g, n)
  <2> SUFFICES ASSUME NEW y \in Upto(n) PROVE f[d + y] \in Int
    BY DEF IntsTo
  <2> HIDE DEF n, d, f
  <2>1. d + y \in Nat
    BY <1>1 DEF Upto
  <2> QED BY <1>3, <2>1
<1>8. SumFunction(h) = SumFunctionOnSet(h, D)
  <2>1. DOMAIN h = D
    OBVIOUS
  <2> HIDE DEF h, D
  <2> QED BY <2>1 DEF SumFunction
<1> HIDE DEF n, d, p, f, M, D, h, g
<1>9. SumFunctionOnSet(h, D) = Sigma(g, n)
  <2>1. \A x \in 1 .. n : g[x - 1] = IF x \in D THEN h[x] ELSE 0
    BY <1>5
  <2>2. n \in Nat
    BY <1>1
  <2> QED BY <2>1, <2>2, <1>6, <1>7, SumOfChosen
<1>10. Sigma(f, d + n) = Sigma(f, d) + Sigma(g, n)
  BY <1>1, <1>3, SigmaPlus DEF g
<1> QED BY <1>1, <1>4, <1>8, <1>9, <1>10 DEF f

LEMMA CpuGain ==
  ASSUME NEW j, JobFits(j), ~Gpu(j), NEW i \in Upto(Pieces(j)),
         NEW key \in Keys(j), NEW rc \in BlockCells(j, key)
  PROVE  Sigma(Adds(j, key, rc), Done(j, i + 1)) = Sigma(Adds(j, key, rc), Done(j, i)) + Gain(j, i, key, rc)
<1> DEFINE t == TileNo(j, i)
           p == PieceOf(j, i)
           f == Adds(j, key, rc)
           M == Made(j, i)
           n == t.A.rows
           m == i \div (ColTiles(j) * DepthTiles(j))
           c == (i \div DepthTiles(j)) % ColTiles(j)
           k == i % DepthTiles(j)
<1>1. /\ i \in Upto(Tiles(j)) /\ i \in Nat /\ n \in Nat \ {0}
      /\ p = [x \in 1 .. n |-> Row(t, x - 1)] /\ Len(p) = n
  BY CpuPiece
<1>2. m \in Upto(RowTiles(j)) /\ c \in Upto(ColTiles(j)) /\ k \in Upto(DepthTiles(j))
  BY <1>1, TilePlace
<1>3. t = TileIn(j, m, c, k)
  BY DEF TileNo
<1>4. M = [x \in 1 .. n |-> ComputeOf(j, p[x])]
  BY <1>1 DEF Made
<1>5. (\A x \in Nat : f[x] \in Int) /\ \A x : IntsTo(f, x)
  BY AddsType
<1>6. Done(j, i) = i /\ Done(j, i + 1) = i + 1
  BY DEF Done
<1>7. f[i] = IF <<t.m, t.c>> = key
             THEN Share(j, k, key[1] * j.arr_M + rc[1], key[2] * j.arr_N + rc[2]) ELSE 0
  BY <1>1 DEF Adds
<1>8. Gain(j, i, key, rc) = IF key = <<t.m, t.c>> THEN M[rc[1] + 1][rc[2]] ELSE 0
  BY DEF Gain
<1> HIDE DEF t, p, f, M, m, c, k
<1>9. Gain(j, i, key, rc) = f[i]
  <2>1. CASE key = <<t.m, t.c>>
    <3>1. t.m = m /\ t.c = c /\ n = Height(j, m)
      BY <1>2, <1>3, TileIs
    <3>2. key[1] = m /\ key[2] = c
      BY <2>1, <3>1
    <3>3. rc[1] \in Upto(Height(j, m)) /\ rc[2] \in Upto(Width(j, c))
      BY <3>2 DEF BlockCells
    <3>4. rc[1] + 1 \in 1 .. n /\ (rc[1] + 1) - 1 = rc[1]
      BY <1>1, <3>1, <3>3 DEF Upto
    <3>5. p[rc[1] + 1] = Row(t, rc[1])
      <4> HIDE DEF n
      <4> QED BY <1>1, <3>4
    <3>6. M[rc[1] + 1] = one_row(Row(t, rc[1]).A, Row(t, rc[1]).B)
      <4> HIDE DEF n
      <4> QED BY <1>4, <3>4, <3>5 DEF ComputeOf, Gpu
    <3>7. one_row(Row(t, rc[1]).A, Row(t, rc[1]).B)[rc[2]] = Share(j, k, m * j.arr_M + rc[1], c * j.arr_N + rc[2])
      BY <1>2, <1>3, <3>3, RowMade
    <3> QED BY <1>7, <1>8, <2>1, <3>2, <3>6, <3>7
  <2>2. CASE key # <<t.m, t.c>>
    BY <1>7, <1>8, <2>2
  <2> QED BY <2>1, <2>2
<1>10. Sigma(f, i + 1) = Sigma(f, i) + f[i]
  BY <1>1, <1>5, SigmaNext
<1> QED BY <1>6, <1>9, <1>10 DEF f

LEMMA GainIs ==
  ASSUME NEW j, JobFits(j), NEW i \in Upto(Pieces(j)), NEW key \in Keys(j), NEW rc \in BlockCells(j, key)
  PROVE  Sigma(Adds(j, key, rc), Done(j, i + 1)) = Sigma(Adds(j, key, rc), Done(j, i)) + Gain(j, i, key, rc)
BY GpuGain, CpuGain

(* The parts of what is made of a piece, put together. *)
LEMMA PieceMade ==
  ASSUME NEW j, JobFits(j), NEW i \in Upto(Pieces(j)), NEW seqs,
         seqs = [e \in Engine |-> [x \in DOMAIN Part(PieceOf(j, i), e) |-> ComputeOf(j, Part(PieceOf(j, i), e)[x])]]
  PROVE  FlattenSeq(seqs) = Made(j, i)
<1> DEFINE p == PieceOf(j, i)
           v == Made(j, i)
<1>1. p \in Seq(Range(p)) /\ Len(p) \in Nat
  <2>1. p \in Seq(Range(p))
    BY GpuPiece, CpuPiece
  <2> HIDE DEF p
  <2> QED BY <2>1, LenProperties
<1>2. v = [x \in 1 .. Len(p) |-> ComputeOf(j, p[x])]
  BY DEF Made
<1> HIDE DEF p, v
<1>3. v \in Seq(Range(v)) /\ Len(v) = Len(p) /\ DOMAIN v = 1 .. Len(p)
  <2>1. v = [x \in 1 .. Len(p) |-> v[x]]
    BY <1>2
  <2> QED BY <1>1, <2>1, IndexedSeq
<1>4. ASSUME NEW e \in Engine
      PROVE  [x \in DOMAIN Part(p, e) |-> ComputeOf(j, Part(p, e)[x])] = Part(v, e)
  <2>1. /\ DOMAIN Part(p, e) = DOMAIN Part(v, e)
        /\ \A x \in DOMAIN Part(p, e) :
             \E y \in 1 .. Len(p) : Part(p, e)[x] = p[y] /\ Part(v, e)[x] = v[y]
        /\ Part(v, e) = [x \in DOMAIN Part(v, e) |-> Part(v, e)[x]]
    BY <1>1, <1>3, PartOfMade
  <2>2. \A x \in DOMAIN Part(p, e) : Part(v, e)[x] = ComputeOf(j, Part(p, e)[x])
    BY <1>2, <2>1
  <2> QED BY <2>1, <2>2
<1>5. seqs = [e \in Engine |-> Part(v, e)]
  BY <1>4 DEF p
<1> QED BY <1>3, <1>5, Gathered DEF v
-----------------------------------------------------------------------------
(* The requests and answers of a run. *)

Work == {"push", "pull", "task"}
Blocking == {"push", "pull"}

(* The blocking call that is under way. *)
Open(pc) == IF pc = "scattered" THEN {"push"} ELSE IF pc = "pulled" THEN {"pull"} ELSE {}

MadeOf(j, items) == [x \in DOMAIN items |-> ComputeOf(j, items[x])]

(* A request x to engine e, in a run of job j that is at pc with piece d. *)
RequestFits(x, e, j, pc, d) ==
  /\ x.id[1] = x.what
  /\ pc = "off" => x.what \notin Work
  /\ x.what \in Blocking => x.what \in Open(pc) /\ x.id = <<x.what, d>> /\ x.buf = buf(d)
  /\ x.what = "push" => x.items = Part(PieceOf(j, d), e)
  /\ x.what = "task" => x.items = Part(PieceOf(j, x.id[2]), e)

(* An answer x, with held in the buffers of its engine. *)
AnswerFits(x, j, pc, d, held) ==
  /\ pc = "off" => x.id[1] \notin Work
  /\ x.id[1] \in Blocking => x.id[1] \in Open(pc) /\ x.id = <<x.id[1], d>>
  /\ x.ok /\ x.id[1] = "push" => held[buf(d)] = Part(PieceOf(j, d), x.engine)
  /\ x.ok /\ x.id[1] = "pull" => x.value = Part(PieceOf(j, d), x.engine)
  /\ x.ok /\ x.id[1] = "task" => x.value = MadeOf(j, Part(PieceOf(j, x.id[2]), x.engine))

(* A blocking call is with the engine or answered, not both, and only once. *)
OnlyOnce(q) == \A m, n \in 1 .. Len(q) : q[m].what \in Blocking /\ q[n].what \in Blocking => m = n
Unasked(q) == \A n \in 1 .. Len(q) : q[n].what \notin Blocking

RequestsFit ==
  \A e \in Engine :
    /\ \A n \in 1 .. Len(queue[e]) : RequestFits(queue[e][n], e, job, run.pc, run.d)
    /\ OnlyOnce(queue[e])

AnswersFit ==
  \A x \in answers :
    /\ AnswerFits(x, job, run.pc, run.d, buffers[x.engine])
    /\ x.id[1] \in Blocking => Unasked(queue[x.engine])

(* What was pushed is there to be pulled. *)
BuffersFit ==
  run.pc = "pulled" => \A e \in Engine : buffers[e][buf(run.d)] = Part(PieceOf(job, run.d), e)

(* Pieces are dispatched in order, and taken in order after that. *)
PlanFits ==
  /\ run.pc \in {"scatter", "scattered", "pulled"} =>
       run.i \in Nat /\ run.d \in Upto(Pieces(job)) /\ run.i <= run.d
  /\ run.pc = "get" => run.i \in Nat /\ run.d \in Nat /\ run.i < run.d /\ run.d <= Pieces(job)
  /\ run.pc = "returned" => run.i = Pieces(job)

(* So far the blocks hold what the pieces taken so far add. *)
BlocksAt(j, i) ==
  [key \in Keys(j) |-> [rc \in BlockCells(j, key) |-> Sigma(Adds(j, key, rc), Done(j, i))]]

BlocksFit == run.pc # "off" => run.C_blocks = BlocksAt(job, run.i)

RunFits == RequestsFit /\ AnswersFit /\ BuffersFit /\ PlanFits /\ BlocksFit

Early == {"clear", "configure", "start", "view", "install", "installing", "egl", "eglWait", "begin"}
RunPcs == {"off", "scatter", "scattered", "pulled", "get", "returned", "raised"}

JobOK ==
  /\ job.kind \in Kinds
  /\ cell.pc # "ended" => cell.size \in 1 .. Len(CellJobs[job.kind]) /\ job = CellJobs[job.kind][cell.size]

ShapesOK ==
  /\ run = [pc |-> run.pc, d |-> run.d, i |-> run.i, C_blocks |-> run.C_blocks]
  /\ run.pc \in RunPcs
  /\ buffers = [e \in Engine |-> [b \in {0, 1} |-> buffers[e][b]]]
  /\ IsSeq(results)
  /\ cell.pc \in Early => run.pc = "off"

RunInv == JobOK /\ ShapesOK /\ (run.pc # "raised" => RunFits) /\ ProductComplete
-----------------------------------------------------------------------------
(* Queues and answers. *)

LEMMA Appended ==
  ASSUME NEW q, IsSeq(q), NEW x
  PROVE  /\ Len(q) \in Nat /\ Len(Append(q, x)) = Len(q) + 1
         /\ \A n \in 1 .. Len(Append(q, x)) :
              (n \in 1 .. Len(q) /\ Append(q, x)[n] = q[n]) \/ (n = Len(q) + 1 /\ Append(q, x)[n] = x)
<1>1. PICK T : q \in Seq(T)
  BY DEF IsSeq
<1>2. q \in Seq(T \cup {x}) /\ x \in T \cup {x}
  BY <1>1, SeqMonotonic
<1>3. /\ Len(q) \in Nat /\ Len(Append(q, x)) = Len(q) + 1
      /\ \A n \in 1 .. Len(q) : Append(q, x)[n] = q[n]
      /\ Append(q, x)[Len(q) + 1] = x
  BY <1>2, AppendProperties
<1> QED BY SMT, <1>3

LEMMA Shortened ==
  ASSUME NEW q, IsSeq(q), q # << >>
  PROVE  /\ Len(q) \in Nat /\ 1 \in 1 .. Len(q) /\ Head(q) = q[1]
         /\ \A n \in 1 .. Len(Tail(q)) : n + 1 \in 1 .. Len(q) /\ n + 1 # 1 /\ Tail(q)[n] = q[n + 1]
         /\ Len(Tail(q)) \in Nat
<1>1. PICK T : q \in Seq(T)
  BY DEF IsSeq
<1> QED BY SMT, <1>1

(* The head of a queue is taken off. *)
LEMMA ServedFits ==
  ASSUME CInv, RequestsFit, NEW e \in Engine, queue[e] # << >>, Served(e), UNCHANGED <<job, run>>
  PROVE  /\ RequestsFit'
         /\ RequestFits(Request(e), e, job, run.pc, run.d)
         /\ Request(e).what \in Blocking => Unasked(queue'[e])
         /\ \A f \in Engine : Unasked(queue[f]) => Unasked(queue'[f])
         /\ Unasked(queue[e]) => Request(e).what \notin Blocking
<1> DEFINE q == queue[e]
<1>1. queue' = [queue EXCEPT ![e] = Tail(q)] /\ queue = [f \in Engine |-> queue[f]]
  BY DEF Served, CInv, TypesOK
<1>2. queue'[e] = Tail(q) /\ \A f \in Engine : f # e => queue'[f] = queue[f]
  BY <1>1
<1>3. IsSeq(q)
  BY OneEngine DEF EngineOK
<1>4. /\ Len(q) \in Nat /\ 1 \in 1 .. Len(q) /\ Head(q) = q[1]
      /\ \A n \in 1 .. Len(Tail(q)) : n + 1 \in 1 .. Len(q) /\ n + 1 # 1 /\ Tail(q)[n] = q[n + 1]
      /\ Len(Tail(q)) \in Nat
  BY <1>3, Shortened
<1>5. Request(e) = q[1]
  BY <1>4 DEF Request
<1>6. (\A n \in 1 .. Len(q) : RequestFits(q[n], e, job, run.pc, run.d)) /\ OnlyOnce(q)
  BY DEF RequestsFit
<1> HIDE DEF q
<1>7. \A n \in 1 .. Len(Tail(q)) : RequestFits(Tail(q)[n], e, job, run.pc, run.d)
  BY <1>4, <1>6
<1>8. OnlyOnce(Tail(q))
  <2> SUFFICES ASSUME NEW m \in 1 .. Len(Tail(q)), NEW n \in 1 .. Len(Tail(q)),
                      Tail(q)[m].what \in Blocking, Tail(q)[n].what \in Blocking
               PROVE  m = n
    BY DEF OnlyOnce
  <2>1. m + 1 \in 1 .. Len(q) /\ n + 1 \in 1 .. Len(q) /\ Tail(q)[m] = q[m + 1] /\ Tail(q)[n] = q[n + 1]
    BY <1>4
  <2>2. m + 1 = n + 1
    BY <1>6, <2>1 DEF OnlyOnce
  <2> QED BY <1>4, <2>2
<1>9. q[1].what \in Blocking => Unasked(Tail(q))
  BY <1>4, <1>6 DEF OnlyOnce, Unasked
<1>10. Unasked(q) => Unasked(Tail(q)) /\ q[1].what \notin Blocking
  BY <1>4 DEF Unasked
<1>11. RequestsFit'
  <2> SUFFICES ASSUME NEW f \in Engine
               PROVE  /\ \A n \in 1 .. Len(queue'[f]) : RequestFits(queue'[f][n], f, job, run.pc, run.d)
                      /\ OnlyOnce(queue'[f])
    BY DEF RequestsFit
  <2>1. CASE f = e
    BY <1>2, <1>7, <1>8, <2>1
  <2>2. CASE f # e
    BY <1>2, <2>2 DEF RequestsFit
  <2> QED BY <2>1, <2>2
<1>12. RequestFits(q[1], e, job, run.pc, run.d)
  BY <1>4, <1>6
<1>13. ASSUME NEW f \in Engine, Unasked(queue[f]) PROVE Unasked(queue'[f])
  BY <1>2, <1>10, <1>13 DEF q
<1>14. Unasked(queue[e]) => q[1].what \notin Blocking
  BY <1>10 DEF q
<1> QED BY <1>2, <1>5, <1>9, <1>11, <1>12, <1>13, <1>14

(* A request is sent to every engine. *)
LEMMA SentFits ==
  ASSUME CInv, RequestsFit, NEW req, queue' = [e \in Engine |-> Append(queue[e], req[e])], job' = job,
         \A e \in Engine : \A n \in 1 .. Len(queue[e]) : RequestFits(queue[e][n], e, job, run'.pc, run'.d),
         \A e \in Engine : RequestFits(req[e], e, job, run'.pc, run'.d),
         \A e \in Engine : req[e].what \in Blocking => Unasked(queue[e])
  PROVE  /\ RequestsFit'
         /\ \A e \in Engine : req[e].what \notin Blocking /\ Unasked(queue[e]) => Unasked(queue'[e])
<1>1. ASSUME NEW e \in Engine
      PROVE  /\ \A n \in 1 .. Len(queue'[e]) : RequestFits(queue'[e][n], e, job, run'.pc, run'.d)
             /\ OnlyOnce(queue'[e])
             /\ req[e].what \notin Blocking /\ Unasked(queue[e]) => Unasked(queue'[e])
  <2> DEFINE q == queue[e]
             x == req[e]
             s == Append(q, x)
  <2>1. queue'[e] = s /\ IsSeq(q)
    BY OneEngine DEF EngineOK
  <2>2. /\ \A n \in 1 .. Len(q) : RequestFits(q[n], e, job, run'.pc, run'.d)
        /\ RequestFits(x, e, job, run'.pc, run'.d)
        /\ x.what \in Blocking => Unasked(q)
        /\ OnlyOnce(q)
    BY DEF RequestsFit
  <2>3. /\ Len(q) \in Nat /\ Len(s) = Len(q) + 1
        /\ \A n \in 1 .. Len(s) : (n \in 1 .. Len(q) /\ s[n] = q[n]) \/ (n = Len(q) + 1 /\ s[n] = x)
    BY <2>1, Appended
  <2> HIDE DEF q, x, s
  <2>4. \A n \in 1 .. Len(s) : RequestFits(s[n], e, job, run'.pc, run'.d)
    BY <2>2, <2>3
  <2>5. OnlyOnce(s)
    <3> SUFFICES ASSUME NEW m \in 1 .. Len(s), NEW n \in 1 .. Len(s),
                        s[m].what \in Blocking, s[n].what \in Blocking
                 PROVE  m = n
      BY DEF OnlyOnce
    <3>1. CASE m \in 1 .. Len(q) /\ s[m] = q[m]
      <4>1. ~Unasked(q)
        BY <3>1 DEF Unasked
      <4>2. n \in 1 .. Len(q) /\ s[n] = q[n]
        BY <2>2, <2>3, <4>1
      <4> QED BY <2>2, <3>1, <4>2 DEF OnlyOnce
    <3>2. CASE m = Len(q) + 1 /\ s[m] = x
      <4>1. Unasked(q)
        BY <2>2, <3>2
      <4>2. n = Len(q) + 1
        BY <2>3, <4>1 DEF Unasked
      <4> QED BY <3>2, <4>2
    <3> QED BY <2>3, <3>1, <3>2
  <2>6. x.what \notin Blocking /\ Unasked(q) => Unasked(s)
    BY <2>3 DEF Unasked
  <2> QED BY <2>1, <2>4, <2>5, <2>6 DEF q, x
<1>2. RequestsFit'
  BY <1>1 DEF RequestsFit
<1> QED BY <1>1, <1>2
-----------------------------------------------------------------------------
(* Engines *)

LEMMA KeptInv ==
  ASSUME RunInv, UNCHANGED <<job, run, buffers, results>>,
         \/ UNCHANGED cell
         \/ cell.pc # "ended" /\ cell'.size = cell.size /\ (cell'.pc \in Early => cell.pc \in Early),
         run.pc # "raised" => RequestsFit' /\ AnswersFit'
  PROVE  RunInv'
<1>1. JobOK'
  BY DEF RunInv, JobOK
<1>2. ShapesOK'
  BY DEF RunInv, ShapesOK
<1>3. ProductComplete'
  BY DEF RunInv, ProductComplete
<1>4. run.pc # "raised" => (BuffersFit /\ PlanFits /\ BlocksFit)'
  BY DEF RunInv, RunFits, BuffersFit, PlanFits, BlocksFit
<1> QED BY <1>1, <1>2, <1>3, <1>4 DEF RunInv, RunFits

(* An engine answers the request at the head of its queue. *)
LEMMA AnsweredFits ==
  ASSUME CInv, RunFits, NEW e \in Engine, NEW ok, NEW value,
         Reply(e, ok, value), Served(e), queue[e] # << >>, UNCHANGED <<job, run>>,
         \A f \in Engine : f # e => buffers'[f] = buffers[f],
         Request(e).what # "push" => buffers'[e] = buffers[e],
         ok /\ Request(e).what = "push" => buffers'[e][Request(e).buf] = Request(e).items,
         ok /\ Request(e).what = "pull" => value = buffers[e][Request(e).buf],
         ok /\ Request(e).what = "task" => value = MadeOf(job, Request(e).items)
  PROVE  RequestsFit' /\ AnswersFit'
<1> DEFINE r == Request(e)
           x == [engine |-> e, id |-> r.id, ok |-> ok, value |-> value]
<1>1. RequestsFit /\ AnswersFit /\ BuffersFit
  BY DEF RunFits
<1>2. /\ RequestsFit'
      /\ RequestFits(r, e, job, run.pc, run.d)
      /\ r.what \in Blocking => Unasked(queue'[e])
      /\ \A f \in Engine : Unasked(queue[f]) => Unasked(queue'[f])
      /\ Unasked(queue[e]) => r.what \notin Blocking
  BY <1>1, ServedFits
<1>3. answers' = answers \cup {x}
  BY DEF Reply, Request
<1>4. x.engine = e /\ x.id = r.id /\ x.ok = ok /\ x.value = value
  OBVIOUS
<1> HIDE DEF x
<1>5. "push" \in Blocking /\ "pull" \in Blocking
  BY DEF Blocking
<1>6. AnswerFits(x, job, run.pc, run.d, buffers'[e])
  <2>1. r.id[1] = r.what /\ (run.pc = "off" => r.what \notin Work)
    BY <1>2 DEF RequestFits
  <2>2. r.what \in Blocking => r.what \in Open(run.pc) /\ r.id = <<r.what, run.d>> /\ r.buf = buf(run.d)
    BY <1>2 DEF RequestFits
  <2>3. ASSUME ok, r.what = "push" PROVE buffers'[e][buf(run.d)] = Part(PieceOf(job, run.d), e)
    BY <1>2, <1>5, <2>2, <2>3 DEF RequestFits
  <2>4. ASSUME ok, r.what = "pull" PROVE value = Part(PieceOf(job, run.d), e)
    <3>1. run.pc = "pulled" /\ r.buf = buf(run.d)
      BY <1>5, <2>2, <2>4 DEF Open
    <3> QED BY <1>1, <2>4, <3>1 DEF BuffersFit
  <2>5. ASSUME ok, r.what = "task" PROVE value = MadeOf(job, Part(PieceOf(job, r.id[2]), e))
    BY <1>2, <2>5 DEF RequestFits
  <2> QED BY <1>4, <2>1, <2>2, <2>3, <2>4, <2>5 DEF AnswerFits
<1>7. x.id[1] \in Blocking => Unasked(queue'[e])
  BY <1>2, <1>4 DEF RequestFits
<1>8. ASSUME NEW y \in answers
      PROVE  /\ AnswerFits(y, job, run.pc, run.d, buffers'[y.engine])
             /\ y.id[1] \in Blocking => Unasked(queue'[y.engine])
  <2>1. /\ y.engine \in Engine
        /\ AnswerFits(y, job, run.pc, run.d, buffers[y.engine])
        /\ y.id[1] \in Blocking => Unasked(queue[y.engine])
    BY <1>1 DEF CInv, AnswersOK, AnswersFit
  <2>2. y.id[1] = "push" => buffers'[y.engine] = buffers[y.engine]
    BY <1>2, <1>5, <2>1
  <2> QED BY <1>2, <2>1, <2>2 DEF AnswerFits
<1>9. AnswersFit'
  BY <1>3, <1>4, <1>6, <1>7, <1>8 DEF AnswersFit
<1> QED BY <1>2, <1>9

(* The same, where the engine keeps its buffers. *)
LEMMA ReplyFits ==
  ASSUME CInv, RunInv, NEW e \in Engine, NEW ok, NEW value,
         Reply(e, ok, value), Served(e), queue[e] # << >>,
         UNCHANGED <<job, run, buffers, cell, results>>,
         ok => Request(e).what # "push",
         ok /\ Request(e).what = "pull" => value = buffers[e][Request(e).buf],
         ok /\ Request(e).what = "task" => value = MadeOf(job, Request(e).items)
  PROVE  RunInv'
<1>1. run.pc # "raised" => RunFits
  BY DEF RunInv
<1>2. run.pc # "raised" => RequestsFit' /\ AnswersFit'
  BY <1>1, AnsweredFits
<1> QED BY <1>2, KeptInv

LEMMA Pushing ==
  ASSUME CInv, RunInv, NEW e \in Engine, ServePush(e), UNCHANGED <<cell, results>>
  PROVE  RunInv'
<1> DEFINE r == Request(e)
<1>1. /\ r.what = "push" /\ queue[e] # << >> /\ Reply(e, TRUE, << >>) /\ Served(e)
      /\ buffers' = [buffers EXCEPT ![e][r.buf] = r.items] /\ UNCHANGED <<job, run>>
  BY DEF ServePush, HasRequest, Answer
<1>2. buffers = [f \in Engine |-> [b \in {0, 1} |-> buffers[f][b]]]
  BY DEF RunInv, ShapesOK
<1>3. /\ buffers' = [f \in Engine |-> [b \in {0, 1} |-> buffers'[f][b]]]
      /\ \A f \in Engine : f # e => buffers'[f] = buffers[f]
      /\ r.buf \in {0, 1} => buffers'[e][r.buf] = r.items
  <2> DEFINE old == buffers[e]
             new == [old EXCEPT ![r.buf] = r.items]
  <2>1. buffers' = [buffers EXCEPT ![e] = new]
    BY <1>1
  <2>2. old = [b \in {0, 1} |-> old[b]]
    BY <1>2
  <2>3. new = [b \in {0, 1} |-> new[b]] /\ (r.buf \in {0, 1} => new[r.buf] = r.items)
    BY <2>2
  <2> HIDE DEF new, old
  <2>4. buffers' = [f \in Engine |-> IF f = e THEN new ELSE buffers[f]]
    BY <1>2, <2>1
  <2>5. ASSUME NEW f \in Engine PROVE buffers'[f] = [b \in {0, 1} |-> buffers'[f][b]]
    BY <1>2, <2>3, <2>4
  <2>6. buffers' = [f \in Engine |-> buffers'[f]]
    BY <2>4
  <2>7. buffers' = [f \in Engine |-> [b \in {0, 1} |-> buffers'[f][b]]]
    BY <2>5, <2>6, Zenon
  <2> QED BY <2>3, <2>4, <2>7
<1>4. JobOK' /\ ShapesOK' /\ ProductComplete'
  BY <1>1, <1>3 DEF RunInv, JobOK, ShapesOK, ProductComplete
<1>5. CASE run.pc # "raised"
  <2>1. RunFits
    BY <1>5 DEF RunInv
  <2>2. RequestFits(r, e, job, run.pc, run.d)
    BY <1>1, <2>1, ServedFits DEF RunFits
  <2>3. run.pc = "scattered" /\ r.buf = buf(run.d) /\ run.d \in Int
    BY <1>1, <2>1, <2>2 DEF RequestFits, Blocking, Open, RunFits, PlanFits, Upto
  <2>4. r.buf \in {0, 1}
    BY SMT, <2>3 DEF buf
  <2>5. RequestsFit' /\ AnswersFit'
    BY <1>1, <1>3, <2>1, <2>4, AnsweredFits
  <2>6. (BuffersFit /\ PlanFits /\ BlocksFit)'
    BY <1>1, <2>1, <2>3 DEF RunFits, BuffersFit, PlanFits, BlocksFit
  <2> QED BY <1>4, <2>5, <2>6 DEF RunInv, RunFits
<1> QED BY <1>1, <1>4, <1>5 DEF RunInv

LEMMA ServingRun ==
  ASSUME CInv, RunInv, NEW e \in Engine, Serve(e)
  PROVE  RunInv'
<1> USE DEF Serve, HasRequest
<1>1. EngineStep(e) /\ UNCHANGED <<cell, results>>
  OBVIOUS
<1>2. CASE ServePush(e)
  BY <1>1, <1>2, Pushing
<1>3. CASE ServePull(e)
  BY <1>1, <1>3, ReplyFits DEF ServePull, Answer
<1>4. CASE ServeTask(e)
  <2>1. [x \in DOMAIN Request(e).items |-> Compute(Request(e).items[x])] = MadeOf(job, Request(e).items)
    BY OfJob DEF MadeOf
  <2> QED BY <1>1, <1>4, <2>1, ReplyFits DEF ServeTask, Answer
<1>5. CASE ServeFails(e)
  BY <1>1, <1>5, ReplyFits DEF ServeFails, Error
<1>6. CASE ServeInstall(e)
  BY <1>1, <1>6, ReplyFits DEF ServeInstall, Answer
<1>7. ASSUME UNCHANGED <<job, run, queue, buffers, answers, cell, results>> PROVE RunInv'
  <2>1. run.pc # "raised" => RequestsFit' /\ AnswersFit'
    BY <1>7 DEF RunInv, RunFits, RequestsFit, AnswersFit
  <2> QED BY <1>7, <2>1, KeptInv
<1>8. CASE ServeInit(e)
  <2>1. CASE egl[e].pc \in {"ready", "failed", "undone"}
    BY <1>1, <1>8, <2>1, ReplyFits DEF ServeInit
  <2>2. CASE egl[e].pc \notin {"ready", "failed", "undone"}
    BY <1>1, <1>7, <1>8, <2>2 DEF ServeInit
  <2> QED BY <2>1, <2>2
<1>9. CASE ServeTeardown(e)
  <2>1. CASE egl[e].pc \notin {"ready", "teardown"}
    BY <1>1, <1>9, <2>1, ReplyFits DEF ServeTeardown
  <2>2. CASE egl[e].pc \in {"ready", "teardown"}
    BY <1>1, <1>7, <1>9, <2>2 DEF ServeTeardown
  <2> QED BY <2>1, <2>2
<1> QED BY <1>1, <1>2, <1>3, <1>4, <1>5, <1>6, <1>8, <1>9 DEF EngineStep
-----------------------------------------------------------------------------
(* The cell around a run *)

LEMMA Unmoved ==
  ASSUME RunInv, UNCHANGED <<job, run, queue, buffers, answers, results>>,
         \/ UNCHANGED cell
         \/ cell.pc # "ended" /\ cell'.size = cell.size /\ (cell'.pc \in Early => cell.pc \in Early)
  PROVE  RunInv'
<1>1. run.pc # "raised" => RequestsFit' /\ AnswersFit'
  BY DEF RunInv, RunFits, RequestsFit, AnswersFit
<1> QED BY <1>1, KeptInv

LEMMA Goes ==
  ASSUME CInv, NEW pc, CellGoto(pc)
  PROVE  cell'.pc = pc /\ cell'.size = cell.size
BY DEF CInv, TypesOK, CellGoto

LEMMA GoesOn ==
  ASSUME CInv, RunInv, UNCHANGED <<pipeVars, results>>, cell.pc # "ended",
         NEW pc, CellGoto(pc), pc \in Early => cell.pc \in Early
  PROVE  RunInv'
BY Unmoved, Goes DEF pipeVars

LEMMA QuietRun ==
  ASSUME CInv, RunInv,
         \/ ClearFirst \/ Configure \/ StartAndConnect \/ View \/ Installed \/ InitEglDone
         \/ SkipTeardown \/ TeardownDone \/ RemoteLost \/ StopCluster \/ ReleaseCluster
  PROVE  RunInv'
<1>1. UNCHANGED <<pipeVars, results>>
  BY DEF ClearFirst, Configure, StartAndConnect, View, Installed, InitEglDone, SkipTeardown,
         TeardownDone, RemoteDone, RemoteLost, StopCluster, ReleaseCluster
<1>2. {"clear", "configure", "start", "view", "installing", "eglWait"} \subseteq Early
      /\ {"teardown", "shutdown", "release", "next", "aborted"} \cap Early = {}
  BY DEF Early
<1>3. AfterTry \in {"teardown", "shutdown"}
  BY DEF AfterTry
<1>4. cell \in Cells
  BY DEF CInv, TypesOK, Cells
<1>5. CASE ClearFirst
  BY <1>1, <1>2, <1>5, GoesOn DEF ClearFirst, MayRaise, CellAt
<1>6. CASE Configure
  BY <1>1, <1>2, <1>6, GoesOn DEF Configure, CellAt
<1>7. CASE StartAndConnect
  <2>1. cell.pc = "start"
    BY <1>7 DEF StartAndConnect, CellAt
  <2>2. CASE CellGoto(AfterTry)
    BY <1>1, <1>2, <2>1, <2>2, GoesOn
  <2>3. CASE cell' = [cell EXCEPT !.pc = "view", !.rc = TRUE]
    <3>1. cell'.size = cell.size
      BY <1>4, <2>3 DEF Cells
    <3> QED BY <1>1, <1>2, <2>1, <3>1, Unmoved DEF pipeVars
  <2> QED BY <1>7, <2>2, <2>3 DEF StartAndConnect
<1>8. CASE View
  <2>1. cell.pc = "view"
    BY <1>8 DEF View, CellAt
  <2>2. CASE CellGoto(AfterTry)
    BY <1>1, <1>2, <2>1, <2>2, GoesOn
  <2>3. CASE cell' = [cell EXCEPT !.pc = IF OnGpu THEN "install" ELSE "begin", !.dview = TRUE]
    <3>1. cell'.size = cell.size
      BY <1>4, <2>3 DEF Cells
    <3> QED BY <1>1, <1>2, <2>1, <3>1, Unmoved DEF pipeVars
  <2> QED BY <1>8, <2>2, <2>3 DEF View
<1>9. CASE Installed
  BY <1>1, <1>2, <1>9, GoesOn DEF Installed, RemoteDone, CellAt
<1>10. CASE InitEglDone
  BY <1>1, <1>2, <1>10, GoesOn DEF InitEglDone, RemoteDone, CellAt
<1>11. CASE SkipTeardown
  BY <1>1, <1>2, <1>11, GoesOn DEF SkipTeardown, CellAt
<1>12. CASE TeardownDone
  BY <1>1, <1>2, <1>12, GoesOn DEF TeardownDone, RemoteDone, CellAt
<1>13. CASE RemoteLost
  <2>1. cell.pc \in {"installing", "eglWait", "tearing"}
    BY <1>13 DEF RemoteLost
  <2>2. \/ cell' = [cell EXCEPT !.pc = AfterTry]
        \/ cell' = [cell EXCEPT !.pc = "shutdown", !.lost = TRUE]
    BY <1>13 DEF RemoteLost
  <2>3. cell'.size = cell.size /\ cell'.pc \in {"teardown", "shutdown"}
    BY <1>3, <1>4, <2>2 DEF Cells
  <2> QED BY <1>1, <1>2, <2>1, <2>3, Unmoved DEF pipeVars
<1>14. CASE StopCluster
  BY <1>1, <1>2, <1>14, GoesOn DEF StopCluster, MayRaise, CellAt
<1>15. CASE ReleaseCluster
  BY <1>1, <1>2, <1>15, GoesOn DEF ReleaseCluster, CellAt
<1> QED BY <1>5, <1>6, <1>7, <1>8, <1>9, <1>10, <1>11, <1>12, <1>13, <1>14, <1>15

LEMMA AskingRun ==
  ASSUME CInv, RunInv, Install \/ InitEgl \/ Teardown
  PROVE  RunInv'
<1>1. PICK pc, waiting, what :
        /\ Remote(pc, waiting, what)
        /\ \/ pc = "install" /\ waiting = "installing" /\ what = "install"
           \/ pc = "egl" /\ waiting = "eglWait" /\ what = "init"
           \/ pc = "teardown" /\ waiting = "tearing" /\ what = "teardown"
  BY DEF Install, InitEgl, Teardown
<1>2. cell.pc = pc /\ UNCHANGED <<job, run, buffers, answers, results>> /\ CellGoto(waiting)
  BY <1>1 DEF Remote, CellAt
<1>3. /\ cell.pc # "ended" /\ cell'.size = cell.size
      /\ cell'.pc \in Early => cell.pc \in Early
  BY <1>1, <1>2, Goes DEF Early
<1>4. ASSUME run.pc # "raised" PROVE RequestsFit' /\ AnswersFit'
  <2> DEFINE req == [e \in Engine |-> [what |-> what, id |-> <<what, 0>>]]
  <2>1. RequestsFit /\ AnswersFit
    BY <1>4 DEF RunInv, RunFits
  <2>2. queue' = [e \in Engine |-> Append(queue[e], req[e])]
    BY <1>1 DEF Remote, Send
  <2>3. \A e \in Engine : req[e].id[1] = req[e].what /\ req[e].what = what
    OBVIOUS
  <2> HIDE DEF req
  <2>4. what \notin Work /\ what \notin Blocking
    BY <1>1 DEF Work, Blocking
  <2>5. \A e \in Engine : RequestFits(req[e], e, job, run'.pc, run'.d)
    BY <2>3, <2>4 DEF RequestFits, Work
  <2>6. \A e \in Engine : \A n \in 1 .. Len(queue[e]) : RequestFits(queue[e][n], e, job, run'.pc, run'.d)
    BY <1>2, <2>1 DEF RequestsFit
  <2>7. RequestsFit' /\ \A e \in Engine : Unasked(queue[e]) => Unasked(queue'[e])
    BY <1>2, <2>1, <2>2, <2>3, <2>4, <2>5, <2>6, SentFits
  <2>8. AnswersFit'
    BY <1>2, <2>1, <2>7 DEF AnswersFit, CInv, AnswersOK
  <2> QED BY <2>7, <2>8
<1> QED BY <1>2, <1>3, <1>4, KeptInv

LEMMA ShuttingRun ==
  ASSUME CInv, RunInv, Shutdown
  PROVE  RunInv'
<1>1. cell.pc = "shutdown" /\ UNCHANGED results
  BY DEF Shutdown, CellAt
<1>2. "release" \notin Early /\ "aborted" \notin Early /\ "stop" \notin Early
  BY DEF Early
<1>3. CASE ~cell.rc /\ CellGoto("release") /\ UNCHANGED <<pipeVars, cluster>>
  BY <1>1, <1>2, <1>3, GoesOn
<1>4. CASE CellGoto("aborted") /\ UNCHANGED <<pipeVars, cluster>>
  BY <1>1, <1>2, <1>4, GoesOn
<1>5. CASE CellGoto("stop") /\ queue' = [e \in Engine |-> << >>] /\ UNCHANGED <<job, run, buffers, answers>>
  <2>1. \A e \in Engine : queue'[e] = << >> /\ 1 .. Len(queue'[e]) = {}
    BY <1>5, SMT
  <2>2. RequestsFit' /\ \A e \in Engine : Unasked(queue'[e])
    BY <2>1 DEF RequestsFit, OnlyOnce, Unasked
  <2>3. run.pc # "raised" => AnswersFit'
    BY <1>5, <2>2 DEF RunInv, RunFits, AnswersFit, CInv, AnswersOK
  <2>4. cell'.pc = "stop" /\ cell'.size = cell.size
    BY <1>5, Goes
  <2> QED BY <1>1, <1>2, <1>5, <2>2, <2>3, <2>4, KeptInv
<1> QED BY <1>3, <1>4, <1>5 DEF Shutdown
-----------------------------------------------------------------------------
(* The run, dispatching *)

LEMMA TheJob ==
  ASSUME JobOK, cell.pc # "ended"
  PROVE  JobFits(job)
BY CellJobsAssumption DEF JobOK, JobFits, Kinds

Underway == {"scatter", "scattered", "pulled", "get"}

LEMMA RunMoves ==
  ASSUME CInv, RunInv, run.pc \in Underway, UNCHANGED <<job, buffers, cell, results>>,
         run' = [pc |-> run'.pc, d |-> run'.d, i |-> run'.i, C_blocks |-> run'.C_blocks],
         run'.pc \in RunPcs
  PROVE  /\ JobOK' /\ ShapesOK' /\ ProductComplete'
         /\ JobFits(job) /\ RunFits /\ cell.pc = "run"
<1>1. cell.pc = "run"
  BY DEF CInv, CellOK, Underway
<1>2. JobFits(job) /\ RunFits
  BY <1>1, TheJob DEF RunInv, Underway
<1>3. JobOK' /\ ProductComplete'
  BY DEF RunInv, JobOK, ProductComplete
<1>4. ShapesOK'
  BY <1>1 DEF RunInv, ShapesOK, Early
<1> QED BY <1>1, <1>2, <1>3, <1>4

LEMMA PcMoves ==
  ASSUME RunInv, NEW pc, run' = [run EXCEPT !.pc = pc]
  PROVE  /\ run' = [pc |-> run'.pc, d |-> run'.d, i |-> run'.i, C_blocks |-> run'.C_blocks]
         /\ run'.pc = pc /\ run'.d = run.d /\ run'.i = run.i /\ run'.C_blocks = run.C_blocks
<1>1. run = [pc |-> run.pc, d |-> run.d, i |-> run.i, C_blocks |-> run.C_blocks]
  BY DEF RunInv, ShapesOK
<1> QED BY <1>1

(* Every engine has answered: what its answer says. *)
LEMMA AllFit ==
  ASSUME RunFits, NEW id, Answered(id), ~Failed(id), NEW e \in Engine
  PROVE  \E x \in answers :
           /\ x.engine = e /\ x.id = id /\ x.ok
           /\ AnswerFits(x, job, run.pc, run.d, buffers[e])
           /\ id[1] \in Blocking => Unasked(queue[e])
           /\ ValueOf(id, e) = x.value
<1> DEFINE x == CHOOSE x \in To(id) : x.engine = e
<1>1. \E y \in To(id) : y.engine = e
  BY DEF Answered
<1>2. x \in To(id) /\ x.engine = e
  BY <1>1
<1>3. x \in answers /\ x.id = id /\ x.ok
  BY <1>2 DEF To, Failed
<1> QED BY <1>2, <1>3 DEF RunFits, AnswersFit, ValueOf

(* Where no blocking call is with an engine, the requests fit any pc. *)
LEMMA FitAnywhere ==
  ASSUME RunFits, run.pc # "off", NEW e \in Engine, Unasked(queue[e]), NEW pc, pc # "off", NEW d
  PROVE  \A n \in 1 .. Len(queue[e]) : RequestFits(queue[e][n], e, job, pc, d)
<1>1. "push" \in Blocking
  BY DEF Blocking
<1> QED BY <1>1 DEF RunFits, RequestsFit, RequestFits, Unasked

LEMMA AnswerAnywhere ==
  ASSUME RunFits, run.pc # "off", NEW x \in answers, x.id[1] \notin Blocking, NEW pc, pc # "off", NEW d, NEW held
  PROVE  AnswerFits(x, job, pc, d, held)
<1>1. "push" \in Blocking /\ "pull" \in Blocking
  BY DEF Blocking
<1> QED BY <1>1 DEF RunFits, AnswersFit, AnswerFits

(* A request goes to every engine, none having a blocking call. *)
LEMMA Dispatched ==
  ASSUME CInv, RunFits, run.pc # "off", UNCHANGED job, run'.pc # "off",
         \A e \in Engine : Unasked(queue[e]),
         NEW req, queue' = [e \in Engine |-> Append(queue[e], req[e])],
         \A e \in Engine : RequestFits(req[e], e, job, run'.pc, run'.d),
         answers' \subseteq answers, \A x \in answers' : x.id[1] \notin Blocking
  PROVE  RequestsFit' /\ AnswersFit'
<1>1. \A e \in Engine : \A n \in 1 .. Len(queue[e]) : RequestFits(queue[e][n], e, job, run'.pc, run'.d)
  BY FitAnywhere
<1>2. RequestsFit'
  BY <1>1, SentFits DEF RunFits
<1>3. AnswersFit'
  BY AnswerAnywhere DEF AnswersFit
<1> QED BY <1>2, <1>3

LEMMA ScatterRun ==
  ASSUME CInv, RunInv, Scatter, UNCHANGED <<cell, results>>
  PROVE  RunInv'
<1>1. /\ run.pc = "scatter" /\ UNCHANGED <<job, buffers, answers>> /\ run' = [run EXCEPT !.pc = "scattered"]
      /\ queue' = [e \in Engine |-> Append(queue[e],
                     [what |-> "push", id |-> <<"push", run.d>>, buf |-> buf(run.d),
                      items |-> Part(PieceOf(job, run.d), e)])]
  BY OfJob DEF Scatter, RunAt, Send
<1>2. /\ run' = [pc |-> run'.pc, d |-> run'.d, i |-> run'.i, C_blocks |-> run'.C_blocks]
      /\ run'.pc = "scattered" /\ run'.d = run.d /\ run'.i = run.i /\ run'.C_blocks = run.C_blocks
  BY <1>1, PcMoves
<1>3. JobOK' /\ ShapesOK' /\ ProductComplete' /\ RunFits
  BY <1>1, <1>2, RunMoves DEF Underway, RunPcs
<1>4. \A e \in Engine : Unasked(queue[e])
  BY <1>1, <1>3 DEF RunFits, RequestsFit, RequestFits, Unasked, Open
<1>5. \A x \in answers : x.id[1] \notin Blocking
  BY <1>1, <1>3 DEF RunFits, AnswersFit, AnswerFits, Open
<1>6. RequestsFit' /\ AnswersFit'
  <2> DEFINE req == [e \in Engine |-> [what |-> "push", id |-> <<"push", run.d>>, buf |-> buf(run.d),
                                       items |-> Part(PieceOf(job, run.d), e)]]
  <2>1. queue' = [e \in Engine |-> Append(queue[e], req[e])]
    BY <1>1
  <2>2. \A e \in Engine : RequestFits(req[e], e, job, run'.pc, run'.d)
    BY <1>2 DEF RequestFits, Open, Work, Blocking
  <2> HIDE DEF req
  <2> QED BY <1>1, <1>2, <1>3, <1>4, <1>5, <2>1, <2>2, Dispatched
<1>7. (BuffersFit /\ PlanFits /\ BlocksFit)'
  BY <1>1, <1>2, <1>3 DEF RunFits, BuffersFit, PlanFits, BlocksFit
<1> QED BY <1>3, <1>6, <1>7 DEF RunInv, RunFits

LEMMA ScatteredRun ==
  ASSUME CInv, RunInv, Scattered, UNCHANGED <<cell, results>>
  PROVE  RunInv'
<1> DEFINE id == <<"push", run.d>>
<1>1. /\ run.pc = "scattered" /\ UNCHANGED <<job, buffers>> /\ run' = [run EXCEPT !.pc = "pulled"]
      /\ Answered(id) /\ ~Failed(id) /\ answers' = answers \ To(id)
      /\ queue' = [e \in Engine |-> Append(queue[e],
                     [what |-> "pull", id |-> <<"pull", run.d>>, buf |-> buf(run.d)])]
  BY DEF Scattered, RunAt, Send
<1>2. /\ run' = [pc |-> run'.pc, d |-> run'.d, i |-> run'.i, C_blocks |-> run'.C_blocks]
      /\ run'.pc = "pulled" /\ run'.d = run.d /\ run'.i = run.i /\ run'.C_blocks = run.C_blocks
  BY <1>1, PcMoves
<1>3. JobOK' /\ ShapesOK' /\ ProductComplete' /\ RunFits
  BY <1>1, <1>2, RunMoves DEF Underway, RunPcs
<1>4. id[1] = "push" /\ "push" \in Blocking
  BY DEF Blocking
<1>5. ASSUME NEW e \in Engine PROVE Unasked(queue[e]) /\ buffers[e][buf(run.d)] = Part(PieceOf(job, run.d), e)
  <2>1. PICK x \in answers :
          /\ x.engine = e /\ x.id = id /\ x.ok
          /\ AnswerFits(x, job, run.pc, run.d, buffers[e])
          /\ id[1] \in Blocking => Unasked(queue[e])
          /\ ValueOf(id, e) = x.value
    BY <1>1, <1>3, AllFit
  <2> QED BY <1>4, <2>1 DEF AnswerFits
<1>6. \A y \in answers' : y.id[1] \notin Blocking
  BY <1>1, <1>3 DEF RunFits, AnswersFit, AnswerFits, Open, To
<1>7. RequestsFit' /\ AnswersFit'
  <2> DEFINE req == [e \in Engine |-> [what |-> "pull", id |-> <<"pull", run.d>>, buf |-> buf(run.d)]]
  <2>1. queue' = [e \in Engine |-> Append(queue[e], req[e])]
    BY <1>1
  <2>2. \A e \in Engine : RequestFits(req[e], e, job, run'.pc, run'.d)
    BY <1>2 DEF RequestFits, Open, Work, Blocking
  <2>3. answers' \subseteq answers
    BY <1>1
  <2> HIDE DEF req
  <2> QED BY <1>1, <1>2, <1>3, <1>5, <1>6, <2>1, <2>2, <2>3, Dispatched
<1>8. (BuffersFit /\ PlanFits /\ BlocksFit)'
  BY <1>1, <1>2, <1>3, <1>5 DEF RunFits, BuffersFit, PlanFits, BlocksFit
<1> QED BY <1>3, <1>7, <1>8 DEF RunInv, RunFits

LEMMA MapRun ==
  ASSUME CInv, RunInv, MapAsync, UNCHANGED <<cell, results>>
  PROVE  RunInv'
<1> DEFINE id == <<"pull", run.d>>
           to == IF run.d = 0 /\ Pieces(job) > 1 THEN "scatter" ELSE "get"
<1>1. /\ run.pc = "pulled" /\ UNCHANGED <<job, buffers>> /\ run' = [run EXCEPT !.pc = to, !.d = @ + 1]
      /\ Answered(id) /\ ~Failed(id) /\ answers' = answers \ To(id)
      /\ queue' = [e \in Engine |-> Append(queue[e],
                     [what |-> "task", id |-> <<"task", run.d>>, items |-> ValueOf(id, e)])]
  BY OfJob DEF MapAsync, RunAt, Send
<1>2. /\ run' = [pc |-> run'.pc, d |-> run'.d, i |-> run'.i, C_blocks |-> run'.C_blocks]
      /\ run'.pc = to /\ run'.d = run.d + 1 /\ run'.i = run.i /\ run'.C_blocks = run.C_blocks
  <2>1. run = [pc |-> run.pc, d |-> run.d, i |-> run.i, C_blocks |-> run.C_blocks]
    BY DEF RunInv, ShapesOK
  <2> QED BY <1>1, <2>1
<1>3. JobOK' /\ ShapesOK' /\ ProductComplete' /\ RunFits /\ JobFits(job)
  BY <1>1, <1>2, RunMoves DEF Underway, RunPcs
<1>4. id[1] = "pull" /\ "pull" \in Blocking
  BY DEF Blocking
<1>5. ASSUME NEW e \in Engine PROVE Unasked(queue[e]) /\ ValueOf(id, e) = Part(PieceOf(job, run.d), e)
  <2>1. PICK x \in answers :
          /\ x.engine = e /\ x.id = id /\ x.ok
          /\ AnswerFits(x, job, run.pc, run.d, buffers[e])
          /\ id[1] \in Blocking => Unasked(queue[e])
          /\ ValueOf(id, e) = x.value
    BY <1>1, <1>3, AllFit
  <2> QED BY <1>4, <2>1 DEF AnswerFits
<1>6. \A y \in answers' : y.id[1] \notin Blocking
  BY <1>1, <1>3 DEF RunFits, AnswersFit, AnswerFits, Open, To
<1>7. RequestsFit' /\ AnswersFit'
  <2> DEFINE req == [e \in Engine |-> [what |-> "task", id |-> <<"task", run.d>>, items |-> ValueOf(id, e)]]
  <2>1. queue' = [e \in Engine |-> Append(queue[e], req[e])]
    BY <1>1
  <2>2. \A e \in Engine : RequestFits(req[e], e, job, run'.pc, run'.d)
    BY <1>2, <1>5 DEF RequestFits, Blocking
  <2>3. answers' \subseteq answers /\ run'.pc # "off"
    BY <1>1, <1>2
  <2> HIDE DEF req
  <2> QED BY <1>1, <1>3, <1>5, <1>6, <2>1, <2>2, <2>3, Dispatched
<1>8. PlanFits'
  <2>1. run.i \in Nat /\ run.d \in Upto(Pieces(job)) /\ run.i <= run.d
    BY <1>1, <1>3 DEF RunFits, PlanFits
  <2>2. Pieces(job) \in Nat \ {0}
    BY <1>3, DoneEnds
  <2>3. run.d + 1 \in Nat /\ run.i < run.d + 1 /\ run.d + 1 <= Pieces(job)
    BY <2>1, <2>2, SMT DEF Upto
  <2>4. to = "scatter" => run.d + 1 \in Upto(Pieces(job)) /\ run.i <= run.d + 1
    BY <2>1, <2>2, SMT DEF Upto
  <2> QED BY <1>1, <1>2, <2>1, <2>3, <2>4 DEF PlanFits
<1>9. (BuffersFit /\ BlocksFit)'
  BY <1>1, <1>2, <1>3 DEF RunFits, BuffersFit, BlocksFit
<1> QED BY <1>3, <1>7, <1>8, <1>9 DEF RunInv, RunFits
-----------------------------------------------------------------------------
(* The run, collecting *)

LEMMA CollectedPiece ==
  ASSUME RunFits, JobFits(job), run.i \in Upto(Pieces(job)),
         Answered(<<"task", run.i>>), ~Failed(<<"task", run.i>>)
  PROVE  all_results = Made(job, run.i)
<1> DEFINE id == <<"task", run.i>>
           seqs == [e \in Engine |-> ValueOf(id, e)]
<1>1. ASSUME NEW e \in Engine PROVE ValueOf(id, e) = MadeOf(job, Part(PieceOf(job, run.i), e))
  <2>1. PICK x \in answers :
          /\ x.engine = e /\ x.id = id /\ x.ok
          /\ AnswerFits(x, job, run.pc, run.d, buffers[e])
          /\ id[1] \in Blocking => Unasked(queue[e])
          /\ ValueOf(id, e) = x.value
    BY AllFit
  <2>2. x.id[1] = "task" /\ x.id[2] = run.i
    BY <2>1
  <2> QED BY <2>1, <2>2 DEF AnswerFits
<1>2. seqs = [e \in Engine |-> [x \in DOMAIN Part(PieceOf(job, run.i), e)
                                  |-> ComputeOf(job, Part(PieceOf(job, run.i), e)[x])]]
  BY <1>1 DEF MadeOf
<1>3. FlattenSeq(seqs) = Made(job, run.i)
  <2> HIDE DEF seqs
  <2> QED BY <1>2, PieceMade
<1> QED BY <1>3 DEF all_results

LEMMA ContributionIs ==
  ASSUME JobFits(job), run.C_blocks = BlocksAt(job, run.i), all_results = Made(job, run.i),
         NEW key \in Keys(job), NEW rc \in BlockCells(job, key)
  PROVE  Contribution(key)[rc] = Gain(job, run.i, key, rc)
<1>1. DOMAIN run.C_blocks[key] = BlockCells(job, key)
  BY DEF BlocksAt
<1>2. \A i : tile(i) = TileNo(job, i) /\ Piece(i) = PieceOf(job, i)
  BY OfJob
<1>3. CASE Gpu(job)
  <2>1. OnGpu
    BY <1>3 DEF OnGpu, Gpu
  <2>2. batch(run.i) = PieceOf(job, run.i)
    BY <1>2, <2>1 DEF Piece
  <2> QED BY <1>1, <1>3, <2>1, <2>2 DEF Contribution, Gain
<1>4. CASE ~Gpu(job)
  <2>1. ~OnGpu
    BY <1>4 DEF OnGpu, Gpu
  <2> QED BY <1>1, <1>2, <1>4, <2>1 DEF Contribution, Gain
<1> QED BY <1>3, <1>4

LEMMA GetRun ==
  ASSUME CInv, RunInv, Get, UNCHANGED <<cell, results>>
  PROVE  RunInv'
<1> DEFINE id == <<"task", run.i>>
           to == IF run.i + 1 = Pieces(job) THEN "returned" ELSE IF run.d < Pieces(job) THEN "scatter" ELSE "get"
           C == run.C_blocks
           D == [key \in DOMAIN C |-> [rc \in DOMAIN C[key] |-> C[key][rc] + Contribution(key)[rc]]]
<1>1. /\ run.pc = "get" /\ UNCHANGED <<job, queue, buffers>>
      /\ Answered(id) /\ ~Failed(id) /\ answers' = answers \ To(id)
      /\ run' = [run EXCEPT !.C_blocks = D, !.i = @ + 1, !.pc = to]
  BY OfJob DEF Get, RunAt
<1> HIDE DEF D
<1>2. /\ run' = [pc |-> run'.pc, d |-> run'.d, i |-> run'.i, C_blocks |-> run'.C_blocks]
      /\ run'.pc = to /\ run'.d = run.d /\ run'.i = run.i + 1 /\ run'.C_blocks = D
  <2>1. run = [pc |-> run.pc, d |-> run.d, i |-> run.i, C_blocks |-> run.C_blocks]
    BY DEF RunInv, ShapesOK
  <2> QED BY <1>1, <2>1
<1>3. JobOK' /\ ShapesOK' /\ ProductComplete' /\ RunFits /\ JobFits(job)
  BY <1>1, <1>2, RunMoves DEF Underway, RunPcs
<1>4. run.i \in Nat /\ run.d \in Nat /\ run.i < run.d /\ run.d <= Pieces(job) /\ Pieces(job) \in Nat \ {0}
  BY <1>1, <1>3, DoneEnds DEF RunFits, PlanFits
<1>5. run.i \in Upto(Pieces(job))
  BY <1>4, SMT DEF Upto
<1>6. all_results = Made(job, run.i)
  BY <1>1, <1>3, <1>5, CollectedPiece
<1>7. C = BlocksAt(job, run.i)
  BY <1>1, <1>3 DEF RunFits, BlocksFit
<1>8. BlocksFit'
  <2>1. DOMAIN C = Keys(job) /\ \A key \in Keys(job) : DOMAIN C[key] = BlockCells(job, key)
    BY <1>7 DEF BlocksAt
  <2>2. ASSUME NEW key \in Keys(job), NEW rc \in BlockCells(job, key)
        PROVE  C[key][rc] + Contribution(key)[rc] = Sigma(Adds(job, key, rc), Done(job, run.i + 1))
    <3>1. C[key][rc] = Sigma(Adds(job, key, rc), Done(job, run.i))
      BY <1>7 DEF BlocksAt
    <3>2. Contribution(key)[rc] = Gain(job, run.i, key, rc)
      BY <1>3, <1>6, <1>7, ContributionIs
    <3> QED BY <1>3, <1>5, <3>1, <3>2, GainIs
  <2>3. D = BlocksAt(job, run.i + 1)
    BY <2>1, <2>2 DEF D, BlocksAt
  <2> QED BY <1>1, <1>2, <2>3 DEF BlocksFit
<1>9. ASSUME NEW e \in Engine PROVE Unasked(queue[e])
  BY <1>1, <1>3 DEF RunFits, RequestsFit, RequestFits, Unasked, Open
<1>10. \A y \in answers : y.id[1] \notin Blocking
  BY <1>1, <1>3 DEF RunFits, AnswersFit, AnswerFits, Open
<1>11. RequestsFit'
  BY <1>1, <1>2, <1>3, <1>9, FitAnywhere DEF RunFits, RequestsFit
<1>12. AnswersFit'
  BY <1>1, <1>2, <1>3, <1>10, AnswerAnywhere DEF AnswersFit
<1>13. PlanFits'
  <2>1. run.i + 1 \in Nat /\ run.i + 1 <= run.d
    BY <1>4, SMT
  <2>2. run.d < Pieces(job) => run.d \in Upto(Pieces(job))
    BY <1>4, SMT DEF Upto
  <2>3. run.i + 1 # Pieces(job) /\ ~(run.d < Pieces(job)) => run.i + 1 < run.d
    BY <1>4, SMT
  <2> QED BY <1>1, <1>2, <1>4, <2>1, <2>2, <2>3 DEF PlanFits
<1>14. BuffersFit'
  BY <1>2 DEF BuffersFit
<1> QED BY <1>3, <1>8, <1>11, <1>12, <1>13, <1>14 DEF RunInv, RunFits

LEMMA RaisedRun ==
  ASSUME CInv, RunInv, RunRaises \/ RunLost, UNCHANGED <<cell, results>>
  PROVE  RunInv'
<1>1. /\ run.pc \in Underway /\ UNCHANGED <<job, buffers>> /\ run' = [run EXCEPT !.pc = "raised"]
  BY DEF RunRaises, RunLost, RunAt, Underway
<1>2. /\ run' = [pc |-> run'.pc, d |-> run'.d, i |-> run'.i, C_blocks |-> run'.C_blocks]
      /\ run'.pc = "raised"
  BY <1>1, PcMoves
<1>3. JobOK' /\ ShapesOK' /\ ProductComplete'
  BY <1>1, <1>2, RunMoves DEF RunPcs
<1> QED BY <1>2, <1>3 DEF RunInv
-----------------------------------------------------------------------------
(* The run, begun and ended *)

LEMMA NoTilesYet ==
  ASSUME JobFits(job)
  PROVE  Running.C_blocks = BlocksAt(job, 0)
<1>1. DepthTiles(job) \in Nat \ {0} /\ 0 \in Upto(DepthTiles(job))
  BY JobSizes, SMT DEF Upto
<1>2. Done(job, 0) = 0
  BY DoneEnds
<1>3. ASSUME NEW key \in Keys(job)
      PROVE  Matrix(Tile(key[1], key[2], 0).A.rows, Tile(key[1], key[2], 0).B.cols, LAMBDA i, j : 0)
               = [rc \in BlockCells(job, key) |-> Sigma(Adds(job, key, rc), Done(job, 0))]
  <2>1. key[1] \in Upto(RowTiles(job)) /\ key[2] \in Upto(ColTiles(job))
    BY DEF Keys
  <2>2. Tile(key[1], key[2], 0) = TileIn(job, key[1], key[2], 0)
    BY OfJob
  <2>3. /\ Tile(key[1], key[2], 0).A.rows = Height(job, key[1])
        /\ Tile(key[1], key[2], 0).B.cols = Width(job, key[2])
    BY <1>1, <2>1, <2>2, TileIs
  <2>4. Matrix(Tile(key[1], key[2], 0).A.rows, Tile(key[1], key[2], 0).B.cols, LAMBDA i, j : 0)
          = [rc \in BlockCells(job, key) |-> 0]
    BY <2>3 DEF Matrix, BlockCells
  <2> QED BY <1>2, <2>4, SigmaNone
<1>4. Running.C_blocks
        = [key \in Keys(job) |->
             Matrix(Tile(key[1], key[2], 0).A.rows, Tile(key[1], key[2], 0).B.cols, LAMBDA i, j : 0)]
  BY OfJob DEF Running, Keys
<1> QED BY <1>3, <1>4 DEF BlocksAt

LEMMA BeginRunInv ==
  ASSUME CInv, RunInv, BeginRun
  PROVE  RunInv'
<1>1. /\ cell.pc = "begin" /\ CellGoto("run") /\ run' = Running
      /\ UNCHANGED <<job, queue, buffers, answers, results>>
  BY DEF BeginRun, CellAt
<1>2. cell'.pc = "run" /\ cell'.size = cell.size
  BY <1>1, Goes
<1>3. run.pc = "off" /\ RunFits /\ JobFits(job)
  BY <1>1, TheJob DEF RunInv, ShapesOK, Early
<1>4. /\ run' = [pc |-> run'.pc, d |-> run'.d, i |-> run'.i, C_blocks |-> run'.C_blocks]
      /\ run'.pc = "scatter" /\ run'.d = 0 /\ run'.i = 0 /\ run'.C_blocks = Running.C_blocks
  BY <1>1 DEF Running
<1>5. JobOK' /\ ShapesOK' /\ ProductComplete'
  BY <1>1, <1>2, <1>4 DEF RunInv, JobOK, ShapesOK, ProductComplete, Early, RunPcs
<1>6. RequestsFit'
  BY <1>1, <1>3, <1>4 DEF RunFits, RequestsFit, RequestFits, Work, Blocking
<1>7. AnswersFit'
  BY <1>1, <1>3, <1>4 DEF RunFits, AnswersFit, AnswerFits, Work, Blocking
<1>8. PlanFits'
  <2>1. 0 \in Upto(Pieces(job))
    BY <1>3, DoneEnds, SMT DEF Upto
  <2> QED BY <1>1, <1>4, <2>1 DEF PlanFits
<1>9. BuffersFit' /\ BlocksFit'
  BY <1>1, <1>3, <1>4, NoTilesYet DEF BuffersFit, BlocksFit
<1> QED BY <1>5, <1>6, <1>7, <1>8, <1>9 DEF RunInv, RunFits

(* Where an entry lies in its tile. *)
LEMMA Placed ==
  ASSUME NEW x \in Nat \ {0}, NEW P \in Nat \ {0}, NEW i \in Upto(x)
  PROVE  /\ i \div P \in Upto(CeilTiles(x, P))
         /\ i % P \in Upto(Lower(P, x - (i \div P) * P))
         /\ (i \div P) * P + (i % P) = i
<1> DEFINE q == i \div P
           r == i % P
           n == CeilTiles(x, P)
<1>1. i \in Int /\ 0 <= i /\ i < x
  BY DEF Upto
<1>2. q \in Int /\ r \in Upto(P) /\ i = q * P + r
  BY <1>1, DivMod
<1>3. n \in Nat \ {0} /\ x <= n * P /\ n * P \in Nat
  BY CeilTilesIs
<1> HIDE DEF q, r, n
<1>4. r \in Int /\ 0 <= r /\ r < P /\ q * P \in Int
  BY <1>2, MulInt DEF Upto
<1>5. ~(q < 0)
  <2> SUFFICES ASSUME q < 0 PROVE FALSE
    OBVIOUS
  <2>1. q * P + P <= 0 * P /\ 0 * P = 0
    BY <1>2, Apart, SMT
  <2> QED BY <1>1, <1>2, <1>4, <2>1, SMT
<1>6. ~(n < q)
  <2> SUFFICES ASSUME n < q PROVE FALSE
    OBVIOUS
  <2>1. n * P + P <= q * P
    BY <1>2, <1>3, Apart
  <2> QED BY <1>1, <1>2, <1>3, <1>4, <2>1, SMT
<1>7. q # n
  <2> SUFFICES ASSUME q = n PROVE FALSE
    OBVIOUS
  <2>1. q * P = n * P
    OBVIOUS
  <2> QED BY <1>1, <1>2, <1>3, <1>4, <2>1, SMT
<1>8. q \in Upto(n)
  BY <1>2, <1>3, <1>5, <1>6, <1>7, SMT DEF Upto
<1>9. r \in Upto(Lower(P, x - q * P))
  BY <1>1, <1>2, <1>8, Inside DEF n
<1> QED BY <1>2, <1>8, <1>9 DEF q, r, n

LEMMA StackedIs ==
  ASSUME JobFits(job), run.C_blocks = BlocksAt(job, Pieces(job))
  PROVE  StackedC = Product(job.A, job.B)
<1> DEFINE M == job.arr_M
           N == job.arr_N
           D == Upto(job.A.rows) \X Upto(job.B.cols)
           P == Product(job.A, job.B)
<1>1. /\ job.A.rows \in Nat \ {0} /\ job.B.cols \in Nat \ {0} /\ M \in Nat \ {0} /\ N \in Nat \ {0}
  BY JobSizes
<1>2. StackedC = [rc \in D |-> run.C_blocks[<<rc[1] \div M, rc[2] \div N>>][rc[1] % M, rc[2] % N]]
  BY DEF StackedC, Matrix
<1>3. P = [rc \in D |-> P[rc]]
  BY DEF Product, Matrix
<1>4. Done(job, Pieces(job)) = Tiles(job)
  BY DoneEnds
<1>5. ASSUME NEW rc \in D
      PROVE  run.C_blocks[<<rc[1] \div M, rc[2] \div N>>][rc[1] % M, rc[2] % N] = P[rc]
  <2> DEFINE i == rc[1]
             q == rc[2]
             key == <<i \div M, q \div N>>
             at == <<i % M, q % N>>
  <2>1. i \in Upto(job.A.rows) /\ q \in Upto(job.B.cols) /\ rc = <<i, q>>
    OBVIOUS
  <2>2. /\ key[1] \in Upto(RowTiles(job)) /\ at[1] \in Upto(Height(job, key[1])) /\ key[1] * M + at[1] = i
    BY <1>1, <2>1, Placed DEF RowTiles, Height
  <2>3. /\ key[2] \in Upto(ColTiles(job)) /\ at[2] \in Upto(Width(job, key[2])) /\ key[2] * N + at[2] = q
    BY <1>1, <2>1, Placed DEF ColTiles, Width
  <2>4. key \in Keys(job) /\ at \in BlockCells(job, key)
    BY <2>2, <2>3 DEF Keys, BlockCells
  <2> HIDE DEF key, at, i, q
  <2>5. run.C_blocks[key][at] = Sigma(Adds(job, key, at), Tiles(job))
    BY <1>4, <2>4 DEF BlocksAt
  <2>6. Sigma(Adds(job, key, at), Tiles(job)) = P[<<key[1] * M + at[1], key[2] * N + at[2]>>]
    BY <2>4, AllTiles
  <2>7. run.C_blocks[key][at] = P[rc]
    BY <2>1, <2>2, <2>3, <2>5, <2>6
  <2> QED BY <2>7 DEF key, at, i, q
<1> QED BY <1>2, <1>3, <1>5

LEMMA EndRunInv ==
  ASSUME CInv, RunInv, EndRun
  PROVE  RunInv'
<1>1. /\ cell.pc = "run" /\ CellGoto(AfterTry) /\ run.pc \in {"returned", "raised"}
      /\ UNCHANGED <<job, run, queue, buffers, answers>>
      /\ results' = IF run.pc = "returned"
                    THEN Append(results, [size |-> cell.size, C |-> StackedC]) ELSE results
  BY DEF EndRun, CellAt, pipeVars
<1>2. AfterTry \in {"teardown", "shutdown"}
  BY DEF AfterTry
<1>3. cell'.size = cell.size /\ cell'.pc \notin Early
  BY <1>1, <1>2, Goes DEF Early
<1>4. CASE run.pc = "raised"
  BY <1>1, <1>3, <1>4, Unmoved
<1>5. CASE run.pc = "returned"
  <2> DEFINE x == [size |-> cell.size, C |-> StackedC]
  <2>1. RunFits /\ JobFits(job) /\ job = CellJobs[job.kind][cell.size] /\ IsSeq(results)
    BY <1>1, <1>5, TheJob DEF RunInv, JobOK, ShapesOK
  <2>2. StackedC = Product(job.A, job.B)
    BY <1>5, <2>1, StackedIs DEF RunFits, PlanFits, BlocksFit
  <2>3. x.size = cell.size /\ x.C = Product(job.A, job.B)
    BY <2>2
  <2> HIDE DEF x
  <2>4. results' = Append(results, x)
    BY <1>1, <1>5 DEF x
  <2>5. PICK T : results \in Seq(T)
    BY <2>1 DEF IsSeq
  <2>6. results \in Seq(T \cup {x}) /\ x \in T \cup {x}
    BY <2>5, SeqMonotonic
  <2>7. results' \in Seq(T \cup {x}) /\ DOMAIN results' = 1 .. Len(results') /\ DOMAIN results = 1 .. Len(results)
    BY <2>4, <2>6, AppendProperties, LenProperties
  <2>8. ProductComplete'
    <3> SUFFICES ASSUME NEW n \in 1 .. Len(results')
                 PROVE  LET j == CellJobs[job.kind][results'[n].size] IN results'[n].C = Product(j.A, j.B)
      BY <1>1, <2>7 DEF ProductComplete
    <3>1. (n \in 1 .. Len(results) /\ results'[n] = results[n]) \/ results'[n] = x
      BY <2>1, <2>4, Appended
    <3> QED BY <2>1, <2>3, <2>7, <3>1 DEF RunInv, ProductComplete
  <2>9. JobOK' /\ ShapesOK'
    BY <1>1, <1>3, <2>7 DEF RunInv, JobOK, ShapesOK, IsSeq
  <2>10. RunFits'
    BY <1>1, <2>1 DEF RunFits, RequestsFit, AnswersFit, BuffersFit, PlanFits, BlocksFit
  <2> QED BY <2>8, <2>9, <2>10 DEF RunInv
<1> QED BY <1>1, <1>4, <1>5

(* Nothing runs, nothing is asked or answered: as a size begins. *)
NoRun == run = NotRunning /\ queue = [e \in Engine |-> << >>] /\ answers = {}

NoRunOK ==
  RunFits /\ run = [pc |-> "off", d |-> run.d, i |-> run.i, C_blocks |-> run.C_blocks] /\ run.pc = "off"

LEMMA NoRunFits == NoRun => NoRunOK
<1> SUFFICES ASSUME NoRun PROVE NoRunOK
  OBVIOUS
<1> USE DEF NoRun
<1>1. run = [pc |-> "off", d |-> run.d, i |-> run.i, C_blocks |-> run.C_blocks] /\ run.pc = "off"
  BY DEF NotRunning
<1>2. \A e \in Engine : 1 .. Len(queue[e]) = {}
  <2>1. 1 .. Len(<< >>) = {}
    BY EmptyQueue, SMT
  <2> QED BY <2>1
<1>3. RequestsFit /\ AnswersFit
  BY <1>2 DEF RequestsFit, OnlyOnce, AnswersFit
<1>4. BuffersFit /\ PlanFits /\ BlocksFit
  BY <1>1 DEF BuffersFit, PlanFits, BlocksFit
<1> QED BY <1>1, <1>3, <1>4 DEF RunFits, NoRunOK

LEMMA Begins ==
  ASSUME NEW kind \in Kinds, NEW n \in Nat \ {0}, NEW c, c = Begin(kind, n), c.pc # "ended"
  PROVE  n \in 1 .. Len(CellJobs[kind]) /\ c.size = n /\ CellJobs[kind][n].kind = kind
<1>1. Len(CellJobs[kind]) \in Nat
  BY CellJobsAssumption DEF Kinds
<1>2. ~(n > Len(CellJobs[kind])) /\ c.size = n
  BY DEF Begin
<1>3. n \in 1 .. Len(CellJobs[kind])
  BY <1>1, <1>2, SMT
<1> QED BY <1>2, <1>3, CellJobsAssumption DEF Kinds

LEMMA NextSizeInv ==
  ASSUME CInv, RunInv, NextSize
  PROVE  RunInv'
<1> DEFINE n == cell.size + 1
           kind == job.kind
<1>1. /\ cell.pc = "next" /\ cell' = Begin(kind, n)
      /\ job' = IF n > Len(CellJobs[kind]) THEN job ELSE CellJobs[kind][n]
      /\ run' = NotRunning /\ queue' = [e \in Engine |-> << >>]
      /\ buffers' = NoBuffers /\ answers' = {} /\ results' = results
  BY DEF NextSize, CellAt
<1>2. kind \in Kinds /\ n \in Nat \ {0}
  <2>1. cell.size \in Nat
    BY DEF CInv, TypesOK
  <2> QED BY <2>1 DEF RunInv, JobOK
<1> HIDE DEF n, kind
<1>3. cell'.pc = "ended" <=> n > Len(CellJobs[kind])
  BY <1>1 DEF Begin
<1>4. job'.kind = kind /\ (cell'.pc # "ended" => cell'.size \in 1 .. Len(CellJobs[kind]) /\ job' = CellJobs[kind][cell'.size])
  <2>1. CASE cell'.pc = "ended"
    BY <1>1, <1>3, <2>1 DEF kind
  <2>2. CASE cell'.pc # "ended"
    <3>1. n \in 1 .. Len(CellJobs[kind]) /\ cell'.size = n /\ CellJobs[kind][n].kind = kind
      BY <1>1, <1>2, <2>2, Begins
    <3> QED BY <1>1, <1>3, <2>2, <3>1
  <2> QED BY <2>1, <2>2
<1>5. JobOK'
  BY <1>2, <1>4 DEF JobOK
<1>6. RunFits' /\ run' = [pc |-> "off", d |-> run'.d, i |-> run'.i, C_blocks |-> run'.C_blocks] /\ run'.pc = "off"
  <2>1. NoRun'
    BY <1>1 DEF NoRun
  <2>2. NoRun' => NoRunOK'
    BY NoRunFits, PTL
  <2> QED BY <2>1, <2>2 DEF NoRunOK
<1>7. ShapesOK'
  BY <1>1, <1>6 DEF RunInv, ShapesOK, NoBuffers, RunPcs
<1>8. ProductComplete'
  BY <1>1, <1>4 DEF RunInv, ProductComplete, kind
<1> QED BY <1>5, <1>6, <1>7, <1>8 DEF RunInv

LEMMA RunInvInit == EglInit /\ CellInit => RunInv
<1> SUFFICES ASSUME CellInit PROVE RunInv
  OBVIOUS
<1>1. PICK kind \in Kinds : job = CellJobs[kind][1] /\ cell = Begin(kind, 1)
  BY DEF CellInit
<1>2. /\ run = NotRunning /\ queue = [e \in Engine |-> << >>] /\ buffers = NoBuffers
      /\ answers = {} /\ results = << >>
  BY DEF CellInit
<1>3. /\ RunFits /\ run.pc = "off"
      /\ run = [pc |-> "off", d |-> run.d, i |-> run.i, C_blocks |-> run.C_blocks]
  BY <1>2, NoRunFits DEF NoRun, NoRunOK
<1>4. Len(CellJobs[kind]) \in Nat \ {0}
  BY CellJobsAssumption DEF Kinds
<1>5. 1 \in 1 .. Len(CellJobs[kind]) /\ 1 \in Nat \ {0}
  BY <1>4, SMT
<1>6. job.kind = kind
  BY <1>1, <1>5, CellJobsAssumption DEF Kinds
<1>7. JobOK
  BY <1>1, <1>5, <1>6, Begins DEF JobOK
<1>8. ShapesOK
  BY <1>2, <1>3, EmptyQueue DEF ShapesOK, NoBuffers, RunPcs
<1>9. ProductComplete
  <2>1. DOMAIN results = {}
    BY <1>2
  <2> QED BY <2>1 DEF ProductComplete
<1> QED BY <1>3, <1>7, <1>8, <1>9 DEF RunInv

LEMMA RunInvNext == CInv /\ RunInv /\ [CellNext]_cellVars => RunInv'
<1> SUFFICES ASSUME CInv, RunInv, [CellNext]_cellVars PROVE RunInv'
  OBVIOUS
<1>1. CASE Notebook
  BY <1>1, QuietRun, AskingRun, BeginRunInv, EndRunInv, ShuttingRun, NextSizeInv DEF Notebook
<1>2. CASE RunStep /\ UNCHANGED <<cell, cluster, results>>
  BY <1>2, ScatterRun, ScatteredRun, MapRun, GetRun, RaisedRun DEF RunStep
<1>3. CASE RemoteLost
  BY <1>3, QuietRun
<1>4. CASE RunLost /\ UNCHANGED <<cell, cluster, results>>
  BY <1>4, RaisedRun
<1>5. ASSUME NEW e \in Engine, Serve(e) PROVE RunInv'
  BY <1>5, ServingRun
<1>6. CASE UNCHANGED cellVars
  BY <1>6, Unmoved DEF cellVars, pipeVars
<1> QED BY <1>1, <1>2, <1>3, <1>4, <1>5, <1>6 DEF CellNext, Client, Lost

(* However many engines share a piece, whatever the shape of a tile, the     *)
(* size of a batch and the matrices, and whatever fails: a result that a     *)
(* cell of full_experiments.ipynb records is the product of its matrices.    *)
THEOREM RecordedProducts == CellSpec => []ProductComplete
<1>1. RunInv => ProductComplete
  BY DEF RunInv
<1> QED BY <1>1, CellInvariance, RunInvInit, RunInvNext, PTL DEF CellSpec
=============================================================================
