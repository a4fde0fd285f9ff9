----------------------------- MODULE EglContext -----------------------------
(***************************************************************************)
(* egl_init and egl_teardown of matmul_mali400.py: a headless GL context is *)
(* ten calls, each of which may fail, and a failure gives back what the     *)
(* calls before it obtained.  The state is what a process holds.            *)
(***************************************************************************)
EXTENDS Integers, Sequences

CONSTANT Process

VARIABLE egl    \* for each process: pc, the call it is at, what it holds

(* The calls of get_gbm_display and egl_init, and what each one obtains; a  *)
(* display is a name for the GBM device, nothing is freed with it.          *)
Calls == <<"open", "gbm_create_device", "eglGetDisplay", "eglInitialize", "eglChooseConfig",
           "eglBindAPI", "gbm_surface_create", "eglCreateWindowSurface", "eglCreateContext",
           "eglMakeCurrent">>

Obtains == << {"fd"}, {"gbm_dev"}, {}, {"initialized"}, {},
              {}, {"gbm_surface"}, {"surf"}, {"ctx"}, {"current"} >>

(* _egl_release, in its order. *)
ReleasesUnterminated == <<"current", "ctx", "surf", "gbm_surface", "gbm_dev", "fd">>
ReleasesDeviceFirst == <<"current", "ctx", "surf", "initialized", "gbm_dev", "gbm_surface", "fd">>
Releases == <<"current", "ctx", "surf", "initialized", "gbm_surface", "gbm_dev", "fd">>

Resources == {"current", "ctx", "surf", "initialized", "gbm_surface", "gbm_dev", "fd"}

NoContext == [pc |-> "none", at |-> 1, has |-> {}]
-----------------------------------------------------------------------------
BeginInit(p) ==
  /\ egl[p].pc = "none"
  /\ egl' = [egl EXCEPT ![p].pc = "init"]

CallSucceeds(p) ==
  /\ egl[p].pc = "init"
  /\ egl' = [egl EXCEPT ![p] =
       [pc  |-> IF egl[p].at = Len(Calls) THEN "ready" ELSE "init",
        at  |-> IF egl[p].at = Len(Calls) THEN 1 ELSE egl[p].at + 1,
        has |-> egl[p].has \cup Obtains[egl[p].at]]]

(* get_gbm_display closes the device node itself; it never destroys the GBM *)
(* device.                                                                  *)
GetDisplayFails(p) ==
  /\ egl[p].pc = "init" /\ egl[p].at <= 3
  /\ egl' = [egl EXCEPT ![p] = [pc |-> "failed", at |-> egl[p].at, has |-> egl[p].has \ {"fd"}]]

(* From eglInitialize on, the handler releases everything and raises again. *)
CallFails(p) ==
  /\ egl[p].pc = "init" /\ egl[p].at > 3
  /\ egl' = [egl EXCEPT ![p] = [pc |-> "undoing", at |-> 1, has |-> egl[p].has]]

BeginTeardown(p) ==
  /\ egl[p].pc = "ready"
  /\ egl' = [egl EXCEPT ![p].pc = "teardown"]

(* One if of _egl_release. *)
Release(p) ==
  /\ egl[p].pc \in {"undoing", "teardown"}
  /\ egl' = [egl EXCEPT ![p] =
       [pc  |-> IF egl[p].at < Len(Releases) THEN egl[p].pc
                ELSE IF egl[p].pc = "undoing" THEN "undone" ELSE "gone",
        at  |-> IF egl[p].at < Len(Releases) THEN egl[p].at + 1 ELSE 1,
        has |-> egl[p].has \ {Releases[egl[p].at]}]]

(* The process ends, and with it all it holds. *)
ProcessEnds(p) == egl' = [egl EXCEPT ![p] = NoContext]

EglInit == egl = [p \in Process |-> NoContext]

EglStep(p) == CallSucceeds(p) \/ GetDisplayFails(p) \/ CallFails(p) \/ Release(p)

EglNext == \E p \in Process : BeginInit(p) \/ BeginTeardown(p) \/ EglStep(p) \/ ProcessEnds(p)

EglSpec == EglInit /\ [][EglNext]_egl
-----------------------------------------------------------------------------
Needs ==
  [current |-> {"ctx", "surf"}, ctx |-> {"initialized"}, surf |-> {"initialized", "gbm_surface"},
   gbm_surface |-> {"gbm_dev"}, initialized |-> {"gbm_dev", "fd"}, gbm_dev |-> {}, fd |-> {}]

(* Whatever call fails, and however far a release has come, nothing is held *)
(* that rests on something already given back: the driver never destroys a  *)
(* surface of a closed device (gm:466-491).  One thing is left out, and the *)
(* next property says what it costs: a GBM device may outlive its fd.       *)
Grounded == \A p \in Process : \A x \in egl[p].has : Needs[x] \subseteq egl[p].has

(* A failed egl_init leaves nothing behind, or the next run on the node     *)
(* fails (gm:417-421), except the GBM device when no display could be had   *)
(* for it (gm:393-395); a torn down context leaves nothing at all.          *)
NothingLeaked ==
  \A p \in Process :
    /\ egl[p].pc \in {"none", "undone", "gone"} => egl[p].has = {}
    /\ egl[p].pc = "failed" => egl[p].has \subseteq (IF egl[p].at = 3 THEN {"gbm_dev"} ELSE {})
=============================================================================
