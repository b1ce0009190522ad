-------------------------- MODULE VirtualMouseProofs --------------------------
(***************************************************************************)
(* Theorems about VirtualMouse: its state keeps its shape with any number  *)
(* of threads that enable and disable the mouse, and with one of them the  *)
(* mouse threads are those the setting asks for.                           *)
(***************************************************************************)
EXTENDS VirtualMouse, TLAPS

\* A mouse thread was created before one is cancelled or the mouse counts as
\* enabled, and the zeroed reports were overwritten before that.
Order ==
    /\ mouse_thr_enabled => mouse_thr \in Movers
    /\ \A t \in Appliers :
        /\ ctl_pc[t] = "cancel" \/ (ctl_pc[t] = "set" /\ ctl_arg[t]) => mouse_thr \in Movers
        /\ ctl_pc[t] = "spawn" => {old_report, new_report} \subseteq Reports

Shape == TypeOK /\ Order

USE ReportsAssumption

LEMMA NoMoverIsNone == NoMover \notin Movers
  BY DEF NoMover

LEMMA ShapeInit == Init => Shape
  BY DEF Init, Shape, TypeOK, Order, NoMover

\* The I/O thread.
LEMMA ShapeIO ==
    ASSUME Shape, Open \/ ReadFails \/ Handle \/ \E r \in Reports : Read(r)
    PROVE  Shape'
<1> USE DEF Handle, Open, ReadFails, Read, Store, Check, Wheel, Sync, WheelFails, SyncFails,
            ResetIO, Compare, CompareFails, GoIO, Buttons
<1>1. UNCHANGED <<mouse_uidev_created, mouse_thr_enabled, mouse_thr, mover_pc, cancelled,
                  ctl_pc, ctl_arg>>
  BY DEF threads, control
<1>2. io_pc' \in {"read", "store", "check", "primary", "secondary", "wheel", "sync", "reset"}
  OBVIOUS
<1>3. opened' \in BOOLEAN /\ changed' \in BOOLEAN
  BY DEF Shape, TypeOK
<1>4. report' \in Reports
  BY DEF Shape, TypeOK
<1>5. {old_report', new_report'} \subseteq {old_report, new_report, Rest, report}
  BY DEF reports
<1>6. held' \subseteq Buttons
  BY DEF Shape, TypeOK
<1> QED
  BY <1>1, <1>2, <1>3, <1>4, <1>5, <1>6 DEF Shape, TypeOK, Order

\* The mouse threads.
LEMMA ShapeMover == ASSUME Shape, NEW m \in Movers, Mover(m) PROVE Shape'
<1> USE DEF Mover, Move, MoveFails, MoverSync, MoverSyncFails, MoverCopy, Wake, MoverEnds, GoMover
<1>1. UNCHANGED <<io_pc, opened, report, changed, new_report, held, mouse_uidev_created,
                  mouse_thr_enabled, mouse_thr, ctl_pc, ctl_arg>>
  BY DEF io, reports, control
<1>2. old_report' \in {old_report, new_report}
  BY DEF reports
<1>3. /\ mover_pc' \in [Movers -> {"none", "axes", "sync", "copy", "sleep"}]
      /\ cancelled' \subseteq {k \in Movers : mover_pc'[k] # "none"}
  BY DEF Shape, TypeOK
<1> QED
  BY <1>1, <1>2, <1>3 DEF Shape, TypeOK, Order

\* The threads that control them.
LEMMA ShapeControl ==
    ASSUME Shape, NEW t \in Appliers,
           Controlling(t) \/ \E enabled \in BOOLEAN : Control(t, enabled)
    PROVE  Shape'
<1> USE DEF Shape, TypeOK, Order, GoControl, GoMover, threads, reports, io
<1>1. CASE ResetControl(t)
  BY <1>1 DEF ResetControl
<1>2. CASE Spawn(t)
  BY <1>2, NoMoverIsNone DEF Spawn
<1>3. CASE Cancel(t)
  BY <1>3 DEF Cancel
<1>4. CASE SetEnabled(t)
  BY <1>4 DEF SetEnabled
<1>5. ASSUME NEW enabled \in BOOLEAN, Control(t, enabled) PROVE Shape'
  BY <1>5 DEF Control
<1> QED
  BY <1>1, <1>2, <1>3, <1>4, <1>5 DEF Controlling

LEMMA ShapeStep == Shape /\ [Next]_mousevars => Shape'
<1>1. Shape /\ Create => Shape'
  BY DEF Create, Shape, TypeOK, Order, threads, control, reports, io
<1>2. Shape /\ UNCHANGED mousevars => Shape'
  BY DEF mousevars, Shape, TypeOK, Order, threads, control, reports, io
<1> QED
  BY <1>1, <1>2, ShapeIO, ShapeMover, ShapeControl DEF Next

\* The reports a mouse thread reads are never the zeroed memory, and only threads
\* that exist are cancelled, whoever enables and disables the mouse.
THEOREM TypeCorrect == Spec => []TypeOK
<1>1. Shape => TypeOK
  BY DEF Shape
<1> QED
  BY ShapeInit, ShapeStep, <1>1, PTL DEF Spec

-----------------------------------------------------------------------------
(* With one thread that applies the setting.  The daemon has three, the    *)
(* main, the command and the device thread, and with two of them at once   *)
(* TLC finds a mouse thread left over (MCVirtualMouse_twice.cfg).          *)

Live == {m \in Movers : mover_pc[m] # "none"} \ cancelled

\* Which mouse threads there are while a request is under way.
Requested ==
    \A t \in Appliers :
        /\ ctl_pc[t] \in {"reset", "spawn"} => ctl_arg[t] /\ Live = {}
        /\ ctl_pc[t] = "cancel" => ~ctl_arg[t] /\ Live = {mouse_thr}
        /\ ctl_pc[t] = "set" => Live = IF ctl_arg[t] THEN {mouse_thr} ELSE {}

IInv == Shape /\ OneMoverIffEnabled /\ Requested

\* What moves no thread in or out of the set leaves the rest of it alone.
LEMMA LiveKept ==
    ASSUME IInv, Shape', Live' = Live, UNCHANGED <<mouse_thr, mouse_thr_enabled, control>>
    PROVE  IInv'
  BY DEF IInv, OneMoverIffEnabled, Requested, ControlsIdle, control, Live

LEMMA MoverKeeps == ASSUME IInv, NEW m \in Movers, Mover(m) PROVE Live' = Live
<1> USE DEF IInv, Shape, TypeOK, GoMover, Live
<1>1. CASE MoverEnds(m)
  BY <1>1 DEF MoverEnds
<1>2. CASE Move(m) \/ MoveFails(m) \/ MoverSync(m) \/ MoverSyncFails(m) \/ MoverCopy(m) \/ Wake(m)
  <2>1. /\ cancelled' = cancelled /\ mover_pc[m] # "none"
        /\ \E pc \in {"axes", "sync", "copy", "sleep"} : mover_pc' = [mover_pc EXCEPT ![m] = pc]
    BY <1>2 DEF Move, MoveFails, MoverSync, MoverSyncFails, MoverCopy, Wake
  <2> QED
    BY <2>1
<1> QED
  BY <1>1, <1>2 DEF Mover

LEMMA ControlKeeps ==
    ASSUME \A t, u \in Appliers : t = u,
           IInv, Shape', NEW t \in Appliers,
           Controlling(t) \/ \E enabled \in BOOLEAN : Control(t, enabled)
    PROVE  IInv'
<1> USE DEF GoControl
<1> SUFFICES OneMoverIffEnabled' /\ Requested'
  BY DEF IInv
<1>0. ctl_pc \in [Appliers -> {"idle", "reset", "spawn", "cancel", "set"}]
      /\ ctl_arg \in [Appliers -> BOOLEAN] /\ mouse_thr_enabled \in BOOLEAN
  BY DEF IInv, Shape, TypeOK
<1>1. CASE ResetControl(t)
  BY <1>0, <1>1 DEF ResetControl, IInv, Requested, OneMoverIffEnabled, ControlsIdle, Live, threads
<1>2. CASE Spawn(t)
  <2>1. PICK m \in Movers : /\ mover_pc[m] = "none" /\ mover_pc' = [mover_pc EXCEPT ![m] = "axes"]
                            /\ mouse_thr' = m /\ cancelled' = cancelled
    BY <1>2 DEF Spawn, GoMover
  <2>2. Live = {} /\ ctl_arg[t]
    BY <1>2 DEF Spawn, IInv, Requested
  <2>3. Live' = {mouse_thr'}
    BY <2>1, <2>2 DEF Live, IInv, Shape, TypeOK
  <2> HIDE DEF Live
  <2> QED
    BY <1>0, <1>2, <2>2, <2>3 DEF Spawn, Requested, OneMoverIffEnabled, ControlsIdle, Live
<1>3. CASE Cancel(t)
  <2>1. Live = {mouse_thr} /\ ~ctl_arg[t]
    BY <1>3 DEF Cancel, IInv, Requested
  <2>2. Live' = {}
    BY <1>3, <2>1 DEF Cancel, Live
  <2> QED
    BY <1>0, <1>3, <2>1, <2>2 DEF Cancel, Requested, OneMoverIffEnabled, ControlsIdle, Live
<1>4. CASE SetEnabled(t)
  BY <1>0, <1>4 DEF SetEnabled, IInv, Requested, OneMoverIffEnabled, ControlsIdle, Live, threads
<1>5. ASSUME NEW enabled \in BOOLEAN, Control(t, enabled) PROVE OneMoverIffEnabled' /\ Requested'
  BY <1>0, <1>5 DEF Control, IInv, Requested, OneMoverIffEnabled, ControlsIdle, Live, threads
<1> QED
  BY <1>1, <1>2, <1>3, <1>4, <1>5 DEF Controlling

\* If only one thread applies the setting, exactly one thread moves the pointer
\* while the mouse is enabled and none while it is disabled, when no request is
\* under way; for any number of threads that were cancelled and still run.
THEOREM OneMover ==
    ASSUME \A t, u \in Appliers : t = u
    PROVE  Spec => []OneMoverIffEnabled
<1>1. Init => IInv
  <2> SUFFICES ASSUME Init PROVE IInv
    OBVIOUS
  <2>1. Live = {}
    BY DEF Init, Live
  <2> QED
    BY <2>1, ShapeInit DEF Init, IInv, OneMoverIffEnabled, Requested, Live
<1>2. IInv /\ [Next]_mousevars => IInv'
  <2> SUFFICES ASSUME IInv, [Next]_mousevars PROVE IInv'
    OBVIOUS
  <2>1. Shape'
    BY ShapeStep DEF IInv
  <2>2. CASE Create \/ Open \/ ReadFails \/ Handle \/ (\E r \in Reports : Read(r)) \/ UNCHANGED mousevars
    <3>1. UNCHANGED <<threads, mouse_thr_enabled, control>>
      BY <2>2 DEF Create, Open, ReadFails, Handle, Read, Store, Check, Wheel, Sync, WheelFails,
                  SyncFails, ResetIO, Compare, CompareFails, mousevars
    <3>2. Live' = Live
      BY <3>1 DEF threads, Live
    <3> QED
      BY <2>1, <3>1, <3>2, LiveKept DEF threads
  <2>3. ASSUME NEW m \in Movers, Mover(m) PROVE IInv'
    <3>1. UNCHANGED <<mouse_thr, mouse_thr_enabled, control>>
      BY <2>3 DEF Mover, Move, MoveFails, MoverSync, MoverSyncFails, MoverCopy, Wake, MoverEnds
    <3> QED
      BY <2>1, <2>3, <3>1, MoverKeeps, LiveKept
  <2> QED
    BY <2>1, <2>2, <2>3, ControlKeeps DEF Next
<1>3. IInv => OneMoverIffEnabled
  BY DEF IInv
<1> QED
  BY <1>1, <1>2, <1>3, PTL DEF Spec
=============================================================================
