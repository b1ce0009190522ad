---------------------------- MODULE VirtualMouse ----------------------------
(***************************************************************************)
(* The daemon's virtual mouse.  The I/O thread reads reports from the      *)
(* joystick and turns changed buttons into events; the mouse thread, which *)
(* runs while the mouse is enabled, turns the thumb stick into motion.     *)
(* Both, and the threads that enable the mouse, use two reports, the last  *)
(* one stored and the last one synchronised, without a lock.               *)
(***************************************************************************)
EXTENDS Integers

CONSTANTS
    Reports,        \* what the joystick may report: thumb stick and buttons
    Appliers,       \* the threads that apply the setting Mouse.Enabled
    Movers          \* names for mouse threads, as many as can exist at a time

Buttons == {"primary", "secondary"}
Centre == 8
Rest == [thumb |-> Centre, buttons |-> {}]
Zeroed == [Rest EXCEPT !.thumb = 0]         \* static memory at first
NoMover == 0

ASSUME ReportsAssumption ==
    /\ Reports \subseteq [thumb : 0..15, buttons : SUBSET (Buttons \cup {"scroll"})]
    /\ Rest \in Reports
    /\ Movers \subseteq Nat \ {NoMover}

VARIABLES
    io_pc,              \* where the I/O thread is
    opened,             \* is the joystick open for reading?
    report,             \* the report it read
    changed,            \* state_changed of x52d_mouse_report_event
    new_report, old_report,
    held,               \* the buttons the virtual mouse holds down
    mouse_uidev_created,
    mouse_thr_enabled,
    mouse_thr,          \* the mouse thread created last
    mover_pc,           \* where each mouse thread is, "none" if it is not
    cancelled,          \* the mouse threads that are cancelled
    ctl_pc,             \* where an applier is in x52d_mouse_evdev_thread_control
    ctl_arg             \* its argument

io == <<io_pc, opened, report, changed>>
reports == <<new_report, old_report>>
threads == <<mouse_thr, mover_pc, cancelled>>
control == <<ctl_pc, ctl_arg>>
mousevars == <<io, reports, held, mouse_uidev_created, mouse_thr_enabled, threads,
               control>>

Init ==
    /\ io_pc = "read" /\ opened = FALSE /\ report = Rest /\ changed = FALSE
    /\ new_report = Zeroed /\ old_report = Zeroed
    /\ held = {}
    /\ mouse_uidev_created = FALSE
    /\ mouse_thr_enabled = FALSE
    /\ mouse_thr = NoMover
    /\ mover_pc = [m \in Movers |-> "none"]
    /\ cancelled = {}
    /\ ctl_pc = [t \in Appliers |-> "idle"]
    /\ ctl_arg = [t \in Appliers |-> FALSE]

\* x52d_mouse_evdev_init
Create ==
    /\ ~mouse_uidev_created
    /\ mouse_uidev_created' = TRUE
    /\ UNCHANGED <<io, reports, held, mouse_thr_enabled, threads, control>>

-----------------------------------------------------------------------------
(* The I/O thread.                                                         *)

GoIO(from, to) == io_pc = from /\ io_pc' = to

\* A joystick is found and opened.
Open ==
    /\ io_pc = "read" /\ ~opened
    /\ opened' = TRUE
    /\ UNCHANGED <<io_pc, report, changed, reports, held, mouse_uidev_created,
                   mouse_thr_enabled, threads, control>>

Read(r) ==
    /\ opened /\ GoIO("read", "store")
    /\ report' = r
    /\ UNCHANGED <<opened, changed, reports, held, mouse_uidev_created,
                   mouse_thr_enabled, threads, control>>

\* The read fails, most likely because the joystick left: it is closed, and
\* the mouse is reset.
ReadFails ==
    /\ opened /\ GoIO("read", "reset")
    /\ opened' = FALSE
    /\ UNCHANGED <<report, changed, reports, held, mouse_uidev_created,
                   mouse_thr_enabled, threads, control>>

\* reset_reports, for a report that is NULL
ResetIO ==
    /\ GoIO("reset", "read")
    /\ old_report' = Rest
    /\ new_report' = Rest
    /\ UNCHANGED <<opened, report, changed, held, mouse_uidev_created,
                   mouse_thr_enabled, threads, control>>

Store ==
    /\ GoIO("store", "check")
    /\ new_report' = report
    /\ UNCHANGED <<opened, report, changed, old_report, held, mouse_uidev_created,
                   mouse_thr_enabled, threads, control>>

Check ==
    /\ \/ GoIO("check", "primary") /\ mouse_uidev_created /\ mouse_thr_enabled
       \/ GoIO("check", "read") /\ ~(mouse_uidev_created /\ mouse_thr_enabled)
    /\ changed' = FALSE
    /\ UNCHANGED <<opened, report, reports, held, mouse_uidev_created,
                   mouse_thr_enabled, threads, control>>

\* report_button_change: an event if the button changed since the last report
\* that was synchronised.
Compare(b, next) ==
    /\ GoIO(b, next)
    /\ IF (b \in old_report.buttons) # (b \in new_report.buttons)
       THEN /\ held' = IF b \in new_report.buttons THEN held \cup {b} ELSE held \ {b}
            /\ changed' = TRUE
       ELSE UNCHANGED <<held, changed>>
    /\ UNCHANGED <<opened, report, reports, mouse_uidev_created, mouse_thr_enabled,
                   threads, control>>

\* The event cannot be written.  Here and below, a failure that leaves what a
\* success would is no action of its own.
CompareFails(b, next) ==
    /\ GoIO(b, next)
    /\ ~changed \/ (b \in held) # (b \in new_report.buttons)
    /\ (b \in old_report.buttons) # (b \in new_report.buttons)
    /\ UNCHANGED <<opened, report, changed, reports, held, mouse_uidev_created,
                   mouse_thr_enabled, threads, control>>

\* report_wheel, and what follows from state_changed
Wheel ==
    /\ IF changed \/ "scroll" \in new_report.buttons THEN GoIO("wheel", "sync")
                                                     ELSE GoIO("wheel", "read")
    /\ UNCHANGED <<opened, report, changed, reports, held, mouse_uidev_created,
                   mouse_thr_enabled, threads, control>>

\* Faulty: the reports are copied the wrong way round.
Sync_Reversed ==
    /\ GoIO("sync", "read")
    /\ new_report' = old_report
    /\ UNCHANGED <<opened, report, changed, old_report, held, mouse_uidev_created,
                   mouse_thr_enabled, threads, control>>

\* report_sync: the new report becomes the old one, whatever it is by then.
Sync ==
    /\ GoIO("sync", "read")
    /\ old_report' = new_report
    /\ UNCHANGED <<opened, report, changed, new_report, held, mouse_uidev_created,
                   mouse_thr_enabled, threads, control>>

\* An event of the wheel, or the one that ends the report, cannot be written.
WheelFails ==
    /\ "scroll" \in new_report.buttons /\ ~changed
    /\ GoIO("wheel", "read")
    /\ UNCHANGED <<opened, report, changed, reports, held, mouse_uidev_created,
                   mouse_thr_enabled, threads, control>>

SyncFails ==
    /\ old_report # new_report
    /\ GoIO("sync", "read")
    /\ UNCHANGED <<opened, report, changed, reports, held, mouse_uidev_created,
                   mouse_thr_enabled, threads, control>>

Handle ==
    \/ Store \/ Check \/ Wheel \/ Sync \/ WheelFails \/ SyncFails \/ ResetIO
    \/ Compare("primary", "secondary") \/ CompareFails("primary", "secondary")
    \/ Compare("secondary", "wheel") \/ CompareFails("secondary", "wheel")

-----------------------------------------------------------------------------
(* A mouse thread.                                                         *)

GoMover(m, from, to) ==
    /\ mover_pc[m] = from
    /\ mover_pc' = [mover_pc EXCEPT ![m] = to]

\* report_axis for both axes: every value but the centre moves the pointer.
Move(m) ==
    /\ IF new_report.thumb # Centre THEN GoMover(m, "axes", "sync")
                                    ELSE GoMover(m, "axes", "sleep")
    /\ UNCHANGED <<io, reports, held, mouse_uidev_created, mouse_thr_enabled,
                   mouse_thr, cancelled, control>>

MoveFails(m) ==
    /\ new_report.thumb # Centre
    /\ GoMover(m, "axes", "sleep")
    /\ UNCHANGED <<io, reports, held, mouse_uidev_created, mouse_thr_enabled,
                   mouse_thr, cancelled, control>>

\* report_sync: the event is written, then the report copied.
MoverSync(m) ==
    /\ GoMover(m, "sync", "copy")
    /\ UNCHANGED <<io, reports, held, mouse_uidev_created, mouse_thr_enabled,
                   mouse_thr, cancelled, control>>

MoverSyncFails(m) ==
    /\ GoMover(m, "sync", "sleep")
    /\ UNCHANGED <<io, reports, held, mouse_uidev_created, mouse_thr_enabled,
                   mouse_thr, cancelled, control>>

MoverCopy(m) ==
    /\ GoMover(m, "copy", "sleep")
    /\ old_report' = new_report
    /\ UNCHANGED <<io, new_report, held, mouse_uidev_created, mouse_thr_enabled,
                   mouse_thr, cancelled, control>>

Wake(m) ==
    /\ m \notin cancelled
    /\ GoMover(m, "sleep", "axes")
    /\ UNCHANGED <<io, reports, held, mouse_uidev_created, mouse_thr_enabled,
                   mouse_thr, cancelled, control>>

\* A cancelled thread ends where it writes or sleeps.
MoverEnds(m) ==
    /\ m \in cancelled
    /\ GoMover(m, "axes", "none") \/ GoMover(m, "sync", "none")
       \/ GoMover(m, "sleep", "none")
    /\ cancelled' = cancelled \ {m}
    /\ UNCHANGED <<io, reports, held, mouse_uidev_created, mouse_thr_enabled,
                   mouse_thr, control>>

Mover(m) ==
    \/ Move(m) \/ MoveFails(m) \/ MoverSync(m) \/ MoverSyncFails(m) \/ MoverCopy(m)
    \/ Wake(m) \/ MoverEnds(m)

-----------------------------------------------------------------------------
(* x52d_mouse_evdev_thread_control: nothing keeps two threads from running *)
(* it at a time.                                                           *)

GoControl(t, from, to) ==
    /\ ctl_pc[t] = from
    /\ ctl_pc' = [ctl_pc EXCEPT ![t] = to]

\* Faulty: a thread is created though there is one.
Control_Again(t, enabled) ==
    /\ mouse_uidev_created
    /\ enabled \/ mouse_thr_enabled
    /\ GoControl(t, "idle", IF enabled THEN "reset" ELSE "cancel")
    /\ ctl_arg' = [ctl_arg EXCEPT ![t] = enabled]
    /\ UNCHANGED <<io, reports, held, mouse_uidev_created, mouse_thr_enabled,
                   threads>>

\* A request that is refused changes nothing: it is a step that stutters.
Control(t, enabled) ==
    /\ mouse_uidev_created
    /\ mouse_thr_enabled # enabled
    /\ GoControl(t, "idle", IF enabled THEN "reset" ELSE "cancel")
    /\ ctl_arg' = [ctl_arg EXCEPT ![t] = enabled]
    /\ UNCHANGED <<io, reports, held, mouse_uidev_created, mouse_thr_enabled,
                   threads>>

\* Faulty: the thumb stick is left at one end.
ResetControl_Zeroed(t) ==
    /\ GoControl(t, "reset", "spawn")
    /\ old_report' = Zeroed
    /\ new_report' = Zeroed
    /\ UNCHANGED <<io, held, mouse_uidev_created, mouse_thr_enabled, threads, ctl_arg>>

ResetControl(t) ==
    /\ GoControl(t, "reset", "spawn")
    /\ old_report' = Rest
    /\ new_report' = Rest
    /\ UNCHANGED <<io, held, mouse_uidev_created, mouse_thr_enabled, threads, ctl_arg>>

Spawn(t) ==
    /\ GoControl(t, "spawn", "set")
    /\ \E m \in Movers :
          /\ GoMover(m, "none", "axes")
          /\ mouse_thr' = m
    /\ UNCHANGED <<io, reports, held, mouse_uidev_created, mouse_thr_enabled,
                   cancelled, ctl_arg>>

\* The thread may have ended since, if two threads disable the mouse.
Cancel(t) ==
    /\ GoControl(t, "cancel", "set")
    /\ cancelled' = IF mover_pc[mouse_thr] = "none" THEN cancelled
                                                    ELSE cancelled \cup {mouse_thr}
    /\ UNCHANGED <<io, reports, held, mouse_uidev_created, mouse_thr_enabled,
                   mouse_thr, mover_pc, ctl_arg>>

\* Faulty: the flag is not cleared when the mouse is disabled.
SetEnabled_NotCleared(t) ==
    /\ GoControl(t, "set", "idle")
    /\ mouse_thr_enabled' = TRUE
    /\ UNCHANGED <<io, reports, held, mouse_uidev_created, threads, ctl_arg>>

SetEnabled(t) ==
    /\ GoControl(t, "set", "idle")
    /\ mouse_thr_enabled' = ctl_arg[t]
    /\ UNCHANGED <<io, reports, held, mouse_uidev_created, threads, ctl_arg>>

Controlling(t) == ResetControl(t) \/ Spawn(t) \/ Cancel(t) \/ SetEnabled(t)

-----------------------------------------------------------------------------
Next ==
    \/ Create \/ Open \/ ReadFails \/ Handle
    \/ \E r \in Reports : Read(r)
    \/ \E m \in Movers : Mover(m)
    \/ \E t \in Appliers : Controlling(t)
    \/ \E t \in Appliers, enabled \in BOOLEAN : Control(t, enabled)

Spec == Init /\ [][Next]_mousevars

\* Reports, requests and unplugs come or do not; what the daemon has begun it
\* goes on with.
FairSpec ==
    /\ Spec
    /\ WF_mousevars(Handle)
    /\ \A m \in Movers : WF_mousevars(Mover(m))
    /\ \A t \in Appliers : WF_mousevars(Controlling(t))

-----------------------------------------------------------------------------
(* Properties.                                                             *)

\* The shape of the state.  Once a mouse thread has been created, what it reads
\* is never the zeroed memory, which would be a deflected thumb stick, and only
\* threads that exist are cancelled.
TypeOK ==
    /\ io_pc \in {"read", "store", "check", "primary", "secondary", "wheel", "sync",
                  "reset"}
    /\ {opened, changed, mouse_uidev_created, mouse_thr_enabled} \subseteq BOOLEAN
    /\ report \in Reports
    /\ {old_report, new_report} \subseteq
           IF mouse_thr = NoMover THEN Reports \cup {Zeroed} ELSE Reports
    /\ held \subseteq Buttons
    /\ mouse_thr \in Movers \cup {NoMover}
    /\ mover_pc \in [Movers -> {"none", "axes", "sync", "copy", "sleep"}]
    /\ cancelled \subseteq {m \in Movers : mover_pc[m] # "none"}
    /\ ctl_pc \in [Appliers -> {"idle", "reset", "spawn", "cancel", "set"}]
    /\ ctl_arg \in [Appliers -> BOOLEAN]

ControlsIdle == \A t \in Appliers : ctl_pc[t] = "idle"

\* A disabled mouse is still: when no request is under way, every mouse thread
\* there is has been cancelled (the setting Mouse.Enabled, x52d.conf:82).
DisabledIsStill ==
    ControlsIdle /\ ~mouse_thr_enabled =>
        \A m \in Movers \ cancelled : mover_pc[m] = "none"

\* When no request is under way, exactly one thread moves the pointer if the
\* mouse is enabled, the one that disabling it will cancel, and none if it is
\* disabled (x52d_mouse_evdev_thread_control, the setting Mouse.Enabled).
OneMoverIffEnabled ==
    ControlsIdle =>
        {m \in Movers : mover_pc[m] # "none"} \ cancelled =
            IF mouse_thr_enabled THEN {mouse_thr} ELSE {}

WriteFails ==
    \/ SyncFails \/ WheelFails
    \/ CompareFails("primary", "secondary") \/ CompareFails("secondary", "wheel")
    \/ \E m \in Movers : MoveFails(m) \/ MoverSyncFails(m)

WritesSucceed == <>[][~WriteFails]_mousevars

\* Where the joystick stays open, the mouse enabled and the thumb stick at
\* rest, a button that is pressed and released again and again is pressed and
\* released for the user: no click gets stuck for good, whatever was held when
\* the reports were last reset (x52d_mouse_report_event, report_sync).
ClicksGetThrough ==
    \A b \in Buttons :
        /\ WritesSucceed
        /\ <>[](mouse_thr_enabled /\ opened /\ ControlsIdle
                /\ new_report.thumb = Centre)
        /\ []<>(io_pc = "store" /\ b \in report.buttons)
        /\ []<>(io_pc = "store" /\ b \notin report.buttons)
        => []<>(b \in held) /\ []<>(b \notin held)

\* While the mouse is enabled and the thumb stick is not at rest, the pointer
\* keeps moving, also when the mouse was disabled and enabled again before the
\* first thread had ended (x52_mouse_thr, x52d_mouse_evdev_thread_control).
PointerMoves ==
    /\ WritesSucceed
    /\ <>[](mouse_thr_enabled /\ ControlsIdle /\ new_report.thumb # Centre)
    => []<>(\E m \in Movers \ cancelled : mover_pc[m] = "sync")
=============================================================================
