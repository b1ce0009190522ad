--------------------------- MODULE RegisterCache ---------------------------
(***************************************************************************)
(* What libx52 promises: a write-back cache in front of the registers of a *)
(* joystick that can be unplugged at any moment.  Applications request new *)
(* contents for slots; an update writes the requested contents back.  The  *)
(* promise is that a request is never dropped: a slot stops being dirty    *)
(* only by a write that left its register with the contents wanted.        *)
(***************************************************************************)
CONSTANTS
    Slots,      \* the parts of the joystick that are written on their own
    Unknown     \* the contents of a register nobody has written yet

VARIABLES
    want,       \* want[s]: the contents last requested for slot s
    dirty,      \* the slots with a request that is not written yet
    requested,  \* the slots the open connection is answerable for
    shown,      \* shown[s]: what the joystick plugged in holds for slot s
    link        \* "null", "live", or "dead": the handle, and its joystick

vars == <<dirty, requested, link, want, shown>>

-----------------------------------------------------------------------------
Init ==
    /\ want = [s \in Slots |-> want[s]]        \* any contents
    /\ dirty = {}
    /\ requested = {}
    /\ shown = [s \in Slots |-> Unknown]
    /\ link = "null"

\* New contents are requested for the slots S, and for no other slot.
Request(S) ==
    /\ dirty' = dirty \cup S
    /\ requested' = requested \cup S
    /\ want' = [s \in Slots |-> want'[s]]
    /\ \A s \in Slots \ S : want'[s] = want[s]
    /\ UNCHANGED <<shown, link>>

\* Slot s is written back.
WriteBack(s) ==
    /\ link = "live"
    /\ s \in dirty
    /\ dirty' = dirty \ {s}
    /\ shown' = [shown EXCEPT ![s] = want[s]]
    /\ UNCHANGED <<want, requested, link>>

\* A write of s that is under way, or that failed, leaves s dirty and its
\* register with any contents.
Disturb(s) ==
    /\ link = "live"
    /\ s \in dirty
    /\ UNCHANGED <<dirty, requested, want, link>>
    /\ shown' = [o \in Slots |-> shown'[o]]
    /\ \A o \in Slots \ {s} : shown'[o] = shown[o]

\* A raw command writes the register of s behind the cache's back.
Bypass(s) ==
    /\ requested' = requested \ ({s} \ dirty)
    /\ UNCHANGED <<dirty, link, want>>
    /\ shown' = [o \in Slots |-> shown'[o]]
    /\ \A o \in Slots \ {s} : shown'[o] = shown[o]

\* Opening a joystick makes the cache answerable for what is still dirty.
Open ==
    /\ link' = "live"
    /\ requested' = dirty
    /\ UNCHANGED <<dirty, want, shown>>

Close ==
    /\ link' = "null"
    /\ UNCHANGED <<want, dirty, requested, shown>>

Unplug ==
    /\ link' = IF link = "live" THEN "dead" ELSE link
    /\ UNCHANGED <<want, dirty, requested, shown>>

Plug ==
    /\ link # "live"
    /\ shown' = [s \in Slots |-> Unknown]
    /\ UNCHANGED <<want, dirty, requested, link>>

Next ==
    \/ Open \/ Close \/ Unplug \/ Plug
    \/ \E s \in Slots : WriteBack(s) \/ Disturb(s) \/ Bypass(s)
    \/ \E S \in SUBSET Slots : Request(S)

Spec == Init /\ [][Next]_vars

-----------------------------------------------------------------------------
\* The promise: a slot that was requested and is not dirty shows what is wanted.
Promise == link = "live" => \A s \in requested \ dirty : shown[s] = want[s]
=============================================================================
