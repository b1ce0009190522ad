------------------------------ MODULE MCLibx52 ------------------------------
(* Libx52 for TLC: the values of its constants, and bounds on how many     *)
(* setters are called and how many joysticks leave in one behaviour.       *)
EXTENDS Libx52

CONSTANTS MaxRequests, MaxUnplugs

VARIABLES requests, unplugs
mcvars == <<vars, requests, unplugs>>

\* The date of a cleared context, and the fifth of April 2024.
Zero == [dd |-> 0, mm |-> 0, yy |-> 0]
TwoDates == {Zero, [dd |-> 5, mm |-> 4, yy |-> 24]}

\* Thirteen hours west of GMT, and more than the library takes.  Local time is
\* GMT or ten hours east of it, so that offsets are negative and some wrap.
Zones == {-780, 1441}
HomeZones == {0, 600}

NoTexts == {}
ThreeTexts == {<<>>, <<"AB">>, <<"CD", "AB", "CD">>}

NoDate == {Zero}

ClockSlots == {27, 28, 29, 30}
PanelSlots == {2, 3, 22, 24, 26}  \* both colours of A, line 2, blink, LED brightness

MCInit == Init /\ requests = 0 /\ unplugs = 0

MCRequests ==
    /\ ~busy /\ Requests
    /\ requests < MaxRequests /\ requests' = requests + 1
    /\ UNCHANGED unplugs

MCCalls == ~busy /\ Calls /\ UNCHANGED <<requests, unplugs>>

MCUpdate == UpdateStep /\ UNCHANGED <<requests, unplugs>>

MCUnplug ==
    /\ Unplug
    /\ unplugs < MaxUnplugs /\ unplugs' = unplugs + 1
    /\ UNCHANGED requests

MCPlug == (\E p \in Products : Plug(p)) /\ UNCHANGED <<requests, unplugs>>

MCNext == MCRequests \/ MCCalls \/ MCUpdate \/ MCUnplug \/ MCPlug

MCSpec == MCInit /\ [][MCNext]_mcvars
=============================================================================
