-------------------------- MODULE MCDeviceManager --------------------------
(* DeviceManager for TLC: the values of its constants, and bounds on what  *)
(* clients, users and the bus do in one behaviour.                         *)
EXTENDS DeviceManager

CONSTANTS MaxSets, MaxLoads, MaxTicks, MaxUnplugs, MaxFailures

VARIABLE done       \* done[k]: how often k has happened

mcvars == <<dvars, done>>

Zero == [dd |-> 0, mm |-> 0, yy |-> 0]
NoTexts == {}
NoDate == {Zero}
OneDate == {Zero, [dd |-> 5, mm |-> 4, yy |-> 24]}

PanelSlots == {1, 25}                   \* the Fire LED, MFD brightness
ClockSlots == {27}                      \* date

Fire == <<"LED", "Fire">>
Dial == <<"Brightness", "MFD">>
Enabled == <<"Clock", "Enabled">>
Local == <<"Clock", "PrimaryIsLocal">>
DateFormat == <<"Clock", "DateFormat">>

PanelSettings == <<Fire, Dial>>
PanelValues == [s \in {Fire, Dial} |-> IF s = Fire THEN {"ON", "OFF"} ELSE {128}]
PanelDefaults == [s \in {Fire, Dial} |-> IF s = Fire THEN "OFF" ELSE 128]
PanelFile == [s \in {Fire, Dial} |-> IF s = Fire THEN "ON" ELSE 128]

DialSettings == <<Dial>>
DialValues == [s \in {Dial} |-> {64, 128}]
DialDefaults == [s \in {Dial} |-> 128]

ClockedSettings == <<Enabled, Local, DateFormat>>
ClockedValues ==
    [s \in {Enabled, Local, DateFormat} |->
        IF s = DateFormat THEN {"DDMMYY", "YYMMDD"} ELSE BOOLEAN]
ClockedDefaults ==
    [s \in {Enabled, Local, DateFormat} |-> IF s = DateFormat THEN "DDMMYY" ELSE TRUE]

Bound == [set |-> MaxSets, load |-> MaxLoads, tick |-> MaxTicks,
          unplug |-> MaxUnplugs, failure |-> MaxFailures]

Counted(k) == done[k] < Bound[k] /\ done' = [done EXCEPT ![k] = @ + 1]
Free == UNCHANGED done

\* A transfer to a joystick that is there fails.
Failure == busy /\ hdl = "live" /\ (tries' > tries \/ (tries = 3 /\ ~busy'))

MCInit == DInit /\ done = [k \in DOMAIN Bound |-> 0]

MCDevice ==
    /\ Device
    /\ \/ Failure /\ Counted("failure")
       \/ ~Failure /\ Free

MCSteps(t) == Steps(t) /\ Free

MCNext ==
    \/ MCDevice
    \/ \E t \in Threads : MCSteps(t)
    \/ Loads /\ Counted("load")
    \/ Sets /\ Counted("set")
    \/ Ticks /\ Counted("tick")
    \/ Unplug /\ UNCHANGED threadvars /\ Counted("unplug")
    \/ (\E p \in Products : Plug(p)) /\ UNCHANGED threadvars /\ Free

MCSpec == MCInit /\ [][MCNext]_mcvars

(* Every thread goes on; an event that libusb has queued arrives some time, *)
(* and a joystick that stays can be opened some time.                       *)
MCFairSpec ==
    /\ MCSpec
    /\ WF_mcvars(MCDevice)
    /\ \A t \in Threads : WF_mcvars(MCSteps(t))
    /\ SF_mcvars(DevCheck /\ left' = {} /\ Free)
    /\ SF_mcvars(DevConnect /\ rc' = "SUCCESS" /\ Free)
=============================================================================
