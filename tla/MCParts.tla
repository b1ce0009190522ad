------------------------------ MODULE MCParts ------------------------------
(* Four parts that share no state, for TLC: each behaviour is one of the    *)
(* reports of joysticks, of the conversion of a text for the MFD, of a run  *)
(* of x52cli, or of the signals of the daemon's main thread.                *)
EXTENDS JoystickReports, CharMap, CommandLine, MainLoop, TLC

CONSTANTS x52, pro

VARIABLE part       \* the part whose behaviour it is

-----------------------------------------------------------------------------
(* Joysticks.  There is one position for each value of the hat, nine values *)
(* that mean different things among them.  The position presses the buttons *)
(* that have bit h of their number set, and for 7 and 15 all, so that every *)
(* two buttons differ in one; an axis is at its maximum for 7 and elsewhere *)
(* at a value of its own.                                                   *)
PlainAxes == <<"X", "Y", "RZ", "Z", "RX", "RY", "SLIDER", "THUMBX", "THUMBY">>
AllReleased == [axis |-> [a \in ToSet(PlainAxes) \cup {"HAT"} |-> 0], pressed |-> {}]
AtRest == [m \in Models |-> AllReleased]

AxisValues(m, a) == 2 ^ Layout[m][a].width
AxisAt(m, a, h) ==
    IF a = "HAT" THEN h
    ELSE IF h = 7 THEN AxisValues(m, a) - 1
    ELSE (37 * h * CHOOSE i \in DOMAIN PlainAxes : PlainAxes[i] = a) % AxisValues(m, a)
Position(m, h) ==
    [axis |-> [a \in DOMAIN AllReleased.axis |-> AxisAt(m, a, h)],
     pressed |-> {b \in 0..(ButtonCount[m] - 1) : h \in {7, 15} \/ ((b + 1) \div (2 ^ (h - 1))) % 2 = 1}]
SomePositions == [m \in Models |-> {AllReleased} \cup {Position(m, h) : h \in 1..8 \cup {15}}]

-----------------------------------------------------------------------------
(* Texts for the MFD: A, which takes one byte, the middle dot (two) and the *)
(* trade mark (three), in all texts of up to four of their bytes and of one *)
(* that begins nothing.                                                     *)
ThreeCodes == 65 :> 65 @@ 183 :> 13 @@ 8482 :> 16
ShortTexts == UNION {[1..n -> {65, 92, 194, 183, 226, 132, 162}] : n \in 0..4}

\* What the theorems about CharMap assume of these.
ASSUME InputsAssumption == InputsOK

-----------------------------------------------------------------------------
(* Command lines, with every command, every kind of refusal, numbers that  *)
(* do not fit and a text of 258 characters.                                *)
CommandLines == {
    <<>>, <<"hello">>, <<"led", "fire">>, <<"led", "x", "on">>,
    <<"led", "fire", "on">>, <<"led", "a", "amber">>, <<"led", "a", "on">>,
    <<"led", "throttle", "red">>, <<"bri", "mfd", 128>>, <<"bri", "led", 65600>>,
    <<"mfd", 1, <<"AB", "CD", "AB">>>>, <<"mfd", 256, <<"AB">>>>, <<"mfd", 3, <<"AB">>>>,
    <<"mfd", 0, [i \in 1..129 |-> "CD"]>>,
    <<"blink", "on">>, <<"shift", "off">>,
    <<"clock", "local", "24hr", "yymmdd">>, <<"clock", "gmt", "12hr", "ddmmyy">>,
    <<"offset", "1", 60, "24hr">>, <<"offset", "2", 60, "24hr">>, <<"offset", "3", 1441, "24hr">>,
    <<"time", 260, 30, "24hr">>, <<"date", 5, 4, 24, "mmddyy">>, <<"raw", 177, 128>> }

\* Of a text of 258 characters the tool passes on 258 % 256.
ShownTexts == {<<"AB", "CD", "AB">>, <<"AB">>, <<"CD">>}

Midnight == [hour |-> 0, minute |-> 0]
SomeTimes == {Midnight, [hour |-> 4, minute |-> 30]}
NoDay == [dd |-> 0, mm |-> 0, yy |-> 0]
SomeDates == {NoDay, [dd |-> 5, mm |-> 4, yy |-> 24]}

\* What the theorems about CommandLine assume of these.
ASSUME CommandLinesAssumption == ArgvsOK

-----------------------------------------------------------------------------
\* A part that is not the one under way stays in its first state, one of them.
MCInit ==
    /\ part \in {"reports", "texts", "cli", "signals"}
    /\ JInit
    /\ ConvertInit /\ (part # "texts" => text = <<>> /\ size = 1)
    /\ CLIInit /\ (part # "cli" => argv = <<>> /\ port = None)
    /\ MainInit

Reports == part = "reports" /\ JNext /\ UNCHANGED <<part, mvars, vars, cliVars, mainvars>>
Conversion == part = "texts" /\ ConvertNext /\ UNCHANGED <<part, jvars, vars, cliVars, mainvars>>
Tool == part = "cli" /\ CLINext /\ UNCHANGED <<part, jvars, mvars, mainvars>>
Signalling == part = "signals" /\ MainNext /\ UNCHANGED <<part, jvars, mvars, vars, cliVars>>

MCNext == Reports \/ Conversion \/ Tool \/ Signalling

\* The fairness of MainLoop's specification, of its part.
MCMain == part = "signals" /\ Main
MCDeliver(sig) == part = "signals" /\ \E t \in Threads : Deliver(t, sig)

MCSpec ==
    /\ MCInit /\ [][MCNext]_<<part, jvars, mvars, vars, cliVars, mainvars>>
    /\ WF_mainvars(MCMain)
    /\ \A sig \in Signals : WF_mainvars(MCDeliver(sig))
=============================================================================
