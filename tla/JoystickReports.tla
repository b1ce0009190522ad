--------------------------- MODULE JoystickReports ---------------------------
(***************************************************************************)
(* Reports of a joystick on their way to programs: libx52io reads them     *)
(* through hidapi and decodes them into the report of the application, and *)
(* the HID drivers of kernel_module decode them into an input device.      *)
(* Joysticks of different models replace each other on the same bus.       *)
(***************************************************************************)
EXTENDS Integers, Sequences, FiniteSets, SequencesExt

CONSTANTS
    Positions,      \* the positions a joystick of each model may be brought to
    Neutral,        \* and the one it rests in
    NoModel         \* no joystick

X52 == "x52"
Pro == "x52pro"
X65 == "x65"        \* has a kernel driver only
Models == {X52, Pro, X65}

VARIABLES
    stick,          \* the joystick: its model, or NoModel, and its position
    unread,         \* reports hidapi holds for the handle, oldest first
    device,         \* the model of libx52io's open handle, or NoModel, and is it live?
    range,          \* axis_max of the context
    report,         \* the report structure of the application
    fresh,          \* is it the newest report of this joystick?
    inputdev        \* what the driver last told the kernel: axes and keys

jvars == <<stick, unread, device, range, report, fresh, inputdev>>

MaxUnread == 1      \* bound: the joystick waits for its reader

-----------------------------------------------------------------------------
(* A report is its length and the set of its bits that are 1, numbered     *)
(* from the lowest bit of the first byte.                                  *)

\* A value after each of width shifts to the right.
Shifted(value, width) ==
    LET v[j \in 0..width] == IF j = 0 THEN value ELSE v[j - 1] \div 2
    IN v

Ones(value, first, width) == {first + j : j \in {k \in 0..(width - 1) : Shifted(value, width)[k] % 2 = 1}}

\* The number that width bits make, read from the highest.
Field(bits, first, width) ==
    LET f[j \in 0..width] == IF j = 0 THEN 0
                             ELSE 2 * f[j - 1] + (IF first + width - j \in bits THEN 1 ELSE 0)
    IN f[width]

\* Where a joystick puts an axis: the layouts drawn in io_parser.c, which differ in the
\* width of X and Y and in where the hat and the thumb stick are, and in hid-saitek-x65.c.
At(first, width) == [first |-> first, width |-> width]
LayoutX52(width, hat) ==
    [X |-> At(0, width), Y |-> At(width, width), RZ |-> At(22, 10), Z |-> At(32, 8), RX |-> At(40, 8),
     RY |-> At(48, 8), SLIDER |-> At(56, 8), HAT |-> At(hat, 4), THUMBX |-> At(hat + 4, 4),
     THUMBY |-> At(hat + 8, 4)]
Layout ==
    [x52 |-> LayoutX52(11, 100), x52pro |-> LayoutX52(10, 108),
     x65 |-> [X |-> At(0, 12), Y |-> At(12, 12), RZ |-> At(24, 9), Z |-> At(33, 8),
              RX |-> At(41, 8), RY |-> At(49, 8), SLIDER |-> At(57, 8), HAT |-> At(115, 4),
              THUMBX |-> At(119, 4), THUMBY |-> At(123, 4)]]
FirstButton == [x52 |-> 64, x52pro |-> 64, x65 |-> 65]
Length == [x52 |-> 14, x52pro |-> 15, x65 |-> 16]
ButtonCount == [x52 |-> 34, x52pro |-> 39, x65 |-> 50]

\* A position: the value of each axis, the hat among them, and the buttons that are
\* pressed, numbered as the model reports them.
IsPosition(model, position) ==
    /\ DOMAIN position.axis = DOMAIN Layout[model]
    /\ \A a \in DOMAIN Layout[model] : position.axis[a] \in 0..(2^Layout[model][a].width - 1)
    /\ position.pressed \subseteq 0..(ButtonCount[model] - 1)

ASSUME PositionsAssumption ==
    /\ NoModel \notin Models
    /\ \A m \in Models : \A p \in Positions[m] \cup {Neutral[m]} : IsPosition(m, p)

Encode(model, position) ==
    [length |-> Length[model],
     bits |-> (UNION {Ones(position.axis[a], Layout[model][a].first, Layout[model][a].width) :
                         a \in DOMAIN Layout[model]})
              \cup {FirstButton[model] + i : i \in position.pressed}]

-----------------------------------------------------------------------------
(* libx52io                                                                *)

\* The 39 buttons, and in which order the models report them.
Common == <<"TRIGGER", "FIRE", "A", "B", "C", "PINKY", "D", "E", "T1_UP", "T1_DN",
            "T2_UP", "T2_DN", "T3_UP", "T3_DN", "TRIGGER_2">>
Povs == <<"POV_1_N", "POV_1_E", "POV_1_S", "POV_1_W", "POV_2_N", "POV_2_E", "POV_2_S", "POV_2_W">>
Modes == <<"MODE_1", "MODE_2", "MODE_3">>
X52Buttons ==
    Common \o Povs \o Modes
    \o <<"FUNCTION", "START_STOP", "RESET", "CLUTCH", "MOUSE_PRIMARY", "MOUSE_SECONDARY",
         "MOUSE_SCROLL_DN", "MOUSE_SCROLL_UP">>
ProButtons ==
    Common \o <<"MOUSE_PRIMARY", "MOUSE_SCROLL_DN", "MOUSE_SCROLL_UP", "MOUSE_SECONDARY">>
    \o Povs \o Modes
    \o <<"CLUTCH", "FUNCTION", "START_STOP", "RESET", "PG_UP", "PG_DN", "UP", "DN", "SELECT">>
ButtonMap(model) == IF model = X52 THEN X52Buttons ELSE ProButtons
Buttons == ToSet(ProButtons)

\* Faulty: the diagonals are counted the other way round.
HatToAxis_Mirrored ==
    << <<0, 0>>, <<0, -1>>, <<-1, -1>>, <<-1, 0>>, <<-1, 1>>, <<0, 1>>, <<1, 1>>, <<1, 0>>, <<1, -1>> >>
    \o [i \in 1..7 |-> <<0, 0>>]

HatToAxis ==
    << <<0, 0>>, <<0, -1>>, <<1, -1>>, <<1, 0>>, <<1, 1>>, <<0, 1>>, <<-1, 1>>, <<-1, 0>>, <<-1, -1>> >>
    \o [i \in 1..7 |-> <<0, 0>>]

\* X and Y, and the axes both models have alike: the thumb stick is in byte thumb, and
\* the hat before it.
MapAxis(bits, x, y, thumb) ==
    LET hat == Field(bits, 8 * (thumb - 1) + 4, 4) IN
    [X |-> x, Y |-> y, RZ |-> Field(bits, 22, 10), Z |-> Field(bits, 32, 8),
     RX |-> Field(bits, 40, 8), RY |-> Field(bits, 48, 8), SLIDER |-> Field(bits, 56, 8),
     THUMBX |-> Field(bits, 8 * thumb, 4), THUMBY |-> Field(bits, 8 * thumb + 4, 4),
     HATX |-> HatToAxis[hat + 1][1], HATY |-> HatToAxis[hat + 1][2]]

\* Faulty: without a mode button the mode is reset.
MapMode_Reset(button, mode) ==
    IF button["MODE_1"] THEN 1 ELSE IF button["MODE_2"] THEN 2 ELSE IF button["MODE_3"] THEN 3 ELSE 1

\* Between two modes no button reports, and the mode stays.
MapMode(button, mode) ==
    IF button["MODE_1"] THEN 1 ELSE IF button["MODE_2"] THEN 2 ELSE IF button["MODE_3"] THEN 3 ELSE mode

\* The buttons of the map are set or cleared; those the model lacks stay.
MapButtons(bits, map, old) ==
    [b \in Buttons |->
        IF b \in ToSet(map) THEN 63 + (CHOOSE i \in DOMAIN map : map[i] = b) \in bits
        ELSE old[b]]

Parsed(bits, model, x, y, thumb, old) ==
    LET button == MapButtons(bits, ButtonMap(model), old.button) IN
    [axis |-> MapAxis(bits, x, y, thumb), button |-> button, mode |-> MapMode(button, old.mode)]

\* A report of another length leaves the structure as it is.
ParseX52(r, old) ==
    IF r.length # 14 THEN old
    ELSE Parsed(r.bits, X52, Field(r.bits, 0, 11), Field(r.bits, 11, 11), 13, old)
ParseX52Pro(r, old) ==
    IF r.length # 15 THEN old
    ELSE Parsed(r.bits, Pro, Field(r.bits, 0, 10), Field(r.bits, 10, 10), 14, old)
ParseReport(model, r, old) == IF model = X52 THEN ParseX52(r, old) ELSE ParseX52Pro(r, old)

Axes == {"X", "Y", "RZ", "Z", "RX", "RY", "SLIDER", "THUMBX", "THUMBY", "HATX", "HATY"}
AxisMin == [a \in Axes |-> IF a \in {"HATX", "HATY"} THEN -1 ELSE 0]

\* Faulty: the range of the Pro for both models.
AxisMax_OneModel(model) ==
    [X |-> 1023, Y |-> 1023, RZ |-> 1023, Z |-> 255, RX |-> 255, RY |-> 255, SLIDER |-> 255,
     THUMBX |-> 15, THUMBY |-> 15, HATX |-> 1, HATY |-> 1]

AxisMax(model) ==
    [X |-> IF model = X52 THEN 2047 ELSE 1023, Y |-> IF model = X52 THEN 2047 ELSE 1023,
     RZ |-> 1023, Z |-> 255, RX |-> 255, RY |-> 255, SLIDER |-> 255,
     THUMBX |-> 15, THUMBY |-> 15, HATX |-> 1, HATY |-> 1]
NoRange == [a \in Axes |-> 0]
NoReport == [axis |-> NoRange, button |-> [b \in Buttons |-> FALSE], mode |-> 0]

-----------------------------------------------------------------------------
(* The HID drivers of kernel_module: keys are numbers, in the order of     *)
(* BTN_TRIGGER_HAPPY1 and up for the X52.                                  *)

Keys == <<"TRIGGER", "TRIGGER_2", "FIRE", "A", "B", "C", "D", "E", "PINKY",
          "T1_UP", "T1_DN", "T2_UP", "T2_DN", "T3_UP", "T3_DN", "CLUTCH",
          "MOUSE_PRIMARY", "MOUSE_SECONDARY", "MOUSE_SCROLL_DN", "MOUSE_SCROLL_UP">>
        \o Povs \o Modes
        \o <<"FUNCTION", "START_STOP", "RESET", "PG_UP", "PG_DN", "UP", "DN", "SELECT">>

UpTo(a, b) == [i \in 1..(b - a + 1) |-> a + i - 1]
KeyCommon == <<1, 3, 4, 5, 6, 9, 7, 8>> \o UpTo(10, 15) \o <<2>>

\* Faulty: the clutch where the X52 has it.
KeyMap_OneOrder(model) ==
    IF model = X52 THEN KeyCommon \o UpTo(21, 34) \o <<16, 17, 18, 19, 20>>
    ELSE KeyCommon \o <<17, 19, 20, 18>> \o UpTo(21, 34) \o <<16>> \o UpTo(35, 39)

KeyMap(model) ==
    IF model = X52 THEN KeyCommon \o UpTo(21, 34) \o <<16, 17, 18, 19, 20>>
    ELSE KeyCommon \o <<17, 19, 20, 18>> \o UpTo(21, 31) \o <<16>> \o UpTo(32, 39)

\* The throttle's axes are where they are for libx52io; the hat and the thumb stick
\* are counted from the end of the report.
DriverX52(model, r) ==
    LET stickBits == IF model = Pro THEN 10 ELSE 11
        map == KeyMap(model)
    IN [axis |-> MapAxis(r.bits, Field(r.bits, 0, stickBits), Field(r.bits, stickBits, stickBits),
                         r.length - 1),
        keys |-> {map[i] : i \in {j \in DOMAIN map : 63 + j \in r.bits}}]

\* Faulty: the buttons start at the byte.
DriverX65_Aligned(r) ==
    [axis |-> NoRange, keys |-> {i \in 0..49 : 64 + i \in r.bits}]

\* Four of its axes are read a bit too low and a bit too wide.
DriverX65(r) ==
    LET hat == Field(r.bits, 115, 4) IN
    [axis |-> [X |-> Field(r.bits, 0, 12), Y |-> Field(r.bits, 12, 12), RZ |-> Field(r.bits, 24, 9),
               Z |-> Field(r.bits, 32, 9), RX |-> Field(r.bits, 40, 9), RY |-> Field(r.bits, 48, 9),
               SLIDER |-> Field(r.bits, 56, 9),
               THUMBX |-> Field(r.bits, 119, 4), THUMBY |-> Field(r.bits, 123, 4),
               HATX |-> HatToAxis[hat + 1][1], HATY |-> HatToAxis[hat + 1][2]],
     keys |-> {i \in 0..49 : 65 + i \in r.bits}]

\* What the drivers announce: the maxima of the axes, and the keys there are; the
\* kernel drops events of other keys.
Configured(model) ==
    LET stickMax == IF model = X52 THEN 2047 ELSE IF model = Pro THEN 1023 ELSE 4095
    IN [max |-> [X |-> stickMax, Y |-> stickMax, RZ |-> IF model = X65 THEN 511 ELSE 1023,
                 Z |-> 255, RX |-> 255, RY |-> 255, SLIDER |-> 255,
                 THUMBX |-> 15, THUMBY |-> 15, HATX |-> 1, HATY |-> 1],
        keys |-> IF model = X65 THEN 0..49 ELSE IF model = Pro THEN 1..39 ELSE 1..34]

RawEvent(model, r, old) ==
    LET event == IF model = X65 THEN DriverX65(r)
                 ELSE IF r.length # (IF model = Pro THEN 15 ELSE 14) THEN old
                 ELSE DriverX52(model, r)
    IN [event EXCEPT !.keys = @ \cap Configured(model).keys]
NoInput == [axis |-> NoRange, keys |-> {}]

-----------------------------------------------------------------------------
NotOpen == [model |-> NoModel, live |-> FALSE]

JInit ==
    /\ stick = [model |-> NoModel] /\ inputdev = NoInput
    /\ unread = <<>> /\ device = NotOpen /\ range = NoRange
    /\ report = NoReport /\ fresh = FALSE

PlugIn(m) ==
    /\ stick.model = NoModel
    /\ stick' = [model |-> m, at |-> Neutral[m]]
    /\ inputdev' = NoInput
    /\ UNCHANGED <<unread, device, range, report, fresh>>

PullOut ==
    /\ stick.model # NoModel
    /\ stick' = [model |-> NoModel]
    /\ device' = [device EXCEPT !.live = FALSE]
    /\ fresh' = FALSE
    /\ UNCHANGED <<unread, range, report, inputdev>>

\* The user moves something, from the neutral position or back to it: the joystick
\* sends a report to the driver and to an open handle.
Move(p) ==
    /\ stick.model # NoModel /\ p # stick.at /\ Neutral[stick.model] \in {p, stick.at}
    /\ Len(unread) < MaxUnread
    /\ stick' = [stick EXCEPT !.at = p]
    /\ inputdev' = RawEvent(stick.model, Encode(stick.model, p), inputdev)
    /\ unread' = IF device.live THEN Append(unread, Encode(stick.model, p)) ELSE unread
    /\ fresh' = FALSE
    /\ UNCHANGED <<device, range, report>>

\* Which joysticks of the vendor are looked for.
IsX52(model) == model \in {X52, Pro}

\* libx52io_open closes what is open and looks for an X52; hidapi may fail to open it.
Open ==
    /\ unread' = <<>> /\ fresh' = FALSE
    /\ \/ /\ IsX52(stick.model)
          /\ device' = [model |-> stick.model, live |-> TRUE]
          /\ range' = AxisMax(stick.model)
       \/ device' = NotOpen /\ range' = NoRange
    /\ UNCHANGED <<stick, report, inputdev>>

\* libx52io_close
Close ==
    /\ device.model # NoModel
    /\ unread' = <<>> /\ fresh' = FALSE
    /\ device' = NotOpen /\ range' = NoRange
    /\ UNCHANGED <<stick, report, inputdev>>

\* libx52io_read_timeout with a report; without one it changes nothing.
Read ==
    /\ device.model # NoModel /\ unread # <<>>
    /\ report' = ParseReport(device.model, Head(unread), report)
    /\ unread' = Tail(unread)
    /\ fresh' = (device.live /\ Len(unread) = 1)
    /\ UNCHANGED <<stick, device, range, inputdev>>

JNext ==
    \/ \E m \in Models : PlugIn(m)
    \/ PullOut \/ Open \/ Close \/ Read
    \/ stick.model # NoModel /\ \E p \in Positions[stick.model] : Move(p)

JSpec == JInit /\ [][JNext]_jvars

-----------------------------------------------------------------------------
\* The variables have their types: no handle of libx52io is one of an X65, and a
\* report keeps all buttons whatever model it was read from.
JTypeOK ==
    /\ stick.model \in Models \cup {NoModel} /\ device.model \in {X52, Pro, NoModel}
    /\ Len(unread) <= MaxUnread /\ fresh \in BOOLEAN
    /\ range \in [Axes -> Int] /\ report.button \in [Buttons -> BOOLEAN] /\ report.mode \in 0..3

Compass(hat) == << IF hat \in 2..4 THEN 1 ELSE IF hat \in 6..8 THEN -1 ELSE 0,
                   IF hat \in 4..6 THEN 1 ELSE IF hat \in {1, 2, 8} THEN -1 ELSE 0 >>
ShowsPosition(axis, at, axes) ==
    /\ \A a \in axes \ {"HATX", "HATY"} : axis[a] = at.axis[a]
    /\ <<axis.HATX, axis.HATY>> = Compass(at.axis.HAT)

\* What the application has just read is where the joystick is: every axis and every
\* button its model has, whatever model was read before into the same structure
\* (io_parser.c).
ReportRight ==
    fresh => /\ ShowsPosition(report.axis, stick.at, Axes)
             /\ \A i \in 1..ButtonCount[stick.model] :
                    report.button[ButtonMap(stick.model)[i]] <=> (i - 1) \in stick.at.pressed

\* The kernel's driver and libx52io, written apart, call each button and each axis
\* the same (hid-saitek-x52.c, io_parser.c).
DriversAgree ==
    fresh => /\ report.axis = inputdev.axis
             /\ \A k \in 1..ButtonCount[stick.model] : report.button[Keys[k]] <=> k \in inputdev.keys

\* No axis leaves the range libx52io_get_axis_range gives for the joystick it was
\* read from, or the one the X52's driver announced, the spurious hat values included.
AxisInRange ==
    /\ fresh => \A a \in Axes : report.axis[a] \in AxisMin[a]..range[a]
    /\ stick.model \in {X52, Pro} =>
          \A a \in Axes : inputdev.axis[a] \in AxisMin[a]..Configured(stick.model).max[a]

\* The mode of a report changes to one whose button reports, and to nothing else:
\* not between two modes, nor when another joystick is read.
ModeKept ==
    [][report'.mode # report.mode => report'.button[Modes[report'.mode]]]_jvars

\* The driver of the X65 gives the buttons, the stick, the hat and the thumb stick as
\* the layout in its comment has them; not so the four throttle axes.
X65Decoded ==
    stick.model = X65 /\ inputdev # NoInput =>
        /\ ShowsPosition(inputdev.axis, stick.at, Axes \ {"Z", "RX", "RY", "SLIDER"})
        /\ inputdev.keys = stick.at.pressed
=============================================================================
