----------------------------- MODULE CommandLine -----------------------------
(***************************************************************************)
(* x52cli: a process that carries out one command on the joystick through  *)
(* libx52, whose context it creates, updates once and throws away.  Words  *)
(* are in lower case (the tool ignores case), a number is the int strtol   *)
(* made of it, and a text a sequence of pairs of characters.               *)
(***************************************************************************)
EXTENDS Libx52

CONSTANT Argvs      \* the command lines, without the name of the program

VARIABLES
    argv,
    stage,          \* where main() is
    calls,          \* the calls of libx52 the handler has still to make
    status          \* the exit status so far
cliVars == <<argv, stage, calls, status>>

-----------------------------------------------------------------------------
(* The commands and their arguments.                                       *)

LedIds == [fire |-> FIRE, a |-> 2, b |-> 4, d |-> 6, e |-> 8, t1 |-> 10, t2 |-> 12,
           t3 |-> 14, pov |-> 16, clutch |-> 18, throttle |-> THROTTLE]
LedStateOf == [off |-> "OFF", on |-> "ON", red |-> "RED", amber |-> "AMBER", green |-> "GREEN"]
DateFormatOf == [ddmmyy |-> "DDMMYY", mmddyy |-> "MMDDYY", yymmdd |-> "YYMMDD"]
Switch == [off |-> FALSE, on |-> TRUE]
ClockOf == [w \in {"1", "2", "3"} |-> CASE w = "1" -> 1 [] w = "2" -> 2 [] w = "3" -> 3]

\* For each argument of a command the words it may be, {} if it is not looked up.
Maps == [
    led    |-> <<DOMAIN LedIds, DOMAIN LedStateOf>>,
    bri    |-> <<{"mfd", "led"}, {}>>,
    mfd    |-> <<{}, {}>>,
    blink  |-> <<DOMAIN Switch>>,
    shift  |-> <<DOMAIN Switch>>,
    clock  |-> <<{"local", "gmt"}, Formats, DOMAIN DateFormatOf>>,
    offset |-> <<DOMAIN ClockOf, {}, Formats>>,
    time   |-> <<{}, {}, Formats>>,
    date   |-> <<{}, {}, {}, DOMAIN DateFormatOf>>,
    raw    |-> <<{}, {}>> ]

\* Further arguments are ignored.
Usable(line) ==
    /\ line # <<>> /\ line[1] \in DOMAIN Maps
    /\ Len(line) > Len(Maps[line[1]])
    /\ \A i \in DOMAIN Maps[line[1]] :
          Maps[line[1]][i] # {} => line[i + 1] \in Maps[line[1]][i]

Byte(n) == n % 256
Word(n) == n % 65536

\* The pairs of a text that its length, a byte, counts.
Counted(text) == SubSeq(text, 1, Byte(2 * Len(text)) \div 2)

\* Faulty: the format is asked for before the offset is known to be accepted.
UpdateOffset_FormatFirst(c, offset, fmt) ==
    <<<<"clock_format", c, fmt>>, <<"clock_timezone", c, offset>>>>
UpdateOffset(c, offset, fmt) ==
    <<<<"clock_timezone", c, offset>>, <<"clock_format", c, fmt>>>>

\* The calls the handler makes, one after the other.
Handler(line) ==
    CASE line[1] = "led"    -> <<<<"led_state", LedIds[line[2]], LedStateOf[line[3]]>>>>
      [] line[1] = "bri"    -> <<<<"brightness", line[2], Word(line[3])>>>>
      [] line[1] = "mfd"    -> <<<<"text", Byte(line[2]), Counted(line[3])>>>>
      [] line[1] = "blink"  -> <<<<"lamp", BLINK, Switch[line[2]]>>>>
      [] line[1] = "shift"  -> <<<<"lamp", SHIFT, Switch[line[2]]>>>>
      [] line[1] = "clock"  -> <<<<"clock", line[2]>>, <<"clock_format", 1, line[3]>>,
                                 <<"date_format", DateFormatOf[line[4]]>>>>
      [] line[1] = "offset" -> UpdateOffset(ClockOf[line[2]], line[3], line[4])
      [] line[1] = "time"   -> <<<<"time", [hour |-> Byte(line[2]), minute |-> Byte(line[3])]>>,
                                 <<"clock_format", 1, line[4]>>>>
      [] line[1] = "date"   -> <<<<"date", [dd |-> Byte(line[2]), mm |-> Byte(line[3]),
                                            yy |-> Byte(line[4])]>>,
                                 <<"date_format", DateFormatOf[line[5]]>>>>
      [] line[1] = "raw"    -> <<<<"raw">>>>

Call(c) ==
    \/ c[1] = "led_state" /\ SetLedState(c[2], c[3])
    \/ c[1] = "brightness" /\ c[2] = "mfd" /\ SetMfdBrightness(c[3])
    \/ c[1] = "brightness" /\ c[2] = "led" /\ SetLedBrightness(c[3])
    \/ c[1] = "text" /\ SetText(c[2], c[3])
    \/ c[1] = "lamp" /\ SetLamp(c[2], c[3])
    \/ c[1] = "clock" /\ \E d \in Dates \ {ZeroDate}, t \in Times,
                            tz \in (IF c[2] = "local" THEN LocalZones ELSE {0}) : SetClock(d, t, tz)
    \/ c[1] = "clock_timezone" /\ SetClockTimezone(c[2], c[3])
    \/ c[1] = "clock_format" /\ SetClockFormat(c[2], c[3])
    \/ c[1] = "time" /\ SetTime(c[2])
    \/ c[1] = "date" /\ SetDate(c[2])
    \/ c[1] = "date_format" /\ SetDateFormat(c[2])
    \/ c[1] = "raw" /\ \E b \in Slots : VendorCommand(b)

\* The words hold numbers and texts, and what the library gets of them is of the sets
\* that stand for all there are.
ArgvsOK ==
    \A line \in Argvs : Usable(line) =>
        /\ line[1] = "bri" => line[3] % 65536 \in Brightness
        /\ line[1] = "mfd" => line[3] \in Seq(Chunks) /\ Counted(line[3]) \in Texts
        /\ line[1] = "offset" => line[3] \in Offsets
        /\ line[1] = "time" => [hour |-> Byte(line[2]), minute |-> Byte(line[3])] \in Times
        /\ line[1] = "date" =>
              [dd |-> Byte(line[2]), mm |-> Byte(line[3]), yy |-> Byte(line[4])] \in Dates

-----------------------------------------------------------------------------
(* main().                                                                 *)

CLIInit ==
    /\ Init
    /\ argv \in Argvs
    /\ stage = "parse" /\ calls = <<>> /\ status = 0

Parse ==
    /\ stage = "parse"
    /\ \/ Usable(argv) /\ stage' = "init" /\ calls' = Handler(argv) /\ UNCHANGED status
       \/ ~Usable(argv) /\ stage' = "exited" /\ status' = 1 /\ UNCHANGED calls
    /\ UNCHANGED <<argv, vars>>

\* libx52_init connects, and does not mind if it cannot; it may fail itself.
InitLibrary ==
    /\ stage = "init"
    /\ \/ Connect /\ stage' = "connect" /\ UNCHANGED status
       \/ stage' = "exited" /\ status' = 1 /\ UNCHANGED vars
    /\ UNCHANGED <<argv, calls>>

ConnectJoystick ==
    /\ stage = "connect"
    /\ Connect
    /\ \/ rc' = "SUCCESS" /\ stage' = "handler" /\ UNCHANGED status
       \/ rc' # "SUCCESS" /\ stage' = "exited" /\ status' = 1
    /\ UNCHANGED <<argv, calls>>

\* Faulty: the last return value is the one that counts.
Refused_Overwritten == calls' = Tail(calls) /\ status' = IF rc' = "SUCCESS" THEN 0 ELSE 1

\* The first call refused is the last one made.
Refused == rc' # "SUCCESS" /\ calls' = <<>> /\ status' = 1

Handle ==
    /\ stage = "handler" /\ calls # <<>>
    /\ Call(Head(calls))
    /\ \/ rc' = "SUCCESS" /\ calls' = Tail(calls) /\ UNCHANGED status
       \/ Refused
    /\ UNCHANGED <<argv, stage>>

\* libx52_update is called whatever the handler returned, and its result is
\* not looked at.
Update ==
    \/ /\ stage = "handler" /\ calls = <<>>
       /\ UpdateStart
       /\ stage' = "update"
       /\ UNCHANGED <<argv, calls, status>>
    \/ stage = "update" /\ UpdateStep /\ UNCHANGED cliVars

Exit ==
    /\ stage = "update" /\ ~busy
    /\ Disconnect
    /\ stage' = "exited"
    /\ UNCHANGED <<argv, calls, status>>

CLINext ==
    \/ Parse \/ InitLibrary \/ ConnectJoystick \/ Handle \/ Update \/ Exit
    \/ stage # "exited" /\ Physical /\ UNCHANGED cliVars

CLISpec == CLIInit /\ [][CLINext]_<<vars, cliVars>>

-----------------------------------------------------------------------------
(* Properties.                                                             *)

\* main() is in one of its stages with a sequence of calls to make, and the context
\* it created is in range whatever the command line.
CLITypeOK ==
    /\ TypeOK
    /\ argv \in Argvs
    /\ stage \in {"parse", "init", "connect", "handler", "update", "exited"}
    /\ calls = [i \in 1..Len(calls) |-> calls[i]] /\ status \in 0..1

\* What a command line asks of the context, as its usage line says it.  Not a text of
\* 256 characters or more: its length is passed on as a byte, so that the line gets
\* fewer characters than it has room for, and the exit status is 0 all the same.
Wanted(line, f) ==
    CASE line[1] = "led" -> f.led_mask = Lit(LedIds[line[2]], LedStateOf[line[3]])
      [] line[1] = "bri" ->
            (IF line[2] = "mfd" THEN f.mfd_brightness ELSE f.led_brightness) = Word(line[3])
      [] line[1] = "mfd" ->
            line[2] \in Lines /\ Len(line[3]) < 128 => f.line[line[2]] = Stored(line[3])
      [] line[1] \in {"blink", "shift"} ->
            f.led_mask = IF line[2] = "on" THEN {IF line[1] = "blink" THEN BLINK ELSE SHIFT} ELSE {}
      [] line[1] = "clock" ->
            /\ f.date \in Dates \ {ZeroDate} /\ f.time \in Times
            /\ line[2] = "gmt" => f.timezone[1] = 0
            /\ f.time_format[1] = line[3] /\ f.date_format = DateFormatOf[line[4]]
      [] line[1] = "offset" ->
            f.timezone[ClockOf[line[2]]] = line[3] /\ f.time_format[ClockOf[line[2]]] = line[4]
      [] line[1] = "time" -> f.time.hour = Byte(line[2]) /\ f.time_format[1] = line[4]
      [] line[1] = "date" -> f.date.dd = Byte(line[2]) /\ f.date_format = DateFormatOf[line[5]]
      [] line[1] = "raw" -> TRUE

\* An exit status of 0 means that the library took all that the command line asks
\* for: no part of a command of several calls was refused and then forgotten.
ZeroMeansAccepted ==
    stage = "exited" /\ status = 0 => Usable(argv) /\ Wanted(argv, fields)

\* The parts of the joystick that show what a command line asks for.
AskedOf(line) ==
    CASE line[1] = "led" ->
            IF line[2] \in {"fire", "throttle"} THEN {LedIds[line[2]]}
                                               ELSE {LedIds[line[2]], LedIds[line[2]] + 1}
      [] line[1] = "bri" -> {IF line[2] = "mfd" THEN BRI_MFD ELSE BRI_LED}
      [] line[1] = "mfd" -> {LineBit(l) : l \in Lines \cap {line[2]}}
      [] line[1] = "blink" -> {BLINK}
      [] line[1] = "shift" -> {SHIFT}
      [] line[1] = "clock" -> {MFD_DATE, MFD_TIME}
      [] line[1] = "offset" -> {OffsBit(ClockOf[line[2]])}
      [] line[1] = "time" -> {MFD_TIME}
      [] line[1] = "date" -> {MFD_DATE}
      [] line[1] = "raw" -> {}

\* What was not refused is what the joystick shows once the update has succeeded,
\* all of it, however many transfers failed on the way and whatever it was that the
\* joystick showed before.  Not a line of the display, if a transfer that failed may
\* have reached the joystick: its characters may be there twice.
AcceptedIsShown ==
    stage = "update" /\ ~busy /\ rc = "SUCCESS" /\ hdl = "live" /\ status = 0 =>
        \A b \in AskedOf(argv) : (LostAcks => b \notin LineBits) => Shows(b)

\* A command that is refused leaves the joystick alone, although the update that
\* would write its first half is called all the same.
RefusedShowsNothing ==
    [][status = 1 /\ regs' # regs => port' # port]_<<vars, cliVars>>
=============================================================================
