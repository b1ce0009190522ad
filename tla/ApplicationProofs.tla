-------------------------- MODULE ApplicationProofs --------------------------
(***************************************************************************)
(* Theorems about the two programs of the tree that use libx52.  The       *)
(* daemon's threads, DeviceManager, use it as Libx52 expects, and whatever *)
(* joystick is connected when they have come to rest has been sent every   *)
(* setting it has; for any settings, values, joysticks, and any number of  *)
(* unplugs, reloads and commands.  The command line tool, CommandLine,     *)
(* exits with 0 only if the library took all it was asked for, and writes  *)
(* nothing of a command that was refused, whatever the command line.       *)
(***************************************************************************)
EXTENDS DeviceManager, CommandLine, Libx52Proofs, Loops

-----------------------------------------------------------------------------
(* x52cli.                                                                 *)

FieldNames == {"led_mask", "mfd_brightness", "led_brightness", "line", "date_format", "date",
               "time", "timezone", "time_format"}

\* A context, whatever its fields hold: the tool passes on what it is given.
Shape(f) ==
    /\ DOMAIN f = FieldNames
    /\ DOMAIN f.line = Lines /\ DOMAIN f.timezone = Clocks /\ DOMAIN f.time_format = Clocks

LEMMA LitIs ==
    ASSUME NEW f, Shape(f), NEW v
    PROVE  Shape(WithLit(f, v)) /\ WithLit(f, v).led_mask = v
BY DEF Shape, FieldNames, WithLit

LEMMA TextIs ==
    ASSUME NEW f, Shape(f), NEW l \in Lines, NEW text
    PROVE  Shape(WithText(f, l, text)) /\ WithText(f, l, text).line[l] = text
BY DEF Shape, FieldNames, WithText

LEMMA BrightnessIs ==
    ASSUME NEW f, Shape(f), NEW v
    PROVE  /\ Shape(WithMfdBrightness(f, v)) /\ WithMfdBrightness(f, v).mfd_brightness = v
           /\ Shape(WithLedBrightness(f, v)) /\ WithLedBrightness(f, v).led_brightness = v
BY DEF Shape, FieldNames, WithMfdBrightness, WithLedBrightness

LEMMA ClockIs ==
    ASSUME NEW f, Shape(f), NEW d, NEW t, NEW tz, NEW g, g = WithClock(f, d, t, tz)
    PROVE  Shape(g) /\ g.date = d /\ g.time = t /\ g.timezone[1] = tz
BY DEF Shape, FieldNames, WithClock, Clocks

LEMMA ZoneIs ==
    ASSUME NEW f, Shape(f), NEW c \in Clocks, NEW offset, NEW g, g = WithZone(f, c, offset)
    PROVE  Shape(g) /\ g.timezone[c] = offset
BY DEF Shape, FieldNames, WithZone

LEMMA TimeIs ==
    ASSUME NEW f, Shape(f), NEW t, NEW g, g = WithTime(f, t)
    PROVE  Shape(g) /\ g.time = t
BY DEF Shape, FieldNames, WithTime

LEMMA DateIs ==
    ASSUME NEW f, Shape(f), NEW d, NEW g, g = WithDate(f, d)
    PROVE  Shape(g) /\ g.date = d
BY DEF Shape, FieldNames, WithDate

LEMMA FormatIs ==
    ASSUME NEW f, Shape(f), NEW c \in Clocks, NEW fmt, NEW g, g = WithFormat(f, c, fmt)
    PROVE  /\ Shape(g) /\ g.time_format[c] = fmt
           /\ g.date = f.date /\ g.time = f.time /\ g.timezone = f.timezone
BY DEF Shape, FieldNames, WithFormat

LEMMA DateFormatIs ==
    ASSUME NEW f, Shape(f), NEW fmt, NEW g, g = WithDateFormat(f, fmt)
    PROVE  /\ Shape(g) /\ g.date_format = fmt
           /\ g.date = f.date /\ g.time = f.time /\ g.timezone = f.timezone
           /\ g.time_format = f.time_format
BY DEF Shape, FieldNames, WithDateFormat

-----------------------------------------------------------------------------
(* The calls of a handler.                                                 *)

LEMMA TwoCalls ==
    ASSUME NEW a, NEW b
    PROVE  <<a, b>> # <<>> /\ Head(<<a, b>>) = a /\ Tail(<<a, b>>) = <<b>>
<1>1. <<a, b>> # <<>> /\ Head(<<a, b>>) = a
  OBVIOUS
<1>2. Tail(<<a, b>>) = <<b>>
  OBVIOUS
<1> QED
  BY <1>1, <1>2

LEMMA ThreeCalls ==
    ASSUME NEW a, NEW b, NEW c
    PROVE  <<a, b, c>> # <<>> /\ Head(<<a, b, c>>) = a /\ Tail(<<a, b, c>>) = <<b, c>>
<1>1. <<a, b, c>> # <<>> /\ Head(<<a, b, c>>) = a
  OBVIOUS
<1>2. Tail(<<a, b, c>>) = <<b, c>>
  OBVIOUS
<1> QED
  BY <1>1, <1>2

LEMMA Asked ==
    ASSUME NEW bits, NEW f, Request(bits, f)
    PROVE  fields' = f /\ rc' = "SUCCESS" /\ pending' = pending /\ busy' = busy
BY DEF Request, progress

LEMMA Declined ==
    ASSUME NEW code, Refuse(code)
    PROVE  /\ fields' = fields /\ rc' = code /\ update_mask' = update_mask
           /\ pending' = pending /\ busy' = busy
BY DEF Refuse, progress

LEMMA CallIs ==
    ASSUME NEW c, Call(c)
    PROVE  /\ c[1] = "led_state" => SetLedState(c[2], c[3])
           /\ c[1] = "brightness" => (c[2] = "mfd" /\ SetMfdBrightness(c[3])) \/ (c[2] = "led" /\ SetLedBrightness(c[3]))
           /\ c[1] = "text" => SetText(c[2], c[3])
           /\ c[1] = "lamp" => SetLamp(c[2], c[3])
           /\ c[1] = "clock" => \E d \in Dates \ {ZeroDate}, t \in Times,
                                   tz \in (IF c[2] = "local" THEN LocalZones ELSE {0}) : SetClock(d, t, tz)
           /\ c[1] = "clock_timezone" => SetClockTimezone(c[2], c[3])
           /\ c[1] = "clock_format" => SetClockFormat(c[2], c[3])
           /\ c[1] = "time" => SetTime(c[2])
           /\ c[1] = "date" => SetDate(c[2])
           /\ c[1] = "date_format" => SetDateFormat(c[2])
           /\ c[1] = "raw" => \E b \in Slots : VendorCommand(b)
BY DEF Call

LEMMA HandlerIs ==
    ASSUME NEW line
    PROVE  /\ line[1] = "led" => Handler(line) = <<<<"led_state", LedIds[line[2]], LedStateOf[line[3]]>>>>
           /\ line[1] = "bri" => Handler(line) = <<<<"brightness", line[2], Word(line[3])>>>>
           /\ line[1] = "mfd" => Handler(line) = <<<<"text", Byte(line[2]), Counted(line[3])>>>>
           /\ line[1] = "blink" => Handler(line) = <<<<"lamp", BLINK, Switch[line[2]]>>>>
           /\ line[1] = "shift" => Handler(line) = <<<<"lamp", SHIFT, Switch[line[2]]>>>>
           /\ line[1] = "clock" =>
                 Handler(line) = <<<<"clock", line[2]>>, <<"clock_format", 1, line[3]>>,
                                   <<"date_format", DateFormatOf[line[4]]>>>>
           /\ line[1] = "offset" =>
                 Handler(line) = <<<<"clock_timezone", ClockOf[line[2]], line[3]>>,
                                   <<"clock_format", ClockOf[line[2]], line[4]>>>>
           /\ line[1] = "time" =>
                 Handler(line) = <<<<"time", [hour |-> Byte(line[2]), minute |-> Byte(line[3])]>>,
                                   <<"clock_format", 1, line[4]>>>>
           /\ line[1] = "date" =>
                 Handler(line) = <<<<"date", [dd |-> Byte(line[2]), mm |-> Byte(line[3]), yy |-> Byte(line[4])]>>,
                                   <<"date_format", DateFormatOf[line[5]]>>>>
           /\ line[1] = "raw" => Handler(line) = <<<<"raw">>>>
BY DEF Handler, UpdateOffset

Commands10 == {"led", "bri", "mfd", "blink", "shift", "clock", "offset", "time", "date", "raw"}

LEMMA UsableIs ==
    ASSUME NEW line, Usable(line)
    PROVE  /\ line[1] \in Commands10
           /\ line[1] = "led" => line[2] \in DOMAIN LedIds /\ line[3] \in DOMAIN LedStateOf
           /\ line[1] = "bri" => line[2] \in {"mfd", "led"}
           /\ line[1] \in {"blink", "shift"} => line[2] \in {"off", "on"}
           /\ line[1] = "clock" =>
                 line[2] \in {"local", "gmt"} /\ line[3] \in Formats /\ line[4] \in DOMAIN DateFormatOf
           /\ line[1] = "offset" => line[2] \in {"1", "2", "3"} /\ line[4] \in Formats
           /\ line[1] = "time" => line[4] \in Formats
           /\ line[1] = "date" => line[5] \in DOMAIN DateFormatOf
<1> DEFINE k == line[1]
<1>1. k \in DOMAIN Maps /\ \A i \in DOMAIN Maps[k] : Maps[k][i] # {} => line[i + 1] \in Maps[k][i]
  BY DEF Usable
<1>2. DOMAIN Maps = Commands10
  BY DEF Maps, Commands10
<1>3. \A a : \A i \in DOMAIN Maps[k] : Maps[k][i] = a /\ a # {} => line[i + 1] \in a
  BY <1>1
<1> HIDE DEF k
<1>4. k = "led" => /\ 1 \in DOMAIN Maps[k] /\ Maps[k][1] = DOMAIN LedIds
                   /\ 2 \in DOMAIN Maps[k] /\ Maps[k][2] = DOMAIN LedStateOf
  BY DEF Maps
<1>5. k = "bri" => 1 \in DOMAIN Maps[k] /\ Maps[k][1] = {"mfd", "led"}
  BY DEF Maps
<1>6. k \in {"blink", "shift"} => 1 \in DOMAIN Maps[k] /\ Maps[k][1] = DOMAIN Switch
  BY DEF Maps
<1>7. k = "clock" => /\ 1 \in DOMAIN Maps[k] /\ Maps[k][1] = {"local", "gmt"}
                     /\ 2 \in DOMAIN Maps[k] /\ Maps[k][2] = Formats
                     /\ 3 \in DOMAIN Maps[k] /\ Maps[k][3] = DOMAIN DateFormatOf
  BY DEF Maps
<1>8. k = "offset" => /\ 1 \in DOMAIN Maps[k] /\ Maps[k][1] = DOMAIN ClockOf
                      /\ 3 \in DOMAIN Maps[k] /\ Maps[k][3] = Formats
  BY DEF Maps
<1>9. DOMAIN Switch = {"off", "on"} /\ DOMAIN ClockOf = {"1", "2", "3"}
  BY DEF Switch, ClockOf
<1>10. DOMAIN LedIds # {} /\ DOMAIN LedStateOf # {} /\ Formats # {} /\ DOMAIN DateFormatOf # {}
  BY DEF LedIds, LedStateOf, Formats, DateFormatOf
<1>11. 1 + 1 = 2 /\ 2 + 1 = 3 /\ 3 + 1 = 4 /\ 4 + 1 = 5
  OBVIOUS
<1>12. k = "led" => line[2] \in DOMAIN LedIds /\ line[3] \in DOMAIN LedStateOf
  BY <1>3, <1>4, <1>10, <1>11
<1>13. k = "bri" => line[2] \in {"mfd", "led"}
  BY <1>3, <1>5, <1>11
<1>14. k \in {"blink", "shift"} => line[2] \in {"off", "on"}
  BY <1>3, <1>6, <1>9, <1>11
<1>15. k = "clock" => line[2] \in {"local", "gmt"} /\ line[3] \in Formats /\ line[4] \in DOMAIN DateFormatOf
  BY <1>3, <1>7, <1>10, <1>11
<1>16. k = "offset" => line[2] \in {"1", "2", "3"} /\ line[4] \in Formats
  BY <1>3, <1>8, <1>9, <1>10, <1>11
<1>17. k = "time" => line[4] \in Formats
  <2>1. k = "time" => 3 \in DOMAIN Maps[k] /\ Maps[k][3] = Formats
    BY DEF Maps
  <2> QED
    BY <1>3, <1>10, <1>11, <2>1
<1>18. k = "date" => line[5] \in DOMAIN DateFormatOf
  <2>1. k = "date" => 4 \in DOMAIN Maps[k] /\ Maps[k][4] = DOMAIN DateFormatOf
    BY DEF Maps
  <2> QED
    BY <1>3, <1>10, <1>11, <2>1
<1> QED
  BY <1>1, <1>2, <1>12, <1>13, <1>14, <1>15, <1>16, <1>17, <1>18 DEF k

-----------------------------------------------------------------------------
(* What the calls made so far have done to the context, by what is left.   *)

Told(line, f) == f.date \in Dates \ {ZeroDate} /\ f.time \in Times /\ (line[2] = "gmt" => f.timezone[1] = 0)

Between(line, rest, f) ==
    \/ /\ line[1] = "clock" /\ Told(line, f)
       /\ rest = <<<<"clock_format", 1, line[3]>>, <<"date_format", DateFormatOf[line[4]]>>>>
    \/ /\ line[1] = "clock" /\ Told(line, f) /\ f.time_format[1] = line[3]
       /\ rest = <<<<"date_format", DateFormatOf[line[4]]>>>>
    \/ /\ line[1] = "offset" /\ line[2] \in {"1", "2", "3"} /\ f.timezone[ClockOf[line[2]]] = line[3]
       /\ rest = <<<<"clock_format", ClockOf[line[2]], line[4]>>>>
    \/ /\ line[1] = "time" /\ f.time.hour = Byte(line[2])
       /\ rest = <<<<"clock_format", 1, line[4]>>>>
    \/ /\ line[1] = "date" /\ f.date.dd = Byte(line[2])
       /\ rest = <<<<"date_format", DateFormatOf[line[5]]>>>>

Done(line, rest, f) == (rest = <<>> /\ Wanted(line, f)) \/ Between(line, rest, f)

\* Before the first call, and after it.
Fresh == Shape(fields) /\ fields.led_mask = {} /\ update_mask = {} /\ pending = {}
First(line) ==
    /\ Handler(line) # <<>> /\ Shape(fields') /\ pending' = {}
    /\ rc' = "SUCCESS" => Done(line, Tail(Handler(line)), fields')
    /\ rc' # "SUCCESS" => update_mask' = {}

\* It was refused, and nothing has changed.
LEMMA FirstRefused ==
    ASSUME Fresh, NEW line, Handler(line) # <<>>, NEW code, Refuse(code), code # "SUCCESS"
    PROVE  First(line)
<1>1. fields' = fields /\ rc' = code /\ update_mask' = update_mask /\ pending' = pending
  BY Declined
<1> QED
  BY <1>1 DEF First, Fresh

LEMMA WantedIs ==
    ASSUME NEW line, NEW f
    PROVE  /\ line[1] = "led" => (Wanted(line, f) <=> f.led_mask = Lit(LedIds[line[2]], LedStateOf[line[3]]))
           /\ line[1] = "bri" => (Wanted(line, f) <=>
                 (IF line[2] = "mfd" THEN f.mfd_brightness ELSE f.led_brightness) = Word(line[3]))
           /\ line[1] = "mfd" => (Wanted(line, f) <=>
                 (line[2] \in Lines /\ Len(line[3]) < 128 => f.line[line[2]] = Stored(line[3])))
           /\ line[1] \in {"blink", "shift"} => (Wanted(line, f) <=>
                 f.led_mask = IF line[2] = "on" THEN {IF line[1] = "blink" THEN BLINK ELSE SHIFT} ELSE {})
           /\ line[1] = "clock" => (Wanted(line, f) <=>
                 /\ f.date \in Dates \ {ZeroDate} /\ f.time \in Times
                 /\ line[2] = "gmt" => f.timezone[1] = 0
                 /\ f.time_format[1] = line[3] /\ f.date_format = DateFormatOf[line[4]])
           /\ line[1] = "offset" => (Wanted(line, f) <=>
                 f.timezone[ClockOf[line[2]]] = line[3] /\ f.time_format[ClockOf[line[2]]] = line[4])
           /\ line[1] = "time" => (Wanted(line, f) <=> f.time.hour = Byte(line[2]) /\ f.time_format[1] = line[4])
           /\ line[1] = "date" => (Wanted(line, f) <=> f.date.dd = Byte(line[2]) /\ f.date_format = DateFormatOf[line[5]])
           /\ line[1] = "raw" => Wanted(line, f)
BY DEF Wanted

LEMMA ClockNumber == \A w \in {"1", "2", "3"} : ClockOf[w] \in Clocks
<1>1. ClockOf["1"] = 1 /\ ClockOf["2"] = 2 /\ ClockOf["3"] = 3
  BY DEF ClockOf
<1> QED
  BY <1>1 DEF Clocks

LEMMA LedFirst ==
    ASSUME Fresh, NEW line, Usable(line), line[1] = "led", Call(Head(Handler(line)))
    PROVE  First(line)
<1> DEFINE id == LedIds[line[2]]
           state == LedStateOf[line[3]]
           c == <<"led_state", id, state>>
<1>1. Handler(line) = <<c>>
  BY HandlerIs
<1>2. c[1] = "led_state" /\ c[2] = id /\ c[3] = state
  OBVIOUS
<1> HIDE DEF c
<1>3. Handler(line) # <<>> /\ Head(Handler(line)) = c /\ Tail(Handler(line)) = <<>>
  BY <1>1, Single
<1>4. SetLedState(id, state)
  BY <1>2, <1>3, CallIs
<1> HIDE DEF id, state
<1>5. CASE Refuse("NOT_SUPPORTED")
  BY <1>3, <1>5, FirstRefused
<1>6. CASE Request(LedBits(id), WithLit(fields, (fields.led_mask \ LedBits(id)) \cup Lit(id, state)))
  <2>1. fields' = WithLit(fields, (fields.led_mask \ LedBits(id)) \cup Lit(id, state)) /\ rc' = "SUCCESS" /\ pending' = pending
    BY <1>6, Asked
  <2>2. (fields.led_mask \ LedBits(id)) \cup Lit(id, state) = Lit(id, state)
    BY DEF Fresh
  <2>3. Shape(fields') /\ fields'.led_mask = Lit(id, state)
    BY <2>1, <2>2, LitIs DEF Fresh
  <2>4. Wanted(line, fields')
    BY <2>3, WantedIs DEF id, state
  <2> QED
    BY <1>3, <2>1, <2>3, <2>4 DEF First, Done, Fresh
<1> QED
  BY <1>4, <1>5, <1>6 DEF SetLedState, WithLit

LEMMA BrightnessFirst ==
    ASSUME Fresh, NEW line, Usable(line), line[1] = "bri", Call(Head(Handler(line)))
    PROVE  First(line)
<1> DEFINE v == Word(line[3])
           c == <<"brightness", line[2], v>>
<1>1. Handler(line) = <<c>>
  BY HandlerIs
<1>2. c[1] = "brightness" /\ c[2] = line[2] /\ c[3] = v
  OBVIOUS
<1> HIDE DEF c
<1>3. Handler(line) # <<>> /\ Head(Handler(line)) = c /\ Tail(Handler(line)) = <<>>
  BY <1>1, Single
<1>4. (line[2] = "mfd" /\ SetMfdBrightness(v)) \/ (line[2] = "led" /\ SetLedBrightness(v))
  BY <1>2, <1>3, CallIs
<1> HIDE DEF v
<1>5. CASE line[2] = "mfd" /\ SetMfdBrightness(v)
  <2>1. fields' = WithMfdBrightness(fields, v) /\ rc' = "SUCCESS" /\ pending' = pending
    BY <1>5, Asked DEF SetMfdBrightness, WithMfdBrightness
  <2>2. Shape(fields') /\ fields'.mfd_brightness = v
    BY <2>1, BrightnessIs DEF Fresh
  <2>3. Wanted(line, fields')
    BY <1>5, <2>2, WantedIs DEF v
  <2> QED
    BY <1>3, <2>1, <2>2, <2>3 DEF First, Done, Fresh
<1>6. CASE line[2] = "led" /\ SetLedBrightness(v)
  <2>1. fields' = WithLedBrightness(fields, v) /\ rc' = "SUCCESS" /\ pending' = pending
    BY <1>6, Asked DEF SetLedBrightness, WithLedBrightness
  <2>2. Shape(fields') /\ fields'.led_brightness = v
    BY <2>1, BrightnessIs DEF Fresh
  <2>3. Wanted(line, fields')
    BY <1>6, <2>2, WantedIs DEF v
  <2> QED
    BY <1>3, <2>1, <2>2, <2>3 DEF First, Done, Fresh
<1> QED
  BY <1>4, <1>5, <1>6

\* A length that a byte holds counts the whole text.
LEMMA WholeCounted ==
    ASSUME NEW text \in Seq(Chunks), Len(text) < 128
    PROVE  Counted(text) = text
<1>1. Byte(2 * Len(text)) \div 2 = Len(text)
  <2>1. Len(text) \in Nat
    OBVIOUS
  <2>2. \A n \in Nat : n < 128 => ((2 * n) % 256) \div 2 = n
    OBVIOUS
  <2> QED
    BY <2>1, <2>2 DEF Byte
<1>2. SubSeq(text, 1, Len(text)) = text
  OBVIOUS
<1> QED
  BY <1>1, <1>2 DEF Counted

LEMMA TextFirst ==
    ASSUME Fresh, NEW line, Usable(line), line[1] = "mfd", line[3] \in Seq(Chunks),
           Call(Head(Handler(line)))
    PROVE  First(line)
<1> DEFINE l == Byte(line[2])
           text == Counted(line[3])
           c == <<"text", l, text>>
<1>1. Handler(line) = <<c>>
  BY HandlerIs
<1>2. c[1] = "text" /\ c[2] = l /\ c[3] = text
  OBVIOUS
<1> HIDE DEF c
<1>3. Handler(line) # <<>> /\ Head(Handler(line)) = c /\ Tail(Handler(line)) = <<>>
  BY <1>1, Single
<1>4. SetText(l, text)
  BY <1>2, <1>3, CallIs
<1>5. CASE Refuse("INVALID_PARAM")
  BY <1>3, <1>5, FirstRefused
<1>6. CASE l \in Lines
  <2> HIDE DEF l, text
  <2>1. fields' = WithText(fields, l, Stored(text)) /\ rc' = "SUCCESS" /\ pending' = pending
    BY <1>4, <1>6, Asked DEF SetText, WithText
  <2>2. Shape(fields') /\ fields'.line[l] = Stored(text)
    BY <1>6, <2>1, TextIs DEF Fresh
  <2>3. line[2] \in Lines => l = line[2]
    <3>1. \A n \in Lines : n % 256 = n
      BY DEF Lines
    <3> QED
      BY <3>1 DEF l, Byte
  <2>4. Len(line[3]) < 128 => text = line[3]
    BY WholeCounted DEF text
  <2>5. Wanted(line, fields')
    BY <2>2, <2>3, <2>4, WantedIs
  <2> QED
    BY <1>3, <2>1, <2>2, <2>5 DEF First, Done, Fresh
<1> QED
  BY <1>4, <1>5, <1>6 DEF SetText

LEMMA LampFirst ==
    ASSUME Fresh, NEW line, Usable(line), line[1] \in {"blink", "shift"}, Call(Head(Handler(line)))
    PROVE  First(line)
<1> DEFINE b == IF line[1] = "blink" THEN BLINK ELSE SHIFT
           on == Switch[line[2]]
           c == <<"lamp", b, on>>
<1>1. Handler(line) = <<c>>
  BY HandlerIs
<1>2. c[1] = "lamp" /\ c[2] = b /\ c[3] = on
  OBVIOUS
<1> HIDE DEF c
<1>3. Handler(line) # <<>> /\ Head(Handler(line)) = c /\ Tail(Handler(line)) = <<>>
  BY <1>1, Single
<1>4. SetLamp(b, on)
  BY <1>2, <1>3, CallIs
<1>5. line[2] \in {"off", "on"} /\ on \in BOOLEAN /\ (on <=> line[2] = "on")
  <2>1. line[2] = "off" \/ line[2] = "on"
    BY UsableIs
  <2>2. Switch["off"] = FALSE /\ Switch["on"] = TRUE
    BY DEF Switch
  <2>3. CASE line[2] = "off"
    BY <2>2, <2>3
  <2>4. CASE line[2] = "on"
    BY <2>2, <2>4
  <2> QED
    BY <2>1, <2>3, <2>4
<1> HIDE DEF b, on
<1> DEFINE lit == IF on THEN fields.led_mask \cup {b} ELSE fields.led_mask \ {b}
<1>6. fields' = WithLit(fields, lit) /\ rc' = "SUCCESS" /\ pending' = pending
  BY <1>4, Asked DEF SetLamp, WithLit
<1>7. lit = IF on THEN {b} ELSE {}
  BY DEF Fresh
<1>8. Shape(fields') /\ fields'.led_mask = lit
  <2> HIDE DEF lit
  <2> QED
    BY <1>6, LitIs DEF Fresh
<1> HIDE DEF lit
<1>9. Wanted(line, fields')
  <2>1. fields'.led_mask = IF line[2] = "on" THEN {b} ELSE {}
    BY <1>5, <1>7, <1>8
  <2> QED
    BY <2>1, WantedIs DEF b
<1> QED
  BY <1>3, <1>6, <1>8, <1>9 DEF First, Done, Fresh

LEMMA ClockFirst ==
    ASSUME Fresh, NEW line, Usable(line), line[1] = "clock", Call(Head(Handler(line)))
    PROVE  First(line)
<1> DEFINE c == <<"clock", line[2]>>
           c2 == <<"clock_format", 1, line[3]>>
           c3 == <<"date_format", DateFormatOf[line[4]]>>
<1>1. Handler(line) = <<c, c2, c3>>
  BY HandlerIs
<1>2. c[1] = "clock" /\ c[2] = line[2]
  OBVIOUS
<1> HIDE DEF c, c2, c3
<1>3. Handler(line) # <<>> /\ Head(Handler(line)) = c /\ Tail(Handler(line)) = <<c2, c3>>
  BY <1>1, ThreeCalls
<1>4. PICK d \in Dates \ {ZeroDate}, t \in Times, tz \in (IF line[2] = "local" THEN LocalZones ELSE {0}) :
        SetClock(d, t, tz)
  BY <1>2, <1>3, CallIs
<1>5. CASE Refuse("TRY_AGAIN")
  BY <1>3, <1>5, FirstRefused
<1>6. CASE Request(ClockNews(d, t, tz), WithClock(fields, d, t, tz))
  <2>1. fields' = WithClock(fields, d, t, tz) /\ rc' = "SUCCESS" /\ pending' = pending
    BY <1>6, Asked
  <2>2. Shape(fields') /\ fields'.date = d /\ fields'.time = t /\ fields'.timezone[1] = tz
    BY <2>1, ClockIs DEF Fresh
  <2>3. line[2] = "gmt" => tz = 0
    BY <1>4
  <2>4. Told(line, fields')
    BY <1>4, <2>2, <2>3 DEF Told
  <2>5. Between(line, <<c2, c3>>, fields')
    BY <2>4 DEF Between, c2, c3
  <2> QED
    BY <1>3, <2>1, <2>2, <2>5 DEF First, Done, Fresh
<1> QED
  BY <1>4, <1>5, <1>6 DEF SetClock, WithClock

LEMMA ZoneFirst ==
    ASSUME Fresh, NEW line, Usable(line), line[1] = "offset", Call(Head(Handler(line)))
    PROVE  First(line)
<1> DEFINE n == ClockOf[line[2]]
           c == <<"clock_timezone", n, line[3]>>
           c2 == <<"clock_format", n, line[4]>>
<1>1. Handler(line) = <<c, c2>>
  BY HandlerIs
<1>2. c[1] = "clock_timezone" /\ c[2] = n /\ c[3] = line[3]
  OBVIOUS
<1> HIDE DEF c, c2
<1>3. Handler(line) # <<>> /\ Head(Handler(line)) = c /\ Tail(Handler(line)) = <<c2>>
  BY <1>1, TwoCalls
<1>4. SetClockTimezone(n, line[3])
  BY <1>2, <1>3, CallIs
<1>5. line[2] \in {"1", "2", "3"} /\ n \in Clocks
  BY UsableIs, ClockNumber
<1> HIDE DEF n
<1>6. CASE Refuse("OUT_OF_RANGE") \/ Refuse("NOT_SUPPORTED")
  BY <1>3, <1>6, FirstRefused
<1>7. CASE Request({OffsBit(n)}, WithZone(fields, n, line[3]))
  <2>1. fields' = WithZone(fields, n, line[3]) /\ rc' = "SUCCESS" /\ pending' = pending
    BY <1>7, Asked
  <2>2. Shape(fields') /\ fields'.timezone[n] = line[3]
    BY <1>5, <2>1, ZoneIs DEF Fresh
  <2>3. Between(line, <<c2>>, fields')
    BY <1>5, <2>2 DEF Between, c2, n
  <2> QED
    BY <1>3, <2>1, <2>2, <2>3 DEF First, Done, Fresh
<1> QED
  BY <1>4, <1>6, <1>7 DEF SetClockTimezone, WithZone

LEMMA TimeFirst ==
    ASSUME Fresh, NEW line, Usable(line), line[1] = "time", Call(Head(Handler(line)))
    PROVE  First(line)
<1> DEFINE t == [hour |-> Byte(line[2]), minute |-> Byte(line[3])]
           c == <<"time", t>>
           c2 == <<"clock_format", 1, line[4]>>
<1>1. Handler(line) = <<c, c2>>
  BY HandlerIs
<1>2. c[1] = "time" /\ c[2] = t
  OBVIOUS
<1> HIDE DEF c, c2
<1>3. Handler(line) # <<>> /\ Head(Handler(line)) = c /\ Tail(Handler(line)) = <<c2>>
  BY <1>1, TwoCalls
<1>4. SetTime(t)
  BY <1>2, <1>3, CallIs
<1>5. t.hour = Byte(line[2])
  OBVIOUS
<1> HIDE DEF t
<1>6. fields' = WithTime(fields, t) /\ rc' = "SUCCESS" /\ pending' = pending
  BY <1>4, Asked DEF SetTime, WithTime
<1>7. Shape(fields') /\ fields'.time = t
  BY <1>6, TimeIs DEF Fresh
<1>8. Between(line, <<c2>>, fields')
  BY <1>5, <1>7 DEF Between, c2
<1> QED
  BY <1>3, <1>6, <1>7, <1>8 DEF First, Done, Fresh

LEMMA DateFirst ==
    ASSUME Fresh, NEW line, Usable(line), line[1] = "date", Call(Head(Handler(line)))
    PROVE  First(line)
<1> DEFINE d == [dd |-> Byte(line[2]), mm |-> Byte(line[3]), yy |-> Byte(line[4])]
           c == <<"date", d>>
           c2 == <<"date_format", DateFormatOf[line[5]]>>
<1>1. Handler(line) = <<c, c2>>
  BY HandlerIs
<1>2. c[1] = "date" /\ c[2] = d
  OBVIOUS
<1> HIDE DEF c, c2
<1>3. Handler(line) # <<>> /\ Head(Handler(line)) = c /\ Tail(Handler(line)) = <<c2>>
  BY <1>1, TwoCalls
<1>4. SetDate(d)
  BY <1>2, <1>3, CallIs
<1>5. d.dd = Byte(line[2])
  OBVIOUS
<1> HIDE DEF d
<1>6. fields' = WithDate(fields, d) /\ rc' = "SUCCESS" /\ pending' = pending
  BY <1>4, Asked DEF SetDate, WithDate
<1>7. Shape(fields') /\ fields'.date = d
  BY <1>6, DateIs DEF Fresh
<1>8. Between(line, <<c2>>, fields')
  BY <1>5, <1>7 DEF Between, c2
<1> QED
  BY <1>3, <1>6, <1>7, <1>8 DEF First, Done, Fresh

LEMMA RawFirst ==
    ASSUME Fresh, NEW line, Usable(line), line[1] = "raw", Call(Head(Handler(line)))
    PROVE  First(line)
<1> DEFINE c == <<"raw">>
<1>1. Handler(line) = <<c>>
  BY HandlerIs
<1>2. c[1] = "raw"
  OBVIOUS
<1> HIDE DEF c
<1>3. Handler(line) # <<>> /\ Head(Handler(line)) = c /\ Tail(Handler(line)) = <<>>
  BY <1>1, Single
<1>4. PICK b \in Slots : VendorCommand(b)
  BY <1>2, <1>3, CallIs
<1>5. fields' = fields /\ update_mask' = update_mask /\ pending' = pending
  BY <1>4 DEF VendorCommand, Refuse, progress
<1>6. Wanted(line, fields')
  BY WantedIs
<1> QED
  BY <1>3, <1>5, <1>6 DEF First, Done, Fresh

LEMMA InSets ==
    ASSUME ArgvsOK, NEW line \in Argvs, Usable(line)
    PROVE  /\ line[1] = "bri" => Word(line[3]) \in Brightness
           /\ line[1] = "mfd" => line[3] \in Seq(Chunks) /\ Counted(line[3]) \in Texts
           /\ line[1] = "offset" => line[3] \in Offsets
           /\ line[1] = "time" => [hour |-> Byte(line[2]), minute |-> Byte(line[3])] \in Times
           /\ line[1] = "date" =>
                 [dd |-> Byte(line[2]), mm |-> Byte(line[3]), yy |-> Byte(line[4])] \in Dates
BY DEF ArgvsOK, Word

\* Whatever the command, its first call is made, or refused before it did anything.
LEMMA FirstCall ==
    ASSUME ArgvsOK, NEW line \in Argvs, Usable(line), Fresh, Call(Head(Handler(line)))
    PROVE  First(line)
<1>1. line[1] \in Commands10
  BY UsableIs
<1>2. line[1] = "mfd" => line[3] \in Seq(Chunks)
  BY InSets
<1> QED
  BY <1>1, <1>2, LedFirst, BrightnessFirst, TextFirst, LampFirst, ClockFirst, ZoneFirst, TimeFirst,
     DateFirst, RawFirst DEF Commands10


\* The later calls set a format, which the library does not refuse.
LEMMA FormatCall ==
    ASSUME Shape(fields), NEW n \in Clocks, NEW fmt, NEW c, c = <<"clock_format", n, fmt>>, Call(c)
    PROVE  /\ rc' = "SUCCESS" /\ pending' = pending
           /\ Shape(fields') /\ fields'.time_format[n] = fmt
           /\ fields'.date = fields.date /\ fields'.time = fields.time
           /\ fields'.timezone = fields.timezone
<1>1. c[1] = "clock_format" /\ c[2] = n /\ c[3] = fmt
  OBVIOUS
<1>2. SetClockFormat(n, fmt)
  BY <1>1, CallIs
<1>3. fields' = WithFormat(fields, n, fmt) /\ rc' = "SUCCESS" /\ pending' = pending
  BY <1>2, Asked DEF SetClockFormat, WithFormat
<1> QED
  BY <1>3, FormatIs

LEMMA DateFormatCall ==
    ASSUME Shape(fields), NEW fmt, NEW c, c = <<"date_format", fmt>>, Call(c)
    PROVE  /\ rc' = "SUCCESS" /\ pending' = pending
           /\ Shape(fields') /\ fields'.date_format = fmt
           /\ fields'.date = fields.date /\ fields'.time = fields.time
           /\ fields'.timezone = fields.timezone /\ fields'.time_format = fields.time_format
<1>1. c[1] = "date_format" /\ c[2] = fmt
  OBVIOUS
<1>2. SetDateFormat(fmt)
  BY <1>1, CallIs
<1>3. fields' = WithDateFormat(fields, fmt) /\ rc' = "SUCCESS" /\ pending' = pending
  BY <1>2, Asked DEF SetDateFormat, WithDateFormat
<1> QED
  BY <1>3, DateFormatIs

LEMMA LaterCall ==
    ASSUME NEW line, NEW rest, Between(line, rest, fields), Shape(fields), pending = {},
           Call(Head(rest))
    PROVE  /\ rest # <<>> /\ rc' = "SUCCESS" /\ Shape(fields') /\ pending' = {}
           /\ Done(line, Tail(rest), fields')
<1> DEFINE a == <<"clock_format", 1, line[3]>>
           b == <<"date_format", DateFormatOf[line[4]]>>
           z == <<"clock_format", ClockOf[line[2]], line[4]>>
           t == <<"clock_format", 1, line[4]>>
           d == <<"date_format", DateFormatOf[line[5]]>>
<1>1. 1 \in Clocks
  BY DEF Clocks
<1>2. CASE line[1] = "clock" /\ Told(line, fields) /\ rest = <<a, b>>
  <2>1. rest # <<>> /\ Head(rest) = a /\ Tail(rest) = <<b>>
    <3> HIDE DEF a, b
    <3> QED
      BY <1>2, TwoCalls
  <2>2. /\ rc' = "SUCCESS" /\ pending' = pending
        /\ Shape(fields') /\ fields'.time_format[1] = line[3]
        /\ fields'.date = fields.date /\ fields'.time = fields.time /\ fields'.timezone = fields.timezone
    BY <1>1, <2>1, FormatCall
  <2>3. Told(line, fields')
    BY <1>2, <2>2 DEF Told
  <2>4. Between(line, <<b>>, fields')
    BY <1>2, <2>2, <2>3 DEF Between
  <2> QED
    BY <2>1, <2>2, <2>4 DEF Done
<1>3. CASE line[1] = "clock" /\ Told(line, fields) /\ fields.time_format[1] = line[3] /\ rest = <<b>>
  <2>1. rest # <<>> /\ Head(rest) = b /\ Tail(rest) = <<>>
    <3> HIDE DEF b
    <3> QED
      BY <1>3, Single
  <2>2. /\ rc' = "SUCCESS" /\ pending' = pending
        /\ Shape(fields') /\ fields'.date_format = DateFormatOf[line[4]]
        /\ fields'.date = fields.date /\ fields'.time = fields.time
        /\ fields'.timezone = fields.timezone /\ fields'.time_format = fields.time_format
    BY <2>1, DateFormatCall
  <2>3. Wanted(line, fields')
    BY <1>3, <2>2, WantedIs DEF Told
  <2> QED
    BY <2>1, <2>2, <2>3 DEF Done
<1>4. CASE /\ line[1] = "offset" /\ line[2] \in {"1", "2", "3"}
           /\ fields.timezone[ClockOf[line[2]]] = line[3] /\ rest = <<z>>
  <2>1. rest # <<>> /\ Head(rest) = z /\ Tail(rest) = <<>>
    <3> HIDE DEF z
    <3> QED
      BY <1>4, Single
  <2>2. ClockOf[line[2]] \in Clocks
    BY <1>4, ClockNumber
  <2>3. /\ rc' = "SUCCESS" /\ pending' = pending
        /\ Shape(fields') /\ fields'.time_format[ClockOf[line[2]]] = line[4]
        /\ fields'.timezone = fields.timezone
    BY <2>1, <2>2, FormatCall
  <2>4. Wanted(line, fields')
    BY <1>4, <2>3, WantedIs
  <2> QED
    BY <2>1, <2>3, <2>4 DEF Done
<1>5. CASE line[1] = "time" /\ fields.time.hour = Byte(line[2]) /\ rest = <<t>>
  <2>1. rest # <<>> /\ Head(rest) = t /\ Tail(rest) = <<>>
    <3> HIDE DEF t
    <3> QED
      BY <1>5, Single
  <2>2. /\ rc' = "SUCCESS" /\ pending' = pending
        /\ Shape(fields') /\ fields'.time_format[1] = line[4] /\ fields'.time = fields.time
    BY <1>1, <2>1, FormatCall
  <2>3. Wanted(line, fields')
    BY <1>5, <2>2, WantedIs
  <2> QED
    BY <2>1, <2>2, <2>3 DEF Done
<1>6. CASE line[1] = "date" /\ fields.date.dd = Byte(line[2]) /\ rest = <<d>>
  <2>1. rest # <<>> /\ Head(rest) = d /\ Tail(rest) = <<>>
    <3> HIDE DEF d
    <3> QED
      BY <1>6, Single
  <2>2. /\ rc' = "SUCCESS" /\ pending' = pending
        /\ Shape(fields') /\ fields'.date_format = DateFormatOf[line[5]] /\ fields'.date = fields.date
    BY <2>1, DateFormatCall
  <2>3. Wanted(line, fields')
    BY <1>6, <2>2, WantedIs
  <2> QED
    BY <2>1, <2>2, <2>3 DEF Done
<1> QED
  BY <1>2, <1>3, <1>4, <1>5, <1>6 DEF Between

-----------------------------------------------------------------------------
(* The inductive invariant: by where main() is, how far the command has    *)
(* come, and that one refused has nothing marked for the update.           *)

Handling ==
    \/ status = 0 /\ calls = Handler(argv) /\ Fresh
    \/ status = 0 /\ Done(argv, calls, fields) /\ Shape(fields) /\ pending = {}
    \/ status = 1 /\ calls = <<>> /\ update_mask = {} /\ pending = {}

Updating ==
    /\ status = 0 => Wanted(argv, fields)
    /\ status = 1 => update_mask = {} /\ pending = {}

CLIInv ==
    /\ argv \in Argvs
    /\ status \in {0, 1}
    /\ stage \in {"parse", "init", "connect", "handler", "update", "exited"}
    /\ stage = "parse" => status = 0 /\ Fresh
    /\ stage \in {"init", "connect"} => Usable(argv) /\ calls = Handler(argv) /\ status = 0 /\ Fresh
    /\ stage = "handler" => Usable(argv) /\ Handling
    /\ stage = "update" => Usable(argv) /\ Updating
    /\ stage = "exited" /\ status = 0 => Usable(argv) /\ Wanted(argv, fields)

LEMMA CLIInitially == CLIInit => CLIInv
<1> SUFFICES ASSUME CLIInit PROVE CLIInv
  OBVIOUS
<1>1. Shape(fields)
  BY DEF CLIInit, Init, Shape, FieldNames
<1>2. fields.led_mask = {} /\ update_mask = {} /\ pending = {}
  BY DEF CLIInit, Init
<1> QED
  BY <1>1, <1>2 DEF CLIInit, CLIInv, Fresh

LEMMA ParseStep == CLIInv /\ Parse => CLIInv'
<1> SUFFICES ASSUME CLIInv, Parse PROVE CLIInv'
  OBVIOUS
<1>1. argv' = argv /\ fields' = fields /\ update_mask' = update_mask /\ pending' = pending
  BY DEF Parse, vars, progress
<1>2. stage = "parse" /\ Fresh /\ status = 0
  BY DEF Parse, CLIInv
<1>3. Fresh'
  BY <1>1, <1>2 DEF Fresh
<1>4. CASE Usable(argv) /\ stage' = "init" /\ calls' = Handler(argv) /\ UNCHANGED status
  BY <1>1, <1>2, <1>3, <1>4 DEF CLIInv
<1>5. CASE ~Usable(argv) /\ stage' = "exited" /\ status' = 1
  BY <1>1, <1>5 DEF CLIInv
<1> QED
  BY <1>4, <1>5 DEF Parse

LEMMA ConnectLeaves ==
    ASSUME Connect
    PROVE  fields' = fields /\ update_mask' = update_mask /\ pending' = pending /\ regs' = regs
BY DEF Connect, ConnectSucceeds, ConnectFails, progress, world

LEMMA InitLibraryStep == CLIInv /\ InitLibrary => CLIInv'
<1> SUFFICES ASSUME CLIInv, InitLibrary PROVE CLIInv'
  OBVIOUS
<1>1. stage = "init" /\ argv' = argv /\ calls' = calls
  BY DEF InitLibrary
<1>2. CASE Connect /\ stage' = "connect" /\ UNCHANGED status
  <2>1. Fresh'
    BY <1>1, <1>2, ConnectLeaves DEF Fresh, CLIInv
  <2> QED
    BY <1>1, <1>2, <2>1 DEF CLIInv
<1>3. CASE stage' = "exited" /\ status' = 1
  BY <1>1, <1>3 DEF CLIInv
<1> QED
  BY <1>2, <1>3 DEF InitLibrary

LEMMA ConnectJoystickStep == CLIInv /\ ConnectJoystick => CLIInv'
<1> SUFFICES ASSUME CLIInv, ConnectJoystick PROVE CLIInv'
  OBVIOUS
<1>1. stage = "connect" /\ argv' = argv /\ calls' = calls /\ Connect
  BY DEF ConnectJoystick
<1>2. CASE stage' = "handler" /\ UNCHANGED status
  <2>1. Fresh'
    BY <1>1, ConnectLeaves DEF Fresh, CLIInv
  <2>2. Handling'
    BY <1>1, <1>2, <2>1 DEF Handling, CLIInv
  <2> QED
    BY <1>1, <1>2, <2>2 DEF CLIInv
<1>3. CASE stage' = "exited" /\ status' = 1
  BY <1>1, <1>3 DEF CLIInv
<1> QED
  BY <1>2, <1>3 DEF ConnectJoystick

LEMMA HandleStep == ArgvsOK /\ CLIInv /\ Handle => CLIInv'
<1> SUFFICES ASSUME ArgvsOK, CLIInv, Handle PROVE CLIInv'
  OBVIOUS
<1>1. stage = "handler" /\ calls # <<>> /\ Call(Head(calls)) /\ argv' = argv /\ stage' = stage
  BY DEF Handle
<1>2. argv \in Argvs /\ Usable(argv) /\ Handling
  BY <1>1 DEF CLIInv
<1>3. /\ Shape(fields') \/ rc' # "SUCCESS"
      /\ pending' = {} /\ status = 0
      /\ rc' = "SUCCESS" => Done(argv, Tail(calls), fields')
      /\ rc' # "SUCCESS" => update_mask' = {}
  <2>1. CASE status = 0 /\ calls = Handler(argv) /\ Fresh
    <3>1. First(argv)
      BY <1>1, <1>2, <2>1, FirstCall
    <3> QED
      BY <2>1, <3>1 DEF First
  <2>2. CASE status = 0 /\ Done(argv, calls, fields) /\ Shape(fields) /\ pending = {}
    <3>1. Between(argv, calls, fields)
      BY <1>1, <2>2 DEF Done
    <3> QED
      BY <1>1, <2>2, <3>1, LaterCall
  <2> QED
    BY <1>1, <1>2, <2>1, <2>2 DEF Handling
<1>4. CASE rc' = "SUCCESS" /\ calls' = Tail(calls) /\ UNCHANGED status
  <2>1. Done(argv', calls', fields')
    BY <1>1, <1>3, <1>4
  <2>2. Handling'
    BY <1>3, <1>4, <2>1 DEF Handling
  <2> QED
    BY <1>1, <1>2, <1>3, <1>4, <2>2 DEF CLIInv
<1>5. CASE Refused
  <2>1. status' = 1 /\ calls' = <<>> /\ update_mask' = {} /\ pending' = {}
    BY <1>3, <1>5 DEF Refused
  <2>2. Handling'
    BY <2>1 DEF Handling
  <2> QED
    BY <1>1, <1>2, <2>1, <2>2 DEF CLIInv
<1> QED
  BY <1>4, <1>5 DEF Handle

\* The update does not change the fields, and an update of nothing writes nothing.
LEMMA UpdateLeaves ==
    ASSUME UpdateStart \/ UpdateStep
    PROVE  /\ fields' = fields
           /\ update_mask = {} /\ pending = {} =>
                 update_mask' = {} /\ pending' = {} /\ regs' = regs
<1>1. CASE UpdateStart
  BY <1>1 DEF UpdateStart, Refuse, progress, world
<1>2. CASE UpdateDone
  BY <1>2 DEF UpdateDone, world
<1>3. CASE \E b \in Slots : TransferSucceeds(b) \/ TransferRetried(b) \/ TransferGivenUp(b)
  <2>1. PICK b \in Slots : TransferSucceeds(b) \/ TransferRetried(b) \/ TransferGivenUp(b)
    BY <1>3
  <2>2. pending # {}
    BY <2>1 DEF TransferSucceeds, TransferRetried, TransferGivenUp, Current
  <2> QED
    BY <2>1, <2>2 DEF TransferSucceeds, TransferRetried, TransferGivenUp
<1> QED
  BY <1>1, <1>2, <1>3 DEF UpdateStep

LEMMA HandledAll ==
    ASSUME NEW line \in Argvs, Usable(line), NEW f, Done(line, <<>>, f)
    PROVE  Wanted(line, f)
<1>1. \A a, b : <<a>> # <<>> /\ <<a, b>> # <<>>
  BY Single, TwoCalls
<1> QED
  BY <1>1 DEF Done, Between

LEMMA SomeCall == ASSUME NEW line, Usable(line) PROVE Handler(line) # <<>>
<1>1. \A a, b, c : <<a>> # <<>> /\ <<a, b>> # <<>> /\ <<a, b, c>> # <<>>
  BY Single, TwoCalls, ThreeCalls
<1>2. line[1] \in Commands10
  BY UsableIs
<1> QED
  BY <1>1, <1>2, HandlerIs DEF Commands10

LEMMA UpdatingStep == CLIInv /\ Update => CLIInv'
<1> SUFFICES ASSUME CLIInv, Update PROVE CLIInv'
  OBVIOUS
<1>1. argv' = argv /\ status' = status /\ stage' = "update" /\ (UpdateStart \/ UpdateStep)
  BY DEF Update, cliVars
<1>2. Usable(argv) /\ Updating
  <2>1. CASE stage = "handler" /\ calls = <<>>
    <3>1. Usable(argv) /\ Handling /\ argv \in Argvs
      BY <2>1 DEF CLIInv
    <3>2. calls # Handler(argv)
      BY <2>1, <3>1, SomeCall
    <3>3. status = 0 => Wanted(argv, fields)
      BY <2>1, <3>1, <3>2, HandledAll DEF Handling
    <3> QED
      BY <3>1, <3>2, <3>3 DEF Handling, Updating
  <2>2. CASE stage = "update"
    BY <2>2 DEF CLIInv
  <2> QED
    BY <2>1, <2>2 DEF Update
<1>3. Updating'
  BY <1>1, <1>2, UpdateLeaves DEF Updating
<1> QED
  BY <1>1, <1>2, <1>3 DEF CLIInv

LEMMA ExitStep == CLIInv /\ Exit => CLIInv'
<1> SUFFICES ASSUME CLIInv, Exit PROVE CLIInv'
  OBVIOUS
<1>1. /\ stage = "update" /\ stage' = "exited" /\ argv' = argv /\ status' = status
      /\ fields' = fields
  BY DEF Exit, Disconnect
<1> QED
  BY <1>1 DEF CLIInv, Updating

LEMMA ElsewhereStep ==
    CLIInv /\ ((Physical /\ UNCHANGED cliVars) \/ UNCHANGED <<vars, cliVars>>) => CLIInv'
<1> SUFFICES ASSUME CLIInv, (Physical /\ UNCHANGED cliVars) \/ UNCHANGED <<vars, cliVars>>
             PROVE  CLIInv'
  OBVIOUS
<1>1. fields' = fields /\ update_mask' = update_mask /\ pending' = pending
  BY DEF Physical, Unplug, Plug, progress, vars
<1>2. argv' = argv /\ stage' = stage /\ calls' = calls /\ status' = status
  BY DEF cliVars
<1>3. (Fresh <=> Fresh') /\ (Handling => Handling') /\ (Updating => Updating')
  BY <1>1, <1>2 DEF Fresh, Handling, Updating
<1> QED
  BY <1>1, <1>2, <1>3 DEF CLIInv

LEMMA CLIInductive == ArgvsOK /\ CLIInv /\ [CLINext]_<<vars, cliVars>> => CLIInv'
<1> SUFFICES ASSUME ArgvsOK, CLIInv, [CLINext]_<<vars, cliVars>> PROVE CLIInv'
  OBVIOUS
<1> QED
  BY ParseStep, InitLibraryStep, ConnectJoystickStep, HandleStep, UpdatingStep, ExitStep,
     ElsewhereStep DEF CLINext

\* An exit status of 0 means that the library took all that the command line
\* asks for, whatever is plugged in and out meanwhile: main() of x52_cli.c and
\* its handlers forget no refusal.
THEOREM ZeroExit == ASSUME ArgvsOK PROVE CLISpec => []ZeroMeansAccepted
<1>1. CLIInit => CLIInv
  BY CLIInitially
<1>2. CLIInv /\ [CLINext]_<<vars, cliVars>> => CLIInv'
  BY CLIInductive
<1>3. CLIInv => ZeroMeansAccepted
  BY DEF CLIInv, ZeroMeansAccepted
<1> QED
  BY <1>1, <1>2, <1>3, PTL DEF CLISpec

\* The update that x52_cli.c makes after a command was refused writes nothing to
\* the joystick.
THEOREM NothingShown == ASSUME ArgvsOK PROVE CLISpec => RefusedShowsNothing
<1>1. CLIInit => CLIInv
  BY CLIInitially
<1>2. CLIInv /\ [CLINext]_<<vars, cliVars>> => CLIInv'
  BY CLIInductive
<1>3. CLIInv /\ [CLINext]_<<vars, cliVars>> =>
        [status = 1 /\ regs' # regs => port' # port]_<<vars, cliVars>>
  <2> SUFFICES ASSUME CLIInv, CLINext, status = 1, regs' # regs PROVE port' # port
    OBVIOUS
  <2>1. stage \notin {"parse", "init", "connect"} /\ (stage = "handler" => calls = <<>>)
    BY DEF CLIInv, Handling
  <2>2. ~Parse /\ ~InitLibrary /\ ~ConnectJoystick /\ ~Handle
    BY <2>1 DEF Parse, InitLibrary, ConnectJoystick, Handle
  <2>3. ~Exit
    BY DEF Exit, Disconnect, world
  <2>4. ~Update
    <3> SUFFICES ASSUME Update PROVE FALSE
      OBVIOUS
    <3>1. stage \in {"handler", "update"} /\ (UpdateStart \/ UpdateStep)
      BY DEF Update
    <3>2. update_mask = {} /\ pending = {}
      BY <3>1 DEF CLIInv, Handling, Updating
    <3> QED
      BY <3>1, <3>2, UpdateLeaves
  <2>5. Physical
    BY <2>2, <2>3, <2>4 DEF CLINext
  <2>6. ~Unplug
    BY DEF Unplug
  <2>7. PICK p \in Products : Plug(p)
    BY <2>5, <2>6 DEF Physical
  <2> QED
    BY <2>7, ConstantsAssumption DEF Plug
<1> QED
  BY <1>1, <1>2, <1>3, PTL DEF CLISpec, RefusedShowsNothing

-----------------------------------------------------------------------------
(* The tool uses the library as Libx52 has an application do.               *)

\* What a call passes is what the setter takes.
Takes(c) ==
    /\ c[1] = "led_state" => c[2] \in SingleLeds \cup ColourLeds /\ c[3] \in LedStates
    /\ c[1] = "brightness" => c[3] \in Brightness
    /\ c[1] = "text" => c[3] \in Texts
    /\ c[1] = "lamp" => c[2] \in {SHIFT, BLINK} /\ c[3] \in BOOLEAN
    /\ c[1] = "clock_timezone" => c[2] \in Clocks /\ c[3] \in Offsets
    /\ c[1] = "clock_format" => c[2] \in Clocks /\ c[3] \in Formats
    /\ c[1] = "time" => c[2] \in Times
    /\ c[1] = "date" => c[2] \in Dates
    /\ c[1] = "date_format" => c[2] \in DateFormats

\* The calls of a handler are a sequence of such, and so is what is left of it.
Taken(S) == \A c \in S : Takes(c)
AllTaken(s) == \E S : s \in Seq(S) /\ Taken(S)

LEMMA OneTaken == ASSUME NEW a, Takes(a) PROVE AllTaken(<<a>>)
<1>1. <<a>> \in Seq({a})
  OBVIOUS
<1>2. Taken({a})
  BY DEF Taken
<1> QED
  BY <1>1, <1>2 DEF AllTaken

LEMMA TwoTaken == ASSUME NEW a, NEW b, Takes(a), Takes(b) PROVE AllTaken(<<a, b>>)
<1>1. <<a, b>> \in Seq({a, b})
  OBVIOUS
<1>2. Taken({a, b})
  BY DEF Taken
<1> QED
  BY <1>1, <1>2 DEF AllTaken

LEMMA ThreeTaken ==
    ASSUME NEW a, NEW b, NEW c, Takes(a), Takes(b), Takes(c) PROVE AllTaken(<<a, b, c>>)
<1>1. <<a, b, c>> \in Seq({a, b, c})
  OBVIOUS
<1>2. Taken({a, b, c})
  BY DEF Taken
<1> QED
  BY <1>1, <1>2 DEF AllTaken

\* What the words of a command stand for, the library knows.
LEMMA WordsMean ==
    /\ \A w \in DOMAIN LedIds : LedIds[w] \in SingleLeds \cup ColourLeds
    /\ \A w \in DOMAIN LedStateOf : LedStateOf[w] \in LedStates
    /\ \A w \in DOMAIN DateFormatOf : DateFormatOf[w] \in DateFormats
    /\ \A w \in {"off", "on"} : Switch[w] \in BOOLEAN
<1>1. \A w \in DOMAIN LedIds : LedIds[w] \in {1, 2, 4, 6, 8, 10, 12, 14, 16, 18, 20}
  BY DEF LedIds, FIRE, THROTTLE
<1>2. {2, 4, 6, 8, 10, 12, 14, 16, 18} \subseteq ColourLeds
  <2>1. \A n \in {2, 4, 6, 8, 10, 12, 14, 16, 18} : n = 2 * (n \div 2) /\ n \div 2 \in 1..9
    OBVIOUS
  <2> QED
    BY <2>1 DEF ColourLeds
<1>3. {1, 20} \subseteq SingleLeds
  BY DEF SingleLeds, FIRE, THROTTLE
<1>4. \A w \in DOMAIN LedIds : LedIds[w] \in SingleLeds \cup ColourLeds
  BY <1>1, <1>2, <1>3
<1>5. \A w \in DOMAIN LedStateOf : LedStateOf[w] \in LedStates
  BY DEF LedStateOf, LedStates
<1>6. \A w \in DOMAIN DateFormatOf : DateFormatOf[w] \in DateFormats
  BY DEF DateFormatOf, DateFormats
<1>7. \A w \in {"off", "on"} : Switch[w] \in BOOLEAN
  <2>1. Switch["off"] = FALSE /\ Switch["on"] = TRUE
    BY DEF Switch
  <2> QED
    BY <2>1
<1> QED
  BY <1>4, <1>5, <1>6, <1>7

LEMMA HandlerTaken ==
    ASSUME ArgvsOK, NEW line \in Argvs, Usable(line) PROVE AllTaken(Handler(line))
<1>1. line[1] \in Commands10 /\ 1 \in Clocks
  BY UsableIs DEF Clocks
<1>2. ASSUME line[1] = "led" PROVE AllTaken(Handler(line))
  <2>1. Takes(<<"led_state", LedIds[line[2]], LedStateOf[line[3]]>>)
    BY <1>2, UsableIs, WordsMean DEF Takes
  <2> QED
    BY <1>2, <2>1, HandlerIs, OneTaken
<1>3. ASSUME line[1] = "bri" PROVE AllTaken(Handler(line))
  <2>1. Takes(<<"brightness", line[2], Word(line[3])>>)
    BY <1>3, InSets DEF Takes
  <2> QED
    BY <1>3, <2>1, HandlerIs, OneTaken
<1>4. ASSUME line[1] = "mfd" PROVE AllTaken(Handler(line))
  <2>1. Takes(<<"text", Byte(line[2]), Counted(line[3])>>)
    BY <1>4, InSets DEF Takes
  <2> QED
    BY <1>4, <2>1, HandlerIs, OneTaken
<1>5. ASSUME line[1] = "blink" PROVE AllTaken(Handler(line))
  <2>1. Takes(<<"lamp", BLINK, Switch[line[2]]>>)
    BY <1>5, UsableIs, WordsMean DEF Takes
  <2> QED
    BY <1>5, <2>1, HandlerIs, OneTaken
<1>6. ASSUME line[1] = "shift" PROVE AllTaken(Handler(line))
  <2>1. Takes(<<"lamp", SHIFT, Switch[line[2]]>>)
    BY <1>6, UsableIs, WordsMean DEF Takes
  <2> QED
    BY <1>6, <2>1, HandlerIs, OneTaken
<1>7. ASSUME line[1] = "clock" PROVE AllTaken(Handler(line))
  <2>1. Takes(<<"clock", line[2]>>)
    BY DEF Takes
  <2>2. Takes(<<"clock_format", 1, line[3]>>)
    BY <1>1, <1>7, UsableIs DEF Takes
  <2>3. Takes(<<"date_format", DateFormatOf[line[4]]>>)
    BY <1>7, UsableIs, WordsMean DEF Takes
  <2> QED
    BY <1>7, <2>1, <2>2, <2>3, HandlerIs, ThreeTaken
<1>8. ASSUME line[1] = "offset" PROVE AllTaken(Handler(line))
  <2>1. ClockOf[line[2]] \in Clocks /\ line[4] \in Formats /\ line[3] \in Offsets
    BY <1>8, UsableIs, ClockNumber, InSets
  <2>2. Takes(<<"clock_timezone", ClockOf[line[2]], line[3]>>)
    BY <2>1 DEF Takes
  <2>3. Takes(<<"clock_format", ClockOf[line[2]], line[4]>>)
    BY <2>1 DEF Takes
  <2> QED
    BY <1>8, <2>2, <2>3, HandlerIs, TwoTaken
<1>9. ASSUME line[1] = "time" PROVE AllTaken(Handler(line))
  <2>1. Takes(<<"time", [hour |-> Byte(line[2]), minute |-> Byte(line[3])]>>)
    BY <1>9, InSets DEF Takes
  <2>2. Takes(<<"clock_format", 1, line[4]>>)
    BY <1>1, <1>9, UsableIs DEF Takes
  <2> QED
    BY <1>9, <2>1, <2>2, HandlerIs, TwoTaken
<1>10. ASSUME line[1] = "date" PROVE AllTaken(Handler(line))
  <2>1. Takes(<<"date", [dd |-> Byte(line[2]), mm |-> Byte(line[3]), yy |-> Byte(line[4])]>>)
    BY <1>10, InSets DEF Takes
  <2>2. Takes(<<"date_format", DateFormatOf[line[5]]>>)
    BY <1>10, UsableIs, WordsMean DEF Takes
  <2> QED
    BY <1>10, <2>1, <2>2, HandlerIs, TwoTaken
<1>11. ASSUME line[1] = "raw" PROVE AllTaken(Handler(line))
  <2>1. Takes(<<"raw">>)
    BY DEF Takes
  <2> QED
    BY <1>11, <2>1, HandlerIs, OneTaken
<1> QED
  BY <1>1, <1>2, <1>3, <1>4, <1>5, <1>6, <1>7, <1>8, <1>9, <1>10, <1>11 DEF Commands10

\* Such a call is one of those an application makes.
LEMMA CallAllowed == ASSUME NEW c, Takes(c), Call(c) PROVE Requests
<1>1. c[1] = "led_state" /\ SetLedState(c[2], c[3]) => Setters
  BY DEF Takes, Setters
<1>2. c[1] = "brightness" /\ (SetMfdBrightness(c[3]) \/ SetLedBrightness(c[3])) => Setters
  BY DEF Takes, Setters
<1>3. c[1] = "text" /\ SetText(c[2], c[3]) => Setters
  <2> SUFFICES ASSUME c[1] = "text", SetText(c[2], c[3]) PROVE Setters
    OBVIOUS
  <2>1. CASE c[2] \in Lines
    BY <2>1 DEF Takes, Setters
  <2>2. CASE c[2] \notin Lines
    <3>1. 3 \notin Lines
      BY DEF Lines
    <3>2. SetText(3, c[3])
      BY <2>2, <3>1 DEF SetText
    <3> QED
      BY <3>2 DEF Takes, Setters
  <2> QED
    BY <2>1, <2>2
<1>4. c[1] = "lamp" /\ SetLamp(c[2], c[3]) => Setters
  BY DEF Takes, Setters
<1>5. c[1] = "clock" /\ (\E d \in Dates \ {ZeroDate}, t \in Times,
                            tz \in (IF c[2] = "local" THEN LocalZones ELSE {0}) : SetClock(d, t, tz)) => Setters
  <2>1. (IF c[2] = "local" THEN LocalZones ELSE {0}) \subseteq LocalZones
    BY ConstantsAssumption
  <2> QED
    BY <2>1 DEF Setters
<1>6. c[1] = "clock_timezone" /\ SetClockTimezone(c[2], c[3]) => Setters
  BY DEF Takes, Setters
<1>7. c[1] = "clock_format" /\ SetClockFormat(c[2], c[3]) => Setters
  BY DEF Takes, Setters
<1>8. c[1] = "time" /\ SetTime(c[2]) => Setters
  BY DEF Takes, Setters
<1>9. c[1] = "date" /\ SetDate(c[2]) => Setters
  BY DEF Takes, Setters
<1>10. c[1] = "date_format" /\ SetDateFormat(c[2]) => Setters
  BY DEF Takes, Setters
<1>11. c[1] = "raw" /\ (\E b \in Slots : VendorCommand(b)) => Requests
  BY DEF Requests
<1> QED
  BY <1>1, <1>2, <1>3, <1>4, <1>5, <1>6, <1>7, <1>8, <1>9, <1>10, <1>11 DEF Call, Requests

\* The calls left are taken, and no update is under way but in the stage of its name.
ToolOK == AllTaken(calls) /\ (stage # "update" => busy = FALSE)

LEMMA NoneTaken == AllTaken(<<>>)
<1>1. <<>> \in Seq({}) /\ Taken({})
  BY DEF Taken
<1> QED
  BY <1>1 DEF AllTaken

LEMMA TailTaken ==
    ASSUME NEW s, AllTaken(s), s # <<>> PROVE AllTaken(Tail(s)) /\ Takes(Head(s))
<1>1. PICK S : s \in Seq(S) /\ Taken(S)
  BY DEF AllTaken
<1>2. Tail(s) \in Seq(S) /\ Head(s) \in S
  BY <1>1
<1>3. AllTaken(Tail(s))
  BY <1>1, <1>2 DEF AllTaken
<1>4. Takes(Head(s))
  BY <1>1, <1>2 DEF Taken
<1> QED
  BY <1>3, <1>4

LEMMA StaysIdle ==
    ASSUME Connect \/ Disconnect \/ Requests \/ Physical \/ UNCHANGED vars
    PROVE  busy' = busy
BY DEF Connect, ConnectSucceeds, ConnectFails, Disconnect, Requests, Setters, SetText, SetLedState,
     SetMfdBrightness, SetLedBrightness, SetLamp, SetDate, SetTime, SetDateFormat, SetClock,
     SetClockTimezone, SetClockFormat, Request, Refuse, VendorCommand, Physical, Unplug, Plug,
     progress, vars

LEMMA ToolStep ==
    ASSUME ArgvsOK, CLIInv, ToolOK, CLINext \/ UNCHANGED <<vars, cliVars>>
    PROVE  ToolOK' /\ [Next]_vars
<1>1. CASE Parse
  <2>1. AllTaken(calls')
    BY <1>1, HandlerTaken DEF Parse, CLIInv, ToolOK
  <2>2. busy' = busy /\ UNCHANGED vars /\ stage # "update"
    BY <1>1 DEF Parse, vars, progress
  <2> QED
    BY <2>1, <2>2 DEF ToolOK
<1>2. CASE InitLibrary \/ ConnectJoystick
  <2>1. (Connect \/ UNCHANGED vars) /\ stage # "update" /\ calls' = calls
    BY <1>2 DEF InitLibrary, ConnectJoystick
  <2>2. busy = FALSE /\ busy' = FALSE
    BY <2>1, StaysIdle DEF ToolOK
  <2> QED
    BY <2>1, <2>2 DEF ToolOK, Next, Calls
<1>3. CASE Handle
  <2>1. stage = "handler" /\ calls # <<>> /\ Call(Head(calls)) /\ stage' = stage
        /\ (calls' = Tail(calls) \/ calls' = <<>>)
    BY <1>3 DEF Handle, Refused
  <2>2. AllTaken(Tail(calls)) /\ Takes(Head(calls)) /\ busy = FALSE
    BY <2>1, TailTaken DEF ToolOK
  <2>3. Requests
    BY <2>1, <2>2, CallAllowed
  <2>4. busy' = busy
    BY <2>3, StaysIdle
  <2>5. AllTaken(calls')
    BY <2>1, <2>2, NoneTaken
  <2> QED
    BY <2>2, <2>3, <2>4, <2>5 DEF ToolOK, Next
<1>4. CASE Update
  <2>1. calls' = calls /\ stage' = "update"
        /\ ((stage = "handler" /\ UpdateStart) \/ UpdateStep)
    BY <1>4 DEF Update, cliVars
  <2> QED
    BY <2>1 DEF ToolOK, Next, Calls
<1>5. CASE Exit
  <2>1. calls' = calls /\ ~busy /\ Disconnect
    BY <1>5 DEF Exit
  <2>2. busy' = busy
    BY <2>1, StaysIdle
  <2>3. busy' = FALSE
    BY <1>5, <2>2 DEF Exit
  <2> QED
    BY <2>1, <2>3 DEF ToolOK, Next, Calls
<1>6. CASE (Physical /\ UNCHANGED cliVars) \/ UNCHANGED <<vars, cliVars>>
  <2>1. calls' = calls /\ stage' = stage /\ (Physical \/ UNCHANGED vars)
    BY <1>6 DEF cliVars
  <2>2. busy' = busy
    BY <2>1, StaysIdle
  <2> QED
    BY <2>1, <2>2 DEF ToolOK, Next
<1> QED
  BY <1>1, <1>2, <1>3, <1>4, <1>5, <1>6 DEF CLINext

\* x52cli is an application of the library: whatever the command line, it calls
\* what there is with arguments there are, and nothing while an update is under way.
THEOREM ToolUsesLibrary == ASSUME ArgvsOK PROVE CLISpec => Spec
<1>1. CLIInit => Init /\ CLIInv /\ ToolOK
  BY CLIInitially, NoneTaken DEF CLIInit, Init, ToolOK
<1>2. CLIInv /\ ToolOK /\ [CLINext]_<<vars, cliVars>> => CLIInv' /\ ToolOK' /\ [Next]_vars
  BY CLIInductive, ToolStep
<1> QED
  BY <1>1, <1>2, PTL DEF CLISpec, Spec

\* So its variables have their types, with those of the library: main() is in one
\* of its stages, has a sequence of calls to make, and what the words said has
\* been brought into the range of each field.
THEOREM ToolTyped == ASSUME ArgvsOK PROVE CLISpec => []CLITypeOK
<1>1. CLIInit => CLIInv /\ ToolOK
  BY CLIInitially, NoneTaken DEF CLIInit, Init, ToolOK
<1>2. CLIInv /\ ToolOK /\ [CLINext]_<<vars, cliVars>> => CLIInv' /\ ToolOK'
  BY CLIInductive, ToolStep
<1>3. TypeOK /\ CLIInv /\ ToolOK => CLITypeOK
  <2> SUFFICES ASSUME TypeOK, CLIInv, ToolOK PROVE CLITypeOK
    OBVIOUS
  <2>1. PICK S : calls \in Seq(S)
    BY DEF ToolOK, AllTaken
  <2>2. calls = [i \in 1..Len(calls) |-> calls[i]]
    BY <2>1
  <2> QED
    BY <2>2 DEF CLIInv, CLITypeOK
<1> QED
  BY <1>1, <1>2, <1>3, ToolUsesLibrary, TypeCorrect, PTL DEF CLISpec

-----------------------------------------------------------------------------
(* What was asked for is requested of the joystick, and the update shows it. *)

\* What a call requests once it has succeeded; and a sequence of calls.
CallMarks(c) ==
    CASE c[1] = "led_state" -> LedBits(c[2])
      [] c[1] = "brightness" -> {IF c[2] = "mfd" THEN BRI_MFD ELSE BRI_LED}
      [] c[1] = "text" -> {LineBit(l) : l \in Lines \cap {c[2]}}
      [] c[1] = "lamp" -> {c[2]}
      [] c[1] = "clock_timezone" -> {OffsBit(c[2])}
      [] c[1] = "clock_format" -> {OffsBit(c[2])}
      [] c[1] = "time" -> {MFD_TIME}
      [] c[1] = "date" -> {MFD_DATE}
      [] c[1] = "date_format" -> {MFD_DATE}
      [] OTHER -> {}
ToCome(s) == {b \in Bits : \E i \in 1..Len(s) : b \in CallMarks(s[i])}

LEMMA MarksIs ==
    ASSUME NEW c
    PROVE  /\ c[1] = "led_state" => CallMarks(c) = LedBits(c[2])
           /\ c[1] = "brightness" => CallMarks(c) = {IF c[2] = "mfd" THEN BRI_MFD ELSE BRI_LED}
           /\ c[1] = "text" => CallMarks(c) = {LineBit(l) : l \in Lines \cap {c[2]}}
           /\ c[1] = "lamp" => CallMarks(c) = {c[2]}
           /\ c[1] = "clock" => CallMarks(c) = {}
           /\ c[1] = "clock_timezone" => CallMarks(c) = {OffsBit(c[2])}
           /\ c[1] = "clock_format" => CallMarks(c) = {OffsBit(c[2])}
           /\ c[1] = "time" => CallMarks(c) = {MFD_TIME}
           /\ c[1] = "date" => CallMarks(c) = {MFD_DATE}
           /\ c[1] = "date_format" => CallMarks(c) = {MFD_DATE}
           /\ c[1] = "raw" => CallMarks(c) = {}
BY DEF CallMarks

\* A call of a setter that succeeds requests that, and takes nothing back.
LEMMA CallRequests ==
    ASSUME NEW c, Takes(c), Call(c), c[1] # "raw", rc' = "SUCCESS"
    PROVE  requested \subseteq requested' /\ CallMarks(c) \subseteq requested'
<1>1. ASSUME NEW bits, NEW f, Request(bits, f) PROVE requested' = requested \cup bits
  BY <1>1 DEF Request
<1>2. ASSUME NEW code, Refuse(code) PROVE code = "SUCCESS"
  BY <1>2 DEF Refuse
<1>3. ASSUME c[1] = "led_state", SetLedState(c[2], c[3])
      PROVE  requested' = requested \cup LedBits(c[2])
  BY <1>1, <1>2, <1>3 DEF SetLedState
<1>4. ASSUME c[1] = "brightness", (c[2] = "mfd" /\ SetMfdBrightness(c[3])) \/ (c[2] = "led" /\ SetLedBrightness(c[3]))
      PROVE  requested' = requested \cup {IF c[2] = "mfd" THEN BRI_MFD ELSE BRI_LED}
  BY <1>1, <1>4 DEF SetMfdBrightness, SetLedBrightness
<1>5. ASSUME c[1] = "text", SetText(c[2], c[3])
      PROVE  requested' = requested \cup {LineBit(l) : l \in Lines \cap {c[2]}}
  <2>1. c[2] \in Lines /\ requested' = requested \cup {LineBit(c[2])}
    BY <1>1, <1>2, <1>5 DEF SetText
  <2>2. {LineBit(l) : l \in Lines \cap {c[2]}} = {LineBit(c[2])}
    BY <2>1
  <2> QED
    BY <2>1, <2>2
<1>6. ASSUME c[1] = "lamp", SetLamp(c[2], c[3]) PROVE requested' = requested \cup {c[2]}
  BY <1>1, <1>6 DEF SetLamp
<1>7. ASSUME NEW d, NEW t, NEW tz, SetClock(d, t, tz) PROVE requested \subseteq requested'
  BY <1>1, <1>2, <1>7 DEF SetClock
<1>8. ASSUME c[1] = "clock_timezone", SetClockTimezone(c[2], c[3])
      PROVE  requested' = requested \cup {OffsBit(c[2])}
  BY <1>1, <1>2, <1>8 DEF SetClockTimezone
<1>9. ASSUME c[1] = "clock_format", SetClockFormat(c[2], c[3])
      PROVE  requested' = requested \cup {OffsBit(c[2])}
  BY <1>1, <1>9 DEF SetClockFormat
<1>10. ASSUME SetTime(c[2]) PROVE requested' = requested \cup {MFD_TIME}
  BY <1>1, <1>10 DEF SetTime
<1>11. ASSUME SetDate(c[2]) \/ SetDateFormat(c[2]) PROVE requested' = requested \cup {MFD_DATE}
  BY <1>1, <1>11 DEF SetDate, SetDateFormat
<1>12. c[1] \in {"led_state", "brightness", "text", "lamp", "clock", "clock_timezone", "clock_format",
                 "time", "date", "date_format"}
  BY DEF Call
<1>13. CASE c[1] = "led_state"
  BY <1>3, <1>13, CallIs, MarksIs
<1>14. CASE c[1] = "brightness"
  BY <1>4, <1>14, CallIs, MarksIs
<1>15. CASE c[1] = "text"
  BY <1>5, <1>15, CallIs, MarksIs
<1>16. CASE c[1] = "lamp"
  BY <1>6, <1>16, CallIs, MarksIs
<1>17. CASE c[1] = "clock"
  BY <1>7, <1>17, CallIs, MarksIs
<1>18. CASE c[1] = "clock_timezone"
  BY <1>8, <1>18, CallIs, MarksIs
<1>19. CASE c[1] = "clock_format"
  BY <1>9, <1>19, CallIs, MarksIs
<1>20. CASE c[1] = "time"
  BY <1>10, <1>20, CallIs, MarksIs
<1>21. CASE c[1] \in {"date", "date_format"}
  BY <1>11, <1>21, CallIs, MarksIs
<1> QED
  BY <1>12, <1>13, <1>14, <1>15, <1>16, <1>17, <1>18, <1>19, <1>20, <1>21

LEMMA ToComeIs ==
    ASSUME NEW a, NEW b, NEW c
    PROVE  /\ CallMarks(a) \cap Bits \subseteq ToCome(<<a>>)
           /\ (CallMarks(a) \cup CallMarks(b)) \cap Bits \subseteq ToCome(<<a, b>>)
           /\ (CallMarks(a) \cup CallMarks(b) \cup CallMarks(c)) \cap Bits \subseteq ToCome(<<a, b, c>>)
BY DEF ToCome

LEMMA ToComeTail ==
    ASSUME NEW s, AllTaken(s), s # <<>>
    PROVE  ToCome(s) \subseteq CallMarks(Head(s)) \cup ToCome(Tail(s))
<1>1. PICK S : s \in Seq(S)
  BY DEF AllTaken
<1>2. /\ Head(s) = s[1] /\ Len(Tail(s)) = Len(s) - 1 /\ Len(s) \in Nat
      /\ \A i \in 1..Len(Tail(s)) : Tail(s)[i] = s[i + 1]
  BY <1>1
<1> SUFFICES ASSUME NEW x \in ToCome(s), x \notin CallMarks(Head(s)) PROVE x \in ToCome(Tail(s))
  OBVIOUS
<1>3. PICK i \in 1..Len(s) : x \in CallMarks(s[i])
  BY DEF ToCome
<1>4. i # 1
  BY <1>2, <1>3
<1>5. i - 1 \in 1..Len(Tail(s)) /\ Tail(s)[i - 1] = s[i]
  BY <1>2, <1>4
<1>6. x \in Bits
  BY DEF ToCome
<1> QED
  BY <1>3, <1>5, <1>6 DEF ToCome

\* The calls of a handler request all that its command line asks for.
LEMMA HandlerAsks ==
    ASSUME NEW line, Usable(line) PROVE AskedOf(line) \subseteq ToCome(Handler(line))
<1>1. line[1] \in Commands10
  BY UsableIs
<1>2. /\ {BRI_MFD, BRI_LED, BLINK, SHIFT, MFD_DATE, MFD_TIME} \subseteq Bits
      /\ \A l \in Lines : LineBit(l) \in Bits
      /\ \A c \in Clocks : OffsBit(c) \in Bits
      /\ OffsBit(1) = MFD_TIME
  BY DEF Bits, BRI_MFD, BRI_LED, BLINK, SHIFT, MFD_DATE, MFD_TIME, Lines, LineBit, Clocks, OffsBit
<1>3. ASSUME line[1] = "led" PROVE AskedOf(line) \subseteq ToCome(Handler(line))
  <2> DEFINE id == LedIds[line[2]]
             c == <<"led_state", id, LedStateOf[line[3]]>>
  <2>1. line[2] \in DOMAIN LedIds
    BY <1>3, UsableIs
  <2>2. /\ line[2] \in {"fire", "throttle"} => LedBits(id) = {id} /\ id \in Bits
        /\ line[2] \notin {"fire", "throttle"} => LedBits(id) = {id, id + 1} /\ {id, id + 1} \subseteq Bits
    BY <2>1 DEF LedIds, LedBits, SingleLeds, FIRE, THROTTLE, Bits
  <2>3. AskedOf(line) = IF line[2] \in {"fire", "throttle"} THEN {id} ELSE {id, id + 1}
    BY <1>3 DEF AskedOf
  <2>4. AskedOf(line) = LedBits(id) /\ LedBits(id) \subseteq Bits
    BY <2>2, <2>3
  <2>5. Handler(line) = <<c>>
    BY <1>3, HandlerIs
  <2>6. CallMarks(c) = LedBits(id)
    BY MarksIs
  <2> QED
    BY <2>4, <2>5, <2>6, ToComeIs
<1>4. ASSUME line[1] = "bri" PROVE AskedOf(line) \subseteq ToCome(Handler(line))
  <2> DEFINE c == <<"brightness", line[2], Word(line[3])>>
  <2>1. AskedOf(line) = {IF line[2] = "mfd" THEN BRI_MFD ELSE BRI_LED}
    BY <1>4 DEF AskedOf
  <2>2. CallMarks(c) = {IF line[2] = "mfd" THEN BRI_MFD ELSE BRI_LED}
    BY MarksIs
  <2>3. Handler(line) = <<c>>
    BY <1>4, HandlerIs
  <2> HIDE DEF c
  <2> QED
    BY <1>2, <2>1, <2>2, <2>3, ToComeIs
<1>5. ASSUME line[1] = "mfd" PROVE AskedOf(line) \subseteq ToCome(Handler(line))
  <2> DEFINE l == Byte(line[2])
             c == <<"text", l, Counted(line[3])>>
  <2>1. AskedOf(line) = {LineBit(k) : k \in Lines \cap {line[2]}}
    BY <1>5 DEF AskedOf
  <2>2. CallMarks(c) = {LineBit(k) : k \in Lines \cap {l}}
    BY MarksIs
  <2>3. Handler(line) = <<c>>
    BY <1>5, HandlerIs
  <2>4. line[2] \in Lines => l = line[2]
    <3>1. \A n \in Lines : n % 256 = n
      BY DEF Lines
    <3> QED
      BY <3>1 DEF l, Byte
  <2> HIDE DEF c, l
  <2>5. AskedOf(line) \subseteq CallMarks(c) /\ AskedOf(line) \subseteq Bits
    BY <1>2, <2>1, <2>2, <2>4
  <2> QED
    BY <2>3, <2>5, ToComeIs
<1>6. ASSUME line[1] \in {"blink", "shift"} PROVE AskedOf(line) \subseteq ToCome(Handler(line))
  <2> DEFINE b == IF line[1] = "blink" THEN BLINK ELSE SHIFT
             c == <<"lamp", b, Switch[line[2]]>>
  <2>1. AskedOf(line) = {b} /\ Handler(line) = <<c>>
    BY <1>6, HandlerIs DEF AskedOf
  <2>2. CallMarks(c) = {b}
    BY MarksIs
  <2> HIDE DEF c
  <2> QED
    BY <1>2, <2>1, <2>2, ToComeIs
<1>7. ASSUME line[1] = "clock" PROVE AskedOf(line) \subseteq ToCome(Handler(line))
  <2> DEFINE a == <<"clock", line[2]>>
             b == <<"clock_format", 1, line[3]>>
             c == <<"date_format", DateFormatOf[line[4]]>>
  <2>1. AskedOf(line) = {MFD_DATE, MFD_TIME} /\ Handler(line) = <<a, b, c>>
    BY <1>7, HandlerIs DEF AskedOf
  <2>2. CallMarks(b) = {OffsBit(1)} /\ CallMarks(c) = {MFD_DATE}
    BY MarksIs
  <2> HIDE DEF a, b, c
  <2> QED
    BY <1>2, <2>1, <2>2, ToComeIs
<1>8. ASSUME line[1] = "offset" PROVE AskedOf(line) \subseteq ToCome(Handler(line))
  <2> DEFINE n == ClockOf[line[2]]
             a == <<"clock_timezone", n, line[3]>>
             b == <<"clock_format", n, line[4]>>
  <2>1. AskedOf(line) = {OffsBit(n)} /\ Handler(line) = <<a, b>>
    BY <1>8, HandlerIs DEF AskedOf
  <2>2. CallMarks(a) = {OffsBit(n)}
    BY MarksIs
  <2>3. n \in Clocks
    BY <1>8, UsableIs, ClockNumber
  <2> HIDE DEF a, b, n
  <2> QED
    BY <1>2, <2>1, <2>2, <2>3, ToComeIs
<1>9. ASSUME line[1] = "time" PROVE AskedOf(line) \subseteq ToCome(Handler(line))
  <2> DEFINE a == <<"time", [hour |-> Byte(line[2]), minute |-> Byte(line[3])]>>
             b == <<"clock_format", 1, line[4]>>
  <2>1. AskedOf(line) = {MFD_TIME} /\ Handler(line) = <<a, b>>
    BY <1>9, HandlerIs DEF AskedOf
  <2>2. CallMarks(a) = {MFD_TIME}
    BY MarksIs
  <2> HIDE DEF a, b
  <2> QED
    BY <1>2, <2>1, <2>2, ToComeIs
<1>10. ASSUME line[1] = "date" PROVE AskedOf(line) \subseteq ToCome(Handler(line))
  <2> DEFINE a == <<"date", [dd |-> Byte(line[2]), mm |-> Byte(line[3]), yy |-> Byte(line[4])]>>
             b == <<"date_format", DateFormatOf[line[5]]>>
  <2>1. AskedOf(line) = {MFD_DATE} /\ Handler(line) = <<a, b>>
    BY <1>10, HandlerIs DEF AskedOf
  <2>2. CallMarks(a) = {MFD_DATE}
    BY MarksIs
  <2> HIDE DEF a, b
  <2> QED
    BY <1>2, <2>1, <2>2, ToComeIs
<1>11. ASSUME line[1] = "raw" PROVE AskedOf(line) \subseteq ToCome(Handler(line))
  BY <1>11 DEF AskedOf
<1> QED
  BY <1>1, <1>3, <1>4, <1>5, <1>6, <1>7, <1>8, <1>9, <1>10, <1>11 DEF Commands10

\* What is asked for is requested, or will be by a call that is left; and when an
\* update has succeeded nothing is left to write.
ShownOK ==
    /\ stage \in {"init", "connect"} => AskedOf(argv) \subseteq ToCome(calls)
    /\ stage = "handler" /\ status = 0 => AskedOf(argv) \subseteq requested \cup ToCome(calls)
    /\ stage = "update" /\ status = 0 => AskedOf(argv) \subseteq requested
    /\ stage = "update" /\ ~busy /\ rc = "SUCCESS" => Dirty = {}

LEMMA RawAlone ==
    ASSUME NEW line, Usable(line), NEW s, NEW f, s = Handler(line) \/ Between(line, s, f),
           Head(s)[1] = "raw"
    PROVE  AskedOf(line) = {}
<1>1. \A a, b, c : Head(<<a>>) = a /\ Head(<<a, b>>) = a /\ Head(<<a, b, c>>) = a
  BY Single, TwoCalls, ThreeCalls
<1>2. ~Between(line, s, f)
  BY <1>1 DEF Between
<1>3. line[1] \in Commands10 /\ s = Handler(line)
  BY <1>2, UsableIs
<1>4. line[1] = "raw"
  BY <1>1, <1>3, HandlerIs DEF Commands10
<1> QED
  BY <1>4 DEF AskedOf

LEMMA ToComeNone == ToCome(<<>>) = {}
BY DEF ToCome

LEMMA SameToCome == ASSUME calls' = calls PROVE ToCome(calls)' = ToCome(calls)
BY DEF ToCome, CallMarks

LEMMA UpdateAsks ==
    ASSUME IInv, (stage = "handler" /\ UpdateStart) \/ UpdateStep
    PROVE  requested' = requested /\ (~busy' /\ rc' = "SUCCESS" => Dirty' = {})
<1>1. CASE UpdateStart
  BY <1>1 DEF UpdateStart, Refuse, progress
<1>2. ASSUME NEW b \in Slots, TransferSucceeds(b) \/ TransferRetried(b)
      PROVE  requested' = requested /\ busy'
  BY <1>2 DEF TransferSucceeds, TransferRetried
<1>3. ASSUME NEW b \in Slots, TransferGivenUp(b) PROVE requested' = requested /\ rc' # "SUCCESS"
  BY <1>3 DEF TransferGivenUp
<1>4. CASE UpdateDone
  BY <1>4 DEF UpdateDone, IInv, UpdateOK, Dirty
<1> QED
  BY <1>1, <1>2, <1>3, <1>4 DEF UpdateStep

LEMMA AskedSame == ASSUME argv' = argv PROVE AskedOf(argv)' = AskedOf(argv)
BY DEF AskedOf

LEMMA ShownStep ==
    ASSUME ArgvsOK, CLIInv, ToolOK, IInv, ShownOK, CLINext \/ UNCHANGED <<vars, cliVars>>
    PROVE  ShownOK'
<1>1. CASE Parse
  <2>1. stage' = "init" => Usable(argv) /\ calls' = Handler(argv)
    BY <1>1 DEF Parse
  <2>2. stage' \in {"init", "exited"} /\ argv' = argv
    BY <1>1 DEF Parse
  <2>3. stage' = "init" => AskedOf(argv') \subseteq ToCome(calls')
    BY <2>1, <2>2, HandlerAsks
  <2> QED
    BY <2>2, <2>3 DEF ShownOK
<1>2. CASE InitLibrary \/ ConnectJoystick
  <2>1. /\ stage \in {"init", "connect"} /\ stage' \in {"connect", "handler", "exited"}
        /\ calls' = calls /\ argv' = argv
    BY <1>2 DEF InitLibrary, ConnectJoystick
  <2>2. AskedOf(argv') \subseteq ToCome(calls')
    BY <2>1 DEF ShownOK
  <2> QED
    BY <2>1, <2>2 DEF ShownOK
<1>3. CASE Handle
  <2>1. /\ stage = "handler" /\ stage' = stage /\ argv' = argv /\ calls # <<>> /\ Call(Head(calls))
        /\ (rc' = "SUCCESS" /\ calls' = Tail(calls) /\ status' = status) \/ status' = 1
    BY <1>3 DEF Handle, Refused
  <2> SUFFICES ASSUME status' = 0 PROVE AskedOf(argv') \subseteq requested' \cup ToCome(calls')
    BY <2>1 DEF ShownOK
  <2>2. rc' = "SUCCESS" /\ calls' = Tail(calls) /\ status = 0
    BY <2>1
  <2>3. AskedOf(argv) \subseteq requested \cup ToCome(calls)
    BY <2>1, <2>2 DEF ShownOK
  <2>4. CASE Head(calls)[1] = "raw"
    <3>1. Usable(argv) /\ Handling
      BY <2>1 DEF CLIInv
    <3>2. calls = Handler(argv) \/ Between(argv, calls, fields)
      BY <2>1, <2>2, <3>1 DEF Handling, Done
    <3>3. AskedOf(argv) = {}
      BY <2>4, <3>1, <3>2, RawAlone
    <3> QED
      BY <2>1, <3>3
  <2>5. CASE Head(calls)[1] # "raw"
    <3>1. AllTaken(calls) /\ Takes(Head(calls))
      BY <2>1, TailTaken DEF ToolOK
    <3>2. requested \subseteq requested' /\ CallMarks(Head(calls)) \subseteq requested'
      BY <2>1, <2>2, <2>5, <3>1, CallRequests
    <3>3. ToCome(calls) \subseteq CallMarks(Head(calls)) \cup ToCome(Tail(calls))
      BY <2>1, <3>1, ToComeTail
    <3>4. AskedOf(argv) \subseteq requested' \cup ToCome(Tail(calls))
      BY <2>3, <3>2, <3>3
    <3> QED
      BY <2>1, <2>2, <3>4
  <2> QED
    BY <2>4, <2>5
<1>4. CASE Update
  <2>1. /\ stage' = "update" /\ argv' = argv /\ status' = status
        /\ (stage = "handler" /\ UpdateStart) \/ UpdateStep
        /\ (stage = "handler" /\ calls = <<>>) \/ stage = "update"
    BY <1>4 DEF Update, cliVars
  <2>2. requested' = requested /\ (~busy' /\ rc' = "SUCCESS" => Dirty' = {})
    BY <2>1, UpdateAsks
  <2>3. status = 0 => AskedOf(argv) \subseteq requested
    BY <2>1, ToComeNone DEF ShownOK
  <2> QED
    BY <2>1, <2>2, <2>3 DEF ShownOK
<1>5. CASE Exit
  BY <1>5 DEF Exit, ShownOK
<1>6. CASE (Physical /\ UNCHANGED cliVars) \/ UNCHANGED <<vars, cliVars>>
  <2>1. /\ stage' = stage /\ argv' = argv /\ status' = status /\ calls' = calls
        /\ requested' = requested /\ busy' = busy /\ rc' = rc
        /\ update_mask' = update_mask /\ pending' = pending
    BY <1>6 DEF cliVars, Physical, Unplug, Plug, progress, vars
  <2>2. Dirty' = Dirty
    BY <2>1 DEF Dirty
  <2> QED
    BY <2>1, <2>2 DEF ShownOK
<1> QED
  BY <1>1, <1>2, <1>3, <1>4, <1>5, <1>6 DEF CLINext

\* What x52cli asked for and was not refused, the joystick shows when the update has
\* succeeded: the setters of a handler and libx52_update, across processes and failures.
THEOREM AcceptedShown == ASSUME ArgvsOK PROVE CLISpec => []AcceptedIsShown
<1>1. CLIInit => CLIInv /\ ToolOK /\ ShownOK
  BY CLIInitially, NoneTaken DEF CLIInit, Init, ToolOK, ShownOK
<1>2. CLIInv /\ ToolOK /\ IInv /\ ShownOK /\ [CLINext]_<<vars, cliVars>> => CLIInv' /\ ToolOK' /\ ShownOK'
  BY CLIInductive, ToolStep, ShownStep
<1>3. IInv /\ ShownOK => AcceptedIsShown
  <2> SUFFICES ASSUME IInv, ShownOK, stage = "update", ~busy, rc = "SUCCESS", hdl = "live", status = 0,
                      NEW b \in AskedOf(argv), LostAcks => b \notin LineBits
               PROVE  Shows(b)
    BY DEF AcceptedIsShown
  <2>1. b \in requested /\ Dirty = {} /\ requested \subseteq Slots
    BY DEF ShownOK, IInv, TypeOK
  <2>2. b \in (requested \ Dirty) \cap Repeatable
    BY <2>1 DEF Repeatable
  <2> QED
    BY <2>2 DEF IInv, RepeatableShown
<1>4. Spec => []IInv
  BY Initially, Inductive, PTL DEF Spec
<1> QED
  BY <1>1, <1>2, <1>3, <1>4, ToolUsesLibrary, PTL DEF CLISpec

-----------------------------------------------------------------------------
(* The daemon.                                                             *)

\* The settings thread t is still to apply: all it has to do, but for one whose
\* setter has succeeded.
Ahead(t, s) == \E i \in 1..Len(todo[t]) : todo[t][i] = s /\ (i = 1 => at[t] # "unlocked")

\* A thread in a call has the setting of that call at the head of its list, with a
\* value the setter takes; the clock thread has the time of day.
CallOK(t) ==
    IF t \in Appliers
    THEN /\ at[t] # "idle" => todo[t] # <<>>
         /\ at[t] = "lock" => \E v \in Values[Head(todo[t])] : arg[t] = Append(Head(todo[t]), v)
         /\ at[t] = "lock" => Head(todo[t]) \notin Switches
    ELSE at[t] = "lock" =>
            \E d \in Dates \ {ZeroDate}, h \in Times, tz \in LocalZones :
                arg[t] = <<"Clock", "now", <<d, h, tz>>>>

ThreadsOK ==
    /\ todo \in [Appliers -> Seq(Settings)]
    /\ at \in [Threads -> {"idle", "lock", "unlocked"}]
    /\ DOMAIN arg = Threads
    /\ DOMAIN config = Settings /\ \A s \in Settings : config[s] \in Values[s]
    /\ \A t \in Threads : CallOK(t)
    /\ \A t \in loading : t \in {"main", "cmd"} /\ Idle(t)
    /\ dev_pc \in {"init", "loop", "poll", "connect", "update", "clear", "disconnect"}
    /\ dev_pc # "loop" => Idle("dev")
    /\ dev_pc = "init" => loading = {} /\ \A t \in Threads : Idle(t)
    /\ busy \in BOOLEAN /\ (busy => dev_pc = "update")

USE SettingsAssumption DEF Appliers, Threads

LEMMA SettingPair ==
    ASSUME NEW s \in Settings
    PROVE  /\ s = <<s[1], s[2]>>
           /\ \A v : LET a == Append(s, v) IN a[1] = s[1] /\ a[2] = s[2] /\ a[3] = v
<1>1. s \in STRING \X STRING
  BY DEF Settings
<1>2. s = <<s[1], s[2]>>
  BY <1>1
<1> DEFINE x == s[1]
           y == s[2]
<1>3. s = <<x, y>>
  BY <1>2
<1> HIDE DEF x, y
<1>4. \A v : LET a == Append(<<x, y>>, v) IN a[1] = x /\ a[2] = y /\ a[3] = v
  OBVIOUS
<1>5. \A v : LET a == Append(s, v) IN a[1] = x /\ a[2] = y /\ a[3] = v
  BY <1>3, <1>4
<1> QED
  BY <1>2, <1>5 DEF x, y

LEMMA InitThreads == DInit => ThreadsOK
<1> SUFFICES ASSUME DInit PROVE ThreadsOK
  OBVIOUS
<1>1. /\ todo \in [Appliers -> Seq(Settings)] /\ \A t \in Appliers : todo[t] = <<>>
      /\ at \in [Threads -> {"idle", "lock", "unlocked"}] /\ \A t \in Threads : at[t] = "idle"
  BY DEF DInit
<1>2. DOMAIN arg = Threads /\ loading = {} /\ dev_pc = "init" /\ busy = FALSE
  BY DEF DInit, Init
<1>3. DOMAIN config = Settings /\ \A s \in Settings : config[s] \in Values[s]
  BY DEF DInit
<1> QED
  BY <1>1, <1>2, <1>3 DEF ThreadsOK, CallOK, Idle

\* A step of one thread that has something to do, or of the clock, moves no other.
LEMMA LocalOK ==
    ASSUME ThreadsOK, NEW t \in Threads, ~Idle(t) \/ (t = "clk" /\ dev_pc # "init"),
           UNCHANGED <<config, loading, dev_pc, busy>>,
           todo' \in [Appliers -> Seq(Settings)],
           at' \in [Threads -> {"idle", "lock", "unlocked"}], DOMAIN arg' = Threads,
           \A u \in Threads \ {t} : at'[u] = at[u] /\ arg'[u] = arg[u],
           \A u \in Appliers \ {t} : todo'[u] = todo[u],
           CallOK(t)'
    PROVE  ThreadsOK'
<1>1. ASSUME NEW u \in Threads \ {t}
      PROVE  (CallOK(u)' <=> CallOK(u)) /\ (Idle(u)' <=> Idle(u))
  <2>1. at'[u] = at[u] /\ arg'[u] = arg[u]
    BY <1>1
  <2>2. u \in Appliers => todo'[u] = todo[u]
    BY <1>1
  <2>3. Idle(u)' <=> Idle(u)
    BY <2>1, <2>2 DEF Idle
  <2>4. CASE u \in Appliers
    BY <2>1, <2>2, <2>3, <2>4, ZenonT(40) DEF CallOK
  <2>5. CASE u \notin Appliers
    <3> DEFINE now(x) == \E d \in Dates \ {ZeroDate}, h \in Times, tz \in LocalZones :
                            x = <<"Clock", "now", <<d, h, tz>>>>
    <3>1. CallOK(u) <=> (at[u] = "lock" => now(arg[u]))
      BY <2>5, Zenon DEF CallOK
    <3>2. CallOK(u)' <=> (at'[u] = "lock" => now(arg'[u]))
      BY <2>5, Zenon DEF CallOK
    <3> HIDE DEF now
    <3> QED
      BY <2>1, <2>3, <3>1, <3>2, Zenon
  <2> QED
    BY <2>4, <2>5
<1>2. \A u \in Threads : CallOK(u)'
  BY <1>1 DEF ThreadsOK
<1>3. \A u \in loading' : u \in {"main", "cmd"} /\ Idle(u)'
  BY <1>1 DEF ThreadsOK
<1>4. dev_pc' # "loop" => Idle("dev")'
  BY <1>1 DEF ThreadsOK
<1>5. dev_pc' # "init"
  BY DEF ThreadsOK
<1> QED
  BY <1>2, <1>3, <1>4, <1>5 DEF ThreadsOK

LEMMA ReturnOK ==
    ASSUME ThreadsOK, NEW t \in Threads, at[t] # "idle", Return(t),
           UNCHANGED <<config, loading, dev_pc, busy>>
    PROVE  ThreadsOK'
<1>1. t \in Appliers => todo[t] \in Seq(Settings) /\ todo[t] # <<>>
  BY DEF ThreadsOK, CallOK
<1>2. todo' \in [Appliers -> Seq(Settings)] /\ \A u \in Appliers \ {t} : todo'[u] = todo[u]
  BY <1>1 DEF Return, ThreadsOK
<1>3. /\ at' \in [Threads -> {"idle", "lock", "unlocked"}] /\ DOMAIN arg' = Threads
      /\ \A u \in Threads \ {t} : at'[u] = at[u] /\ arg'[u] = arg[u]
  BY DEF Return, ThreadsOK
<1>4. CallOK(t)' /\ ~Idle(t)
  BY DEF Return, ThreadsOK, CallOK, Idle
<1> QED
  BY <1>2, <1>3, <1>4, LocalOK

LEMMA EvaluateOK == ASSUME ThreadsOK, NEW t \in Appliers, Evaluate(t) PROVE ThreadsOK'
<1> DEFINE s == Head(todo[t])
<1>1. /\ at[t] = "idle" /\ todo[t] # <<>> /\ todo[t] \in Seq(Settings) /\ s \in Settings
      /\ UNCHANGED <<config, loading, dev_pc, busy>> /\ ~Idle(t)
  BY DEF Evaluate, ThreadsOK, Idle, vars, progress
<1>2. CASE todo' = [todo EXCEPT ![t] = Tail(@)] /\ UNCHANGED <<at, arg>>
  <2>1. todo' \in [Appliers -> Seq(Settings)] /\ \A u \in Appliers \ {t} : todo'[u] = todo[u]
    BY <1>1, <1>2 DEF ThreadsOK
  <2>2. CallOK(t)'
    BY <1>1, <1>2 DEF CallOK
  <2> QED
    BY <1>1, <1>2, <2>1, <2>2, LocalOK DEF ThreadsOK
<1>3. CASE /\ s \notin Switches /\ UNCHANGED todo
           /\ at' = [at EXCEPT ![t] = "lock"] /\ arg' = [arg EXCEPT ![t] = Append(s, config[s])]
  <2>1. at'[t] = "lock" /\ arg'[t] = Append(s, config[s]) /\ config[s] \in Values[s]
    BY <1>1, <1>3 DEF ThreadsOK
  <2>2. CallOK(t)'
    BY <1>1, <1>3, <2>1 DEF CallOK
  <2>3. /\ at' \in [Threads -> {"idle", "lock", "unlocked"}] /\ DOMAIN arg' = Threads
        /\ \A u \in Threads \ {t} : at'[u] = at[u] /\ arg'[u] = arg[u]
    BY <1>3 DEF ThreadsOK
  <2> QED
    BY <1>1, <1>3, <2>2, <2>3, LocalOK DEF ThreadsOK
<1> QED
  BY <1>2, <1>3 DEF Evaluate

\* Whatever a setter does to the context, it is over when it returns.
LEMMA CallbackKeeps ==
    ASSUME NEW section, NEW key, NEW v, Callback(section, key, v)
    PROVE  /\ UNCHANGED <<handle, progress, world>>
           /\ requested \subseteq requested'
  BY DEF Callback, SetLedState, SetMfdBrightness, SetLedBrightness, SetClockTimezone,
         SetClockFormat, SetDateFormat, SetClock, Request, Refuse

LEMMA CallSetterOK == ASSUME ThreadsOK, NEW t \in Threads, CallSetter(t) PROVE ThreadsOK'
<1>1. /\ at[t] = "lock" /\ UNCHANGED <<config, loading, dev_pc, busy>>
  BY CallbackKeeps DEF CallSetter, progress
<1>2. CASE at' = [at EXCEPT ![t] = "unlocked"] /\ UNCHANGED <<todo, arg>>
  <2>1. ~Idle(t) /\ CallOK(t)'
    BY <1>1, <1>2 DEF Idle, CallOK, ThreadsOK
  <2>2. /\ at' \in [Threads -> {"idle", "lock", "unlocked"}]
        /\ \A u \in Threads \ {t} : at'[u] = at[u] /\ arg'[u] = arg[u]
    BY <1>2 DEF ThreadsOK
  <2> QED
    BY <1>1, <1>2, <2>1, <2>2, LocalOK DEF ThreadsOK
<1>3. CASE Return(t)
  BY <1>1, <1>3, ReturnOK
<1> QED
  BY <1>2, <1>3 DEF CallSetter

LEMMA SetFlagOK == ASSUME ThreadsOK, NEW t \in Threads, SetFlag(t) PROVE ThreadsOK'
  BY ReturnOK DEF SetFlag, vars, progress

LEMMA OrderIsOfSettings == ApplyOrder \in Seq(Settings)
<1>1. \A i \in 1..Len(ApplyOrder) : ApplyOrder[i] \in Settings
  BY DEF Settings
<1> QED
  BY <1>1

\* A thread that was idle has something new to do, and nothing else has changed for
\* the others.
LEMMA NewWorkOK ==
    ASSUME ThreadsOK, NEW t \in Appliers, Idle(t), NEW work \in Seq(Settings),
           todo' = [todo EXCEPT ![t] = work], UNCHANGED <<at, arg, busy>>,
           DOMAIN config' = Settings, \A s \in Settings : config'[s] \in Values[s],
           loading' \subseteq loading \ {t},
           dev_pc' = "loop" \/ (dev_pc' = dev_pc /\ t # "dev" /\ dev_pc # "init"), ~busy \/ dev_pc' = dev_pc
    PROVE  ThreadsOK'
<1>1. todo' \in [Appliers -> Seq(Settings)] /\ todo'[t] = work
      /\ \A u \in Appliers \ {t} : todo'[u] = todo[u]
  BY DEF ThreadsOK
<1>2. \A u \in Threads \ {t} : (CallOK(u)' <=> CallOK(u)) /\ (Idle(u)' <=> Idle(u))
  BY <1>1 DEF CallOK, Idle
<1>3. CallOK(t)'
  BY DEF Idle, CallOK
<1> QED
  BY <1>1, <1>2, <1>3 DEF ThreadsOK

\* Nothing has changed for the threads but what the device manager does, or that one
\* of them loads a file.
LEMMA QuietOK ==
    ASSUME ThreadsOK, UNCHANGED <<todo, at, arg>>,
           DOMAIN config' = Settings, \A s \in Settings : config'[s] \in Values[s],
           \A t \in loading' : t \in {"main", "cmd"} /\ Idle(t),
           dev_pc' \in {"init", "loop", "poll", "connect", "update", "clear", "disconnect"},
           dev_pc' # "loop" => Idle("dev"),
           dev_pc' = "init" => dev_pc = "init" /\ loading' = {},
           busy' \in BOOLEAN, busy' => dev_pc' = "update"
    PROVE  ThreadsOK'
<1>1. \A t \in Threads : Idle(t)' <=> Idle(t)
  BY DEF Idle
<1>2. ASSUME NEW t \in Threads PROVE CallOK(t)'
  <2>1. CallOK(t)
    BY DEF ThreadsOK
  <2> QED
    BY <1>1, <2>1, SMTT(30) DEF CallOK
<1> QED
  BY <1>1, <1>2, SMTT(30) DEF ThreadsOK

LEMMA DeviceOK == ASSUME ThreadsOK, Device PROVE ThreadsOK'
<1>1. dev_pc # "update" => ~busy
  BY DEF ThreadsOK
<1>2. CASE DevInit
  <2>1. busy' = busy /\ Idle("main") /\ loading = {}
    BY <1>2 DEF DevInit, Connect, ConnectSucceeds, ConnectFails, progress, ThreadsOK
  <2> QED
    BY <1>1, <1>2, <2>1, NewWorkOK, OrderIsOfSettings DEF DevInit, ThreadsOK
<1>3. CASE DevCheck
  <2>1. busy' = busy
    BY <1>3 DEF DevCheck, IsConnected, progress
  <2> QED
    BY <1>1, <1>3, <2>1, QuietOK DEF DevCheck, ThreadsOK
<1>4. CASE DevConnect
  <2>1. busy' = busy /\ Idle("dev")
    BY <1>4 DEF DevConnect, Connect, ConnectSucceeds, ConnectFails, progress, ThreadsOK
  <2>2. CASE rc' = "SUCCESS"
    BY <1>1, <1>4, <2>1, <2>2, NewWorkOK, OrderIsOfSettings
       DEF DevConnect, AppliedOnConnect, ThreadsOK
  <2>3. CASE rc' # "SUCCESS"
    <3>1. <<>> \in Seq(Settings)
      OBVIOUS
    <3> QED
      BY <1>1, <1>4, <2>1, <2>3, <3>1, NewWorkOK DEF DevConnect, ThreadsOK
  <2> QED
    BY <2>2, <2>3
<1>5. CASE DevPoll
  BY <1>1, <1>5, QuietOK DEF DevPoll, ThreadsOK, vars, progress
<1>6. CASE DevUpdate
  <2>1. busy' \in BOOLEAN
    BY <1>6 DEF DevUpdate, UpdateStart, UpdateStep, Refuse, progress, TransferSucceeds,
                TransferRetried, TransferGivenUp, UpdateDone, ThreadsOK
  <2>2. dev_pc' \in {"update", "clear", "disconnect", "loop"}
    BY <1>6 DEF DevUpdate, AfterUpdate
  <2> QED
    BY <1>1, <1>6, <2>1, <2>2, QuietOK DEF DevUpdate, ThreadsOK
<1>7. CASE DevClear
  BY <1>1, <1>7, QuietOK DEF DevClear, ThreadsOK, vars, progress
<1>8. CASE DevDisconnect
  <2>1. busy' = busy
    BY <1>8 DEF DevDisconnect, Disconnect, progress
  <2> QED
    BY <1>1, <1>8, <2>1, QuietOK DEF DevDisconnect, ThreadsOK
<1> QED
  BY <1>2, <1>3, <1>4, <1>5, <1>6, <1>7, <1>8 DEF Device

LEMMA OthersOK == ASSUME ThreadsOK, Loads \/ Sets \/ Ticks PROVE ThreadsOK'
<1>1. CASE Loads
  <2>1. PICK t \in {"main", "cmd"} : LoadDefaults(t)
    BY <1>1 DEF Loads
  <2>2. busy' = busy
    BY <2>1 DEF LoadDefaults, vars, progress
  <2> QED
    BY <2>1, <2>2, QuietOK DEF LoadDefaults, ThreadsOK
<1>2. CASE Sets
  <2>1. PICK s \in Settings : \E v \in Values[s] : ConfigSet(s, v)
    BY <1>2 DEF Sets
  <2>2. PICK v \in Values[s] : ConfigSet(s, v)
    BY <2>1
  <2>3. busy' = busy
    BY <2>2 DEF ConfigSet, vars, progress
  <2>4. DOMAIN config' = Settings /\ \A x \in Settings : config'[x] \in Values[x]
    BY <2>2 DEF ConfigSet, ThreadsOK
  <2>5. <<s>> \in Seq(Settings) /\ "cmd" \in Appliers
    OBVIOUS
  <2> DEFINE work == <<s>>
  <2>6. todo' = [todo EXCEPT !["cmd"] = work] /\ work \in Seq(Settings)
    BY <2>2, <2>5 DEF ConfigSet
  <2> HIDE DEF work
  <2> QED
    BY <2>2, <2>3, <2>4, <2>6, NewWorkOK DEF ConfigSet
<1>3. CASE Ticks
  <2>1. PICK d \in Dates \ {ZeroDate}, h \in Times, tz \in LocalZones : ClockTick(d, h, tz)
    BY <1>3 DEF Ticks
  <2>2. UNCHANGED <<todo, config, loading, dev_pc, busy>> /\ dev_pc # "init"
    BY <2>1 DEF ClockTick, vars, progress
  <2>3. /\ at' \in [Threads -> {"idle", "lock", "unlocked"}] /\ DOMAIN arg' = Threads
        /\ \A u \in Threads \ {"clk"} : at'[u] = at[u] /\ arg'[u] = arg[u]
        /\ arg'["clk"] = <<"Clock", "now", <<d, h, tz>>>>
    BY <2>1 DEF ClockTick, ThreadsOK
  <2>4. CallOK("clk")'
    BY <2>3 DEF CallOK
  <2> QED
    BY <2>2, <2>3, <2>4, LocalOK DEF ThreadsOK
<1> QED
  BY <1>1, <1>2, <1>3

LEMMA LoadFileOK == ASSUME ThreadsOK, NEW t \in Threads, LoadFile(t) PROVE ThreadsOK'
<1>1. t \in {"main", "cmd"} /\ Idle(t) /\ dev_pc # "init"
  BY DEF LoadFile, ThreadsOK
<1>2. busy' = busy
  BY DEF LoadFile, vars, progress
<1>3. DOMAIN config' = Settings /\ \A s \in Settings : config'[s] \in Values[s]
  BY DEF LoadFile
<1> QED
  BY <1>1, <1>2, <1>3, NewWorkOK, OrderIsOfSettings DEF LoadFile

LEMMA StepThreads == ThreadsOK /\ [DNext]_dvars => ThreadsOK'
<1> SUFFICES ASSUME ThreadsOK, [DNext]_dvars PROVE ThreadsOK'
  OBVIOUS
<1>1. ASSUME NEW t \in Threads, Steps(t) PROVE ThreadsOK'
  BY <1>1, EvaluateOK, CallSetterOK, SetFlagOK, LoadFileOK DEF Steps
<1>2. CASE Physical /\ UNCHANGED threadvars
  <2>1. busy' = busy
    BY <1>2 DEF Physical, Unplug, Plug, progress
  <2> QED
    BY <1>2, <2>1, QuietOK DEF threadvars, ThreadsOK
<1>3. CASE UNCHANGED dvars
  BY <1>3, QuietOK DEF dvars, vars, progress, threadvars, ThreadsOK
<1> QED
  BY <1>1, <1>2, <1>3, DeviceOK, OthersOK DEF DNext

-----------------------------------------------------------------------------
(* Every setting of a connected joystick has been requested of it, or is   *)
(* still ahead of the thread that connected to it, or of the main thread.  *)

Covered(s) ==
    \/ s[1] = "LED" /\ ~is_pro
    \/ SlotsOf(s) \subseteq requested
    \/ Ahead("dev", s) \/ Ahead("main", s)

AllCovered == hdl = "live" /\ dev_pc # "init" => \A s \in Settings : Covered(s)

LEMMA CoveredKept ==
    ASSUME AllCovered, hdl' = "live" => hdl = "live" /\ is_pro' = is_pro,
           dev_pc' # "init" => dev_pc # "init", requested \subseteq requested',
           \A s \in Settings : SlotsOf(s)' = SlotsOf(s),
           \A t \in {"dev", "main"}, s \in Settings :
               Ahead(t, s) => Ahead(t, s)' \/ (s[1] = "LED" /\ ~is_pro)
                                \/ SlotsOf(s) \subseteq requested'
    PROVE  AllCovered'
  BY DEF AllCovered, Covered

LEMMA SlotsConstant == ASSUME NEW s \in Settings PROVE SlotsOf(s)' = SlotsOf(s)
  BY DEF SlotsOf

\* What a thread has ahead stays ahead while neither its list nor its call changes, and
\* but for the first entry when the list gets shorter by it.
LEMMA AheadSame ==
    ASSUME NEW t, NEW s, UNCHANGED <<todo[t], at[t]>>, Ahead(t, s) PROVE Ahead(t, s)'
  BY DEF Ahead

LEMMA AheadTail ==
    ASSUME NEW t, NEW s \in Settings, todo[t] \in Seq(Settings), todo[t] # <<>>,
           todo'[t] = Tail(todo[t]), at'[t] # "unlocked", Ahead(t, s)
    PROVE  Ahead(t, s)' \/ (s = Head(todo[t]) /\ at[t] # "unlocked")
<1>1. PICK i \in 1..Len(todo[t]) : todo[t][i] = s /\ (i = 1 => at[t] # "unlocked")
  BY DEF Ahead
<1>2. CASE i = 1
  BY <1>1, <1>2
<1>3. CASE i > 1
  <2>1. i - 1 \in 1..Len(todo'[t]) /\ todo'[t][i - 1] = s
    BY <1>1, <1>3
  <2> QED
    BY <2>1 DEF Ahead
<1> QED
  BY <1>2, <1>3

\* A thread that starts on all the settings has all of them ahead.
LEMMA AheadOfAll ==
    ASSUME NEW t, todo'[t] = ApplyOrder, at'[t] = "idle", NEW s \in Settings
    PROVE  Ahead(t, s)'
<1>1. PICK i \in 1..Len(ApplyOrder) : s = ApplyOrder[i]
  BY DEF Settings
<1> QED
  BY <1>1 DEF Ahead

\* A setter that succeeds has requested the slots of its setting; one that fails is
\* that of an LED on a joystick that has none, or the clock's.
LEMMA SetterRequests ==
    ASSUME NEW s \in Settings, NEW v \in Values[s], Callback(s[1], s[2], v)
    PROVE  SlotsOf(s) \subseteq requested' \/ (rc' # "SUCCESS" /\ s[1] = "LED" /\ ~is_pro)
<1>1. s = <<s[1], s[2]>>
  BY SettingPair
<1>2. CASE s[1] = "LED"
  <2>1. v \in Supported(LedOf[s[2]]) /\ SetLedState(LedOf[s[2]], v)
    BY <1>2 DEF Callback
  <2>2. SlotsOf(s) = LedBits(LedOf[s[2]])
    BY <1>2 DEF SlotsOf
  <2> QED
    BY <1>2, <2>1, <2>2 DEF SetLedState, Request, Refuse
<1>3. CASE s[1] = "Brightness"
  <2>1. CASE s[2] = "MFD"
    BY <1>1, <1>3, <2>1 DEF Callback, SlotsOf, SetMfdBrightness, Request
  <2>2. CASE s[2] = "LED"
    BY <1>1, <1>3, <2>2 DEF Callback, SlotsOf, SetLedBrightness, Request
  <2> QED
    BY <1>3, <2>1, <2>2
<1>4. CASE s[1] = "Clock"
  <2>1. SlotsOf(s) = {}
    BY <1>1, <1>4 DEF SlotsOf
  <2> QED
    BY <2>1
<1> QED
  BY <1>2, <1>3, <1>4

LEMMA ClockHasNoSlots == ASSUME NEW s \in Settings, s[1] = "Clock" PROVE SlotsOf(s) = {}
<1>1. s # <<"Brightness", "MFD">> /\ s # <<"Brightness", "LED">>
  OBVIOUS
<1> QED
  BY <1>1 DEF SlotsOf

LEMMA EvaluateCovered ==
    ASSUME ThreadsOK, AllCovered, NEW t \in Appliers, Evaluate(t) PROVE AllCovered'
<1> DEFINE h == Head(todo[t])
<1>1. /\ at[t] = "idle" /\ todo[t] # <<>> /\ todo[t] \in Seq(Settings)
      /\ UNCHANGED <<hdl, is_pro, requested, dev_pc>>
  BY DEF Evaluate, ThreadsOK, vars, handle
<1>2. ASSUME NEW u \in {"dev", "main"}, NEW s \in Settings, Ahead(u, s)
      PROVE  Ahead(u, s)' \/ (s[1] = "LED" /\ ~is_pro) \/ SlotsOf(s) \subseteq requested'
  <2>1. CASE u # t
    <3>1. UNCHANGED <<todo[u], at[u]>>
      BY <2>1 DEF Evaluate, ThreadsOK
    <3> QED
      BY <1>2, <3>1, AheadSame
  <2>2. CASE u = t /\ h \notin Switches /\ ~Skipped(h)
    <3>1. todo'[u] = todo[u] /\ at'[u] = "lock"
      BY <2>2 DEF Evaluate, ThreadsOK
    <3> QED
      BY <1>2, <3>1 DEF Ahead
  <2>3. CASE u = t /\ (h \in Switches \/ Skipped(h))
    <3>1. todo'[t] = Tail(todo[t]) /\ at' = at
      BY <2>3 DEF Evaluate, ThreadsOK
    <3>2. Ahead(u, s)' \/ s = h
      BY <1>1, <1>2, <2>3, <3>1, AheadTail
    <3>3. h[1] = "Clock" \/ (h[1] = "LED" /\ ~is_pro)
      BY <2>3 DEF Switches, Skipped
    <3> QED
      BY <3>2, <3>3, ClockHasNoSlots
  <2> QED
    BY <2>1, <2>2, <2>3
<1> QED
  BY <1>1, <1>2, SlotsConstant, CoveredKept

\* Thread t is done with the setting at hand, which has been dealt with.
LEMMA ReturnCovered ==
    ASSUME ThreadsOK, AllCovered, NEW t \in Threads, Return(t), at[t] # "idle",
           UNCHANGED <<hdl, is_pro, dev_pc>>, requested \subseteq requested',
           t \in Appliers /\ at[t] # "unlocked" =>
               LET s == Head(todo[t])
               IN (s[1] = "LED" /\ ~is_pro) \/ SlotsOf(s) \subseteq requested'
    PROVE  AllCovered'
<1>1. ASSUME NEW u \in {"dev", "main"}, NEW s \in Settings, Ahead(u, s)
      PROVE  Ahead(u, s)' \/ (s[1] = "LED" /\ ~is_pro) \/ SlotsOf(s) \subseteq requested'
  <2>1. CASE u # t
    <3>1. UNCHANGED <<todo[u], at[u]>>
      BY <2>1 DEF Return, ThreadsOK
    <3> QED
      BY <1>1, <3>1, AheadSame
  <2>2. CASE u = t
    <3>1. todo'[t] = Tail(todo[t]) /\ at'[t] = "idle"
      BY <2>2 DEF Return, ThreadsOK
    <3>2. todo[t] \in Seq(Settings) /\ todo[t] # <<>>
      BY <2>2 DEF ThreadsOK, CallOK
    <3>3. Ahead(u, s)' \/ (s = Head(todo[t]) /\ at[t] # "unlocked")
      BY <1>1, <2>2, <3>1, <3>2, AheadTail
    <3> QED
      BY <2>2, <3>3
  <2> QED
    BY <2>1, <2>2
<1> QED
  BY <1>1, SlotsConstant, CoveredKept

LEMMA CallSetterCovered ==
    ASSUME ThreadsOK, AllCovered, NEW t \in Threads, CallSetter(t) PROVE AllCovered'
<1>1. at[t] = "lock" /\ UNCHANGED <<hdl, is_pro, dev_pc>> /\ requested \subseteq requested'
  BY CallbackKeeps DEF CallSetter, handle
<1>2. ASSUME t \in Appliers
      PROVE  LET s == Head(todo[t])
             IN SlotsOf(s) \subseteq requested' \/ (rc' # "SUCCESS" /\ s[1] = "LED" /\ ~is_pro)
  <2>1. todo[t] \in Seq(Settings) /\ todo[t] # <<>>
    BY <1>1, <1>2 DEF ThreadsOK, CallOK
  <2> DEFINE s == Head(todo[t])
  <2>2. PICK v \in Values[s] : arg[t] = Append(s, v)
    BY <1>1, <1>2 DEF ThreadsOK, CallOK
  <2>3. s \in Settings
    BY <2>1
  <2>4. Callback(arg[t][1], arg[t][2], arg[t][3])
    BY DEF CallSetter
  <2>5. arg[t][1] = s[1] /\ arg[t][2] = s[2] /\ arg[t][3] = v
    <3> DEFINE b == Append(s, v)
    <3>1. b[1] = s[1] /\ b[2] = s[2] /\ b[3] = v
      <4> HIDE DEF s
      <4>1. \A x : LET a == Append(s, x) IN a[1] = s[1] /\ a[2] = s[2] /\ a[3] = x
        BY <2>3, SettingPair, Zenon
      <4> QED
        BY <4>1, Zenon
    <3>2. arg[t] = b
      BY <2>2
    <3> HIDE DEF b, s
    <3> QED
      BY <3>1, <3>2, Zenon
  <2> QED
    BY <2>3, <2>4, <2>5, SetterRequests
<1>3. CASE rc' # "SUCCESS"
  BY <1>1, <1>2, <1>3, ReturnCovered DEF CallSetter
<1>4. CASE rc' = "SUCCESS"
  <2>1. at' = [at EXCEPT ![t] = "unlocked"] /\ UNCHANGED todo
    BY <1>4 DEF CallSetter
  <2>2. ASSUME NEW u \in {"dev", "main"}, NEW s \in Settings, Ahead(u, s)
        PROVE  Ahead(u, s)' \/ SlotsOf(s) \subseteq requested'
    <3>1. CASE u # t
      BY <2>1, <2>2, <3>1, AheadSame
    <3>2. CASE u = t
      <4>1. PICK i \in 1..Len(todo[t]) : todo[t][i] = s
        BY <2>2, <3>2 DEF Ahead
      <4>2. CASE i = 1
        BY <1>2, <1>4, <3>2, <4>1, <4>2
      <4>3. CASE i # 1
        BY <2>1, <3>2, <4>1, <4>3 DEF Ahead
      <4> QED
        BY <4>2, <4>3
    <3> QED
      BY <3>1, <3>2
  <2> QED
    BY <1>1, <2>2, SlotsConstant, CoveredKept
<1> QED
  BY <1>3, <1>4

LEMMA SetFlagCovered ==
    ASSUME ThreadsOK, AllCovered, NEW t \in Threads, SetFlag(t) PROVE AllCovered'
  BY ReturnCovered DEF SetFlag, vars, handle

\* A step that takes nothing from the lists of the device manager and the main thread,
\* and opens no joystick.
LEMMA NothingTaken ==
    ASSUME AllCovered, \A t \in {"dev", "main"} : UNCHANGED <<todo[t], at[t]>>,
           hdl' = "live" => hdl = "live" /\ is_pro' = is_pro,
           dev_pc' # "init" => dev_pc # "init", requested \subseteq requested'
    PROVE  AllCovered'
  BY AheadSame, SlotsConstant, CoveredKept

\* Thread t has every setting ahead.
LEMMA AllAhead ==
    ASSUME NEW t \in {"dev", "main"}, ThreadsOK, Idle(t), UNCHANGED at,
           todo' = [todo EXCEPT ![t] = ApplyOrder]
    PROVE  AllCovered'
<1>1. todo'[t] = ApplyOrder /\ at'[t] = "idle"
  BY DEF ThreadsOK, Idle
<1>2. \A s \in Settings : Ahead(t, s)'
  BY <1>1, AheadOfAll
<1> QED
  BY <1>2 DEF AllCovered, Covered

LEMMA DeviceCovered == ASSUME ThreadsOK, AllCovered, Device PROVE AllCovered'
<1>1. CASE DevInit
  BY <1>1, AllAhead DEF DevInit, ThreadsOK
<1>2. CASE DevCheck
  <2>1. hdl' = "live" => hdl = "live" /\ is_pro' = is_pro
    BY <1>2 DEF DevCheck, IsConnected, CallbackFires, Closed, handle
  <2>2. requested' = requested
    BY <1>2 DEF DevCheck, IsConnected
  <2> QED
    BY <1>2, <2>1, <2>2, NothingTaken DEF DevCheck
<1>3. CASE DevConnect
  <2>1. CASE rc' = "SUCCESS"
    BY <1>3, <2>1, AllAhead DEF DevConnect, AppliedOnConnect, ThreadsOK
  <2>2. CASE rc' # "SUCCESS"
    BY <1>3, <2>2 DEF DevConnect, Connect, ConnectSucceeds, ConnectFails, Closed, AllCovered
  <2> QED
    BY <2>1, <2>2
<1>4. CASE DevPoll
  BY <1>4, NothingTaken DEF DevPoll, vars, handle
<1>5. CASE DevUpdate
  <2>1. hdl' = "live" => hdl = "live" /\ is_pro' = is_pro
    BY <1>5 DEF DevUpdate, UpdateStart, UpdateStep, Refuse, TransferSucceeds, TransferRetried,
                TransferGivenUp, UpdateDone, Closed, handle
  <2>2. requested' = requested
    BY <1>5 DEF DevUpdate, UpdateStart, UpdateStep, Refuse, TransferSucceeds, TransferRetried,
                TransferGivenUp, UpdateDone
  <2> QED
    BY <1>5, <2>1, <2>2, NothingTaken DEF DevUpdate
<1>6. CASE DevClear
  BY <1>6, NothingTaken DEF DevClear, vars, handle
<1>7. CASE DevDisconnect
  BY <1>7 DEF DevDisconnect, Disconnect, Closed, AllCovered
<1> QED
  BY <1>1, <1>2, <1>3, <1>4, <1>5, <1>6, <1>7 DEF Device

LEMMA OthersCovered == ASSUME ThreadsOK, AllCovered, Loads \/ Sets \/ Ticks PROVE AllCovered'
<1>1. UNCHANGED <<hdl, is_pro, requested, dev_pc>>
  BY DEF Loads, LoadDefaults, Sets, ConfigSet, Ticks, ClockTick, vars, handle
<1>2. \A t \in {"dev", "main"} : UNCHANGED <<todo[t], at[t]>>
  BY DEF Loads, LoadDefaults, Sets, ConfigSet, Ticks, ClockTick, ThreadsOK
<1> QED
  BY <1>1, <1>2, NothingTaken

LEMMA LoadFileCovered ==
    ASSUME ThreadsOK, AllCovered, NEW t \in Threads, LoadFile(t) PROVE AllCovered'
<1>1. t \in {"main", "cmd"} /\ Idle(t)
  BY DEF LoadFile, ThreadsOK
<1>2. CASE t = "main"
  BY <1>1, <1>2, AllAhead DEF LoadFile
<1>3. CASE t = "cmd"
  <2>1. UNCHANGED <<hdl, is_pro, requested, dev_pc>>
    BY DEF LoadFile, vars, handle
  <2>2. \A u \in {"dev", "main"} : UNCHANGED <<todo[u], at[u]>>
    BY <1>3 DEF LoadFile, ThreadsOK
  <2> QED
    BY <2>1, <2>2, NothingTaken
<1> QED
  BY <1>1, <1>2, <1>3

LEMMA StepCovered == ThreadsOK /\ AllCovered /\ [DNext]_dvars => AllCovered'
<1> SUFFICES ASSUME ThreadsOK, AllCovered, [DNext]_dvars PROVE AllCovered'
  OBVIOUS
<1>1. ASSUME NEW t \in Threads, Steps(t) PROVE AllCovered'
  BY <1>1, EvaluateCovered, CallSetterCovered, SetFlagCovered, LoadFileCovered DEF Steps
<1>2. CASE Physical /\ UNCHANGED threadvars
  <2>1. (hdl' = "live" => hdl = "live") /\ UNCHANGED <<is_pro, requested>>
    BY <1>2 DEF Physical, Unplug, Plug, handle
  <2> QED
    BY <1>2, <2>1, NothingTaken DEF threadvars
<1>3. CASE UNCHANGED dvars
  BY <1>3, NothingTaken DEF dvars, vars, handle, threadvars
<1> QED
  BY <1>1, <1>2, <1>3, DeviceCovered, OthersCovered DEF DNext

\* Whatever joystick is connected, by whichever route the last one was lost and in
\* whatever state a reload, a client or the clock was then, has been sent every setting
\* it has once the threads have come to rest: the device manager applies the
\* configuration after every connection (x52d_device.c:54), and no thread drops a
\* setting whose setter has not been called.
THEOREM SettingsReachJoystick == DSpec => []EverySettingRequested
<1>1. DInit => ThreadsOK /\ AllCovered
  BY InitThreads DEF DInit, Init, AllCovered
<1>2. ThreadsOK /\ AllCovered /\ [DNext]_dvars => (ThreadsOK /\ AllCovered)'
  BY StepThreads, StepCovered
<1>3. ThreadsOK /\ AllCovered => EverySettingRequested
  <2> SUFFICES ASSUME ThreadsOK, AllCovered, AllIdle, hdl = "live",
                      NEW s \in Settings, ~Skipped(s)
               PROVE  SlotsOf(s) \subseteq requested
    BY DEF EverySettingRequested
  <2>1. dev_pc # "init" /\ todo["dev"] = <<>> /\ todo["main"] = <<>>
    BY DEF AllIdle, Idle
  <2>2. ~Ahead("dev", s) /\ ~Ahead("main", s)
    BY <2>1 DEF Ahead
  <2> QED
    BY <2>1, <2>2 DEF AllCovered, Covered, Skipped
<1> QED
  BY <1>1, <1>2, <1>3, PTL DEF DSpec

-----------------------------------------------------------------------------
(* The daemon calls libx52 as Libx52 has an application do: one call at a  *)
(* time, and with arguments the setters take.                              *)

LEMMA SettingIsSetter ==
    ASSUME NEW s \in Settings, NEW v \in Values[s], s \notin Switches, Callback(s[1], s[2], v)
    PROVE  Setters
<1>1. s = <<s[1], s[2]>>
  BY SettingPair
<1>2. CASE s[1] = "LED"
  <2>1. v \in Supported(LedOf[s[2]]) /\ SetLedState(LedOf[s[2]], v) /\ s[2] \in DOMAIN LedOf
    BY <1>2 DEF Callback
  <2>2. LedOf[s[2]] \in SingleLeds \cup ColourLeds
    BY <2>1 DEF LedOf, SingleLeds, ColourLeds, FIRE, THROTTLE
  <2>3. v \in LedStates
    BY <2>1 DEF Supported, LedStates
  <2> QED
    BY <2>1, <2>2, <2>3 DEF Setters
<1>3. CASE s[1] = "Brightness"
  BY <1>1, <1>3 DEF Callback, Setters
<1>4. CASE s[1] = "Clock" /\ s[2] \in DOMAIN ZoneOf
  <2>1. ZoneOf[s[2]] \in Clocks /\ SetClockTimezone(ZoneOf[s[2]], v) /\ v \in Offsets
    BY <1>1, <1>4 DEF Callback, ZoneOf, FormatOf, Clocks
  <2> QED
    BY <2>1 DEF Setters
<1>5. CASE s[1] = "Clock" /\ s[2] \in DOMAIN FormatOf
  <2>1. FormatOf[s[2]] \in Clocks /\ SetClockFormat(FormatOf[s[2]], v) /\ v \in Formats
    BY <1>1, <1>5 DEF Callback, ZoneOf, FormatOf, Clocks
  <2> QED
    BY <2>1 DEF Setters
<1>6. CASE s[1] = "Clock" /\ s[2] = "DateFormat"
  <2>1. SetDateFormat(v) /\ v \in DateFormats
    BY <1>1, <1>6 DEF Callback, ZoneOf, FormatOf
  <2> QED
    BY <2>1 DEF Setters
<1> QED
  BY <1>1, <1>2, <1>3, <1>4, <1>5, <1>6 DEF Switches

LEMMA ClockIsSetter ==
    ASSUME NEW d \in Dates \ {ZeroDate}, NEW h \in Times, NEW tz \in LocalZones,
           Callback("Clock", "now", <<d, h, tz>>)
    PROVE  Setters
<1>1. SetClock(d, h, tz)
  BY DEF Callback, ZoneOf, FormatOf
<1> QED
  BY <1>1 DEF Setters

LEMMA CallSetterAllowed ==
    ASSUME ThreadsOK, NEW t \in Threads, CallSetter(t) PROVE ~busy /\ Setters
<1>1. ~busy /\ at[t] = "lock" /\ Callback(arg[t][1], arg[t][2], arg[t][3])
  BY DEF CallSetter, MutexFree
<1>2. CASE t \in Appliers
  <2>1. todo[t] \in Seq(Settings) /\ todo[t] # <<>> /\ Head(todo[t]) \notin Switches
    BY <1>1, <1>2 DEF ThreadsOK, CallOK
  <2> DEFINE s == Head(todo[t])
  <2>2. PICK v \in Values[s] : arg[t] = Append(s, v)
    BY <1>1, <1>2 DEF ThreadsOK, CallOK
  <2>3. s \in Settings
    BY <2>1
  <2>4. arg[t][1] = s[1] /\ arg[t][2] = s[2] /\ arg[t][3] = v
    <3> DEFINE b == Append(s, v)
    <3>1. b[1] = s[1] /\ b[2] = s[2] /\ b[3] = v
      <4> HIDE DEF s
      <4>1. \A x : LET a == Append(s, x) IN a[1] = s[1] /\ a[2] = s[2] /\ a[3] = x
        BY <2>3, SettingPair, Zenon
      <4> QED
        BY <4>1, Zenon
    <3>2. arg[t] = b
      BY <2>2
    <3> HIDE DEF b, s
    <3> QED
      BY <3>1, <3>2, Zenon
  <2> QED
    BY <1>1, <2>1, <2>3, <2>4, SettingIsSetter
<1>3. CASE t \notin Appliers
  <2>1. PICK d \in Dates \ {ZeroDate}, h \in Times, tz \in LocalZones :
            arg[t] = <<"Clock", "now", <<d, h, tz>>>>
    BY <1>1, <1>3 DEF ThreadsOK, CallOK
  <2> QED
    BY <1>1, <2>1, ClockIsSetter
<1> QED
  BY <1>2, <1>3

LEMMA StepAllowed == ThreadsOK /\ [DNext]_dvars => [Next]_vars
<1> SUFFICES ASSUME ThreadsOK, [DNext]_dvars PROVE [Next]_vars
  OBVIOUS
<1>1. dev_pc # "update" => ~busy
  BY DEF ThreadsOK
<1>2. CASE Device
  BY <1>1, <1>2 DEF Device, DevInit, DevCheck, DevConnect, DevPoll, DevUpdate, DevClear,
                    DevDisconnect, Next, Calls
<1>3. ASSUME NEW t \in Threads, Steps(t) PROVE [Next]_vars
  <2>1. CASE CallSetter(t)
    BY <2>1, CallSetterAllowed DEF Next, Requests
  <2>2. CASE (t \in Appliers /\ Evaluate(t)) \/ SetFlag(t) \/ LoadFile(t)
    BY <2>2 DEF Evaluate, SetFlag, LoadFile
  <2> QED
    BY <1>3, <2>1, <2>2 DEF Steps
<1>4. CASE Loads \/ Sets \/ Ticks
  BY <1>4 DEF Loads, LoadDefaults, Sets, ConfigSet, Ticks, ClockTick
<1>5. CASE Physical
  BY <1>5 DEF Next
<1>6. CASE UNCHANGED dvars
  BY <1>6 DEF dvars
<1> QED
  BY <1>2, <1>3, <1>4, <1>5, <1>6 DEF DNext

\* The mutex of x52d_device.c serialises the calls of its four threads, which is all
\* libx52 asks of an application: every run of the daemon is one of Libx52.
THEOREM UsesLibrary == DSpec => Spec
<1>1. DInit => Init /\ ThreadsOK
  BY InitThreads DEF DInit
<1> QED
  BY <1>1, StepThreads, StepAllowed, PTL DEF DSpec, Spec

\* So what holds of the library for any application holds in the daemon: no request of
\* any of its threads is lost to a failed update, an unplug or a reconnect,
THEOREM DaemonKeepsRequests == ASSUME AppendsOnce PROVE DSpec => RequestsSurvive
  BY UsesLibrary, NoRequestLost, PTL

\* and what is not dirty is shown.
THEOREM DaemonShows == ASSUME AppendsOnce PROVE DSpec => []CleanSlotsShown
  BY UsesLibrary, CleanShown, PTL

\* it is the later request of a slot that its joystick shows,
THEOREM DaemonIsCache == ASSUME AppendsOnce PROVE DSpec => CacheSpec
  BY UsesLibrary, LibraryIsCache, PTL

\* and the secondary and the tertiary clock are the offsets of their zones.
THEOREM DaemonClocksRight == DSpec => []SecondaryClocksRight
  BY UsesLibrary, ClocksRight, PTL

-----------------------------------------------------------------------------
(* The flag that carries the requests to the device manager.  It is not    *)
(* guarded by the mutex; the steps between which it could be lost are      *)
(* those of the device manager, which polls it, updates and clears it.     *)

\* A call that neither makes a slot dirty nor touches the flag or a thread that is
\* about to set it keeps what is heard.
LEMMA HeardSame ==
    ASSUME ThreadsOK, Dirty' \subseteq Dirty \/ Heard', device_update_needed => device_update_needed',
           \A t \in Threads : at[t] = "unlocked" => at'[t] = "unlocked"
    PROVE  (Dirty' \ Dirty # {} \/ Heard) => Heard'
  BY DEF Heard

\* A setter that is refused has marked no slot.
LEMMA RefusedMarksNothing ==
    ASSUME NEW section, NEW key, NEW v, Callback(section, key, v), rc' # "SUCCESS"
    PROVE  Dirty' = Dirty
  BY DEF Callback, SetLedState, SetMfdBrightness, SetLedBrightness, SetClockTimezone,
         SetClockFormat, SetDateFormat, SetClock, Request, Refuse, Dirty, progress

LEMMA CallSetterHeard ==
    ASSUME ThreadsOK, NEW t \in Threads, CallSetter(t)
    PROVE  (Dirty' \ Dirty # {} \/ Heard) => Heard'
<1>1. at[t] = "lock" /\ UNCHANGED device_update_needed
  BY DEF CallSetter
<1>2. CASE at' = [at EXCEPT ![t] = "unlocked"]
  BY <1>2 DEF Heard, ThreadsOK
<1>3. CASE rc' # "SUCCESS" /\ Return(t)
  <2>1. Dirty' = Dirty
    BY <1>3, RefusedMarksNothing DEF CallSetter
  <2>2. \A u \in Threads : at[u] = "unlocked" => at'[u] = "unlocked"
    BY <1>1, <1>3 DEF Return, ThreadsOK
  <2> QED
    BY <1>1, <2>1, <2>2 DEF Heard
<1> QED
  BY <1>2, <1>3 DEF CallSetter

\* libx52_update writes slots, or has them wait for the next one.
LEMMA UpdateMarksNothing == ASSUME UpdateStart \/ UpdateStep PROVE Dirty' \subseteq Dirty
<1>1. CASE UpdateStart
  BY <1>1 DEF UpdateStart, Refuse, Dirty, progress
<1>2. ASSUME NEW b \in Slots, TransferSucceeds(b) \/ TransferRetried(b) \/ TransferGivenUp(b)
      PROVE  Dirty' \subseteq Dirty
  BY <1>2 DEF TransferSucceeds, TransferRetried, TransferGivenUp, LeftDirty, Dirty
<1>3. CASE UpdateDone
  BY <1>3 DEF UpdateDone, Dirty
<1> QED
  BY <1>1, <1>2, <1>3 DEF UpdateStep

LEMMA DeviceHeard ==
    ASSUME ThreadsOK, Device
    PROVE  \/ (Dirty' \ Dirty # {} \/ Heard) => Heard'
           \/ dev_pc = "clear" /\ dev_pc' = "loop"
<1>1. UNCHANGED at
  BY DEF Device, DevInit, DevCheck, DevConnect, DevPoll, DevUpdate, DevClear, DevDisconnect
<1>2. CASE DevClear
  BY <1>2 DEF DevClear
<1>3. CASE DevUpdate
  <2>1. Dirty' \subseteq Dirty
    BY <1>3, UpdateMarksNothing DEF DevUpdate
  <2> QED
    BY <1>1, <1>3, <2>1, HeardSame DEF DevUpdate
<1>4. CASE DevInit \/ DevConnect
  <2>1. Dirty' = Dirty /\ UNCHANGED device_update_needed
    BY <1>4 DEF DevInit, DevConnect, Connect, ConnectSucceeds, ConnectFails, Dirty, progress
  <2> QED
    BY <1>1, <2>1, HeardSame
<1>5. CASE DevCheck \/ DevDisconnect
  <2>1. Dirty' = Dirty /\ UNCHANGED device_update_needed
    BY <1>5 DEF DevCheck, IsConnected, DevDisconnect, Disconnect, Dirty, progress
  <2> QED
    BY <1>1, <2>1, HeardSame
<1>6. CASE DevPoll
  <2>1. Dirty' = Dirty /\ UNCHANGED device_update_needed
    BY <1>6 DEF DevPoll, FlagKept, Dirty, vars, progress
  <2> QED
    BY <1>1, <2>1, HeardSame
<1> QED
  BY <1>2, <1>3, <1>4, <1>5, <1>6 DEF Device

LEMMA OthersHeard ==
    ASSUME ThreadsOK, \/ Loads \/ Sets \/ Ticks
                      \/ \E t \in Threads : LoadFile(t) \/ (t \in Appliers /\ Evaluate(t))
    PROVE  (Dirty' \ Dirty # {} \/ Heard) => Heard'
<1>1. Dirty' = Dirty /\ UNCHANGED device_update_needed
  BY DEF Loads, LoadDefaults, Sets, ConfigSet, Ticks, ClockTick, LoadFile, Evaluate, Dirty, vars,
         progress
<1>2. CASE UNCHANGED at
  BY <1>1, <1>2, HeardSame
<1>3. ASSUME NEW t \in Threads, at[t] = "idle", at' = [at EXCEPT ![t] = "lock"]
      PROVE  (Dirty' \ Dirty # {} \/ Heard) => Heard'
  <2>1. \A u \in Threads : at[u] = "unlocked" => at'[u] = "unlocked"
    BY <1>3 DEF ThreadsOK
  <2> QED
    BY <1>1, <2>1, HeardSame
<1>4. CASE Ticks
  BY <1>3, <1>4 DEF Ticks, ClockTick, Idle
<1>5. ASSUME NEW t \in Appliers, Evaluate(t) PROVE (Dirty' \ Dirty # {} \/ Heard) => Heard'
  BY <1>2, <1>3, <1>5 DEF Evaluate
<1>6. CASE Loads \/ Sets \/ \E t \in Threads : LoadFile(t)
  BY <1>2, <1>6 DEF Loads, LoadDefaults, Sets, ConfigSet, LoadFile
<1> QED
  BY <1>4, <1>5, <1>6

LEMMA StepHeard ==
    ThreadsOK /\ [DNext]_dvars =>
        [ (Dirty' \ Dirty # {} \/ Heard) =>
          (Heard' \/ (dev_pc = "clear" /\ dev_pc' = "loop")) ]_dvars
<1> SUFFICES ASSUME ThreadsOK, DNext
             PROVE  (Dirty' \ Dirty # {} \/ Heard) =>
                    (Heard' \/ (dev_pc = "clear" /\ dev_pc' = "loop"))
  OBVIOUS
<1>1. ASSUME NEW t \in Threads, SetFlag(t) PROVE Heard'
  BY <1>1 DEF SetFlag, Heard
<1>2. CASE Physical /\ UNCHANGED threadvars
  <2>1. Dirty' = Dirty
    BY <1>2 DEF Physical, Unplug, Plug, Dirty, progress
  <2> QED
    BY <1>2, <2>1, HeardSame DEF threadvars
<1>3. ASSUME NEW t \in Threads, Steps(t) PROVE (Dirty' \ Dirty # {} \/ Heard) => Heard'
  BY <1>1, <1>3, CallSetterHeard, OthersHeard DEF Steps
<1>4. CASE Loads \/ Sets \/ Ticks
  BY <1>4, OthersHeard
<1> QED
  BY <1>2, <1>3, <1>4, DeviceHeard DEF DNext

\* No request is forgotten on its way to the device manager: who marks a slot tells it,
\* and what it was told goes with the clearing of the flag after an update that
\* succeeded (x52d_device.c:183), not with an update that failed, a joystick lost or a
\* reconnect.
THEOREM RequestsAreHeard == DSpec => RequestsHeard
<1>1. DInit => ThreadsOK
  BY InitThreads
<1> QED
  BY <1>1, StepThreads, StepHeard, PTL DEF DSpec, RequestsHeard

-----------------------------------------------------------------------------
(* A joystick that was connected shows the configuration.                  *)

\* The threads at rest, every slot of a setting the joystick has that is not dirty shows
\* what the context says.
SettingsShown ==
    AllIdle /\ hdl = "live" =>
        \A s \in Settings : ~Skipped(s) => \A b \in SlotsOf(s) \ Dirty : Shows(b)

\* A retry does no setting harm: none is a line of the display.
LEMMA NoSettingIsLine == ASSUME NEW s \in Settings PROVE SlotsOf(s) \cap LineBits = {}
<1>1. LineBits = {21, 22, 23}
  BY DEF LineBits, Lines, LineBit
<1>2. CASE s[1] = "LED"
  <2>1. LedOf[s[2]] \in {1, 20, 2, 4, 6, 8, 10, 12, 14, 16, 18}
    BY <1>2 DEF LedOf, FIRE, THROTTLE
  <2>2. SlotsOf(s) \subseteq 1..20
    BY <1>2, <2>1 DEF SlotsOf, LedBits, SingleLeds, FIRE, THROTTLE
  <2>3. (1..20) \cap {21, 22, 23} = {}
    OBVIOUS
  <2> QED
    BY <1>1, <2>2, <2>3, Zenon
<1>3. CASE s[1] = "Brightness"
  <2>1. s = <<s[1], s[2]>> /\ s[2] \in {"MFD", "LED"}
    BY <1>3, SettingPair
  <2>2. CASE s[2] = "MFD"
    BY <1>1, <1>3, <2>1, <2>2 DEF SlotsOf, BRI_MFD
  <2>3. CASE s[2] = "LED"
    BY <1>1, <1>3, <2>1, <2>3 DEF SlotsOf, BRI_LED
  <2> QED
    BY <2>1, <2>2, <2>3
<1>4. CASE s[1] = "Clock"
  BY <1>4, ClockHasNoSlots
<1> QED
  BY <1>2, <1>3, <1>4

\* The daemon and the library together, and without an assumption on what a failed
\* transfer did: however the joystick came, whatever failed since, once the threads are at
\* rest each LED and brightness of the configuration has been requested of it, and those
\* that are not dirty it shows.
THEOREM ConfigurationShown == DSpec => [](EverySettingRequested /\ SettingsShown)
<1>1. IInv /\ EverySettingRequested => SettingsShown
  <2> SUFFICES ASSUME IInv, EverySettingRequested, AllIdle, hdl = "live",
                      NEW s \in Settings, ~Skipped(s), NEW b \in SlotsOf(s) \ Dirty
               PROVE  Shows(b)
    BY DEF SettingsShown
  <2>1. b \in requested /\ requested \subseteq Slots
    BY DEF EverySettingRequested, IInv, TypeOK
  <2>2. b \notin LineBits
    BY NoSettingIsLine
  <2>3. b \in (requested \ Dirty) \cap Repeatable
    BY <2>1, <2>2 DEF Repeatable
  <2> QED
    BY <2>3 DEF IInv, RepeatableShown
<1>2. Spec => []IInv
  BY Initially, Inductive, PTL DEF Spec
<1> QED
  BY <1>1, <1>2, SettingsReachJoystick, UsesLibrary, PTL

-----------------------------------------------------------------------------
(* The remaining parts of the type invariant.                              *)

FlagsTyped == clock_enabled \in BOOLEAN /\ primary_is_local \in BOOLEAN
              /\ device_update_needed \in BOOLEAN
ArgsOK == \A t \in Threads : at[t] = "idle" <=> arg[t] = <<>>
FlagsOfHandle == is_pro \/ handle_registered => hdl # "null"

LEMMA FlagsOK == ThreadsOK /\ FlagsTyped /\ [DNext]_dvars => FlagsTyped'
<1> SUFFICES ASSUME ThreadsOK, FlagsTyped, [DNext]_dvars PROVE FlagsTyped'
  OBVIOUS
<1>1. CASE Device
  BY <1>1 DEF Device, DevInit, DevCheck, DevConnect, DevPoll, FlagKept, DevUpdate, DevClear,
              DevDisconnect, clock, FlagsTyped
<1>2. ASSUME NEW t \in Appliers, Evaluate(t) PROVE FlagsTyped'
  <2> DEFINE s == Head(todo[t])
  <2>1. s \in Settings
    BY <1>2 DEF Evaluate, ThreadsOK
  <2>2. s \in Switches => config[s] \in BOOLEAN
    <3>1. s \in Switches => Values[s] \subseteq BOOLEAN
      BY <2>1 DEF Switches, ZoneOf, FormatOf
    <3> QED
      BY <2>1, <3>1 DEF ThreadsOK
  <2> QED
    BY <1>2, <2>2 DEF Evaluate, Switches, clock, FlagsTyped
<1>3. ASSUME NEW t \in Threads, CallSetter(t) \/ SetFlag(t) \/ LoadFile(t) PROVE FlagsTyped'
  BY <1>3 DEF CallSetter, SetFlag, LoadFile, clock, FlagsTyped
<1>4. CASE Loads \/ Sets \/ Ticks
  BY <1>4 DEF Loads, LoadDefaults, Sets, ConfigSet, Ticks, ClockTick, clock, FlagsTyped
<1>5. CASE UNCHANGED threadvars
  BY <1>5 DEF threadvars, clock, FlagsTyped
<1> QED
  BY <1>1, <1>2, <1>3, <1>4, <1>5 DEF DNext, Steps, dvars

LEMMA ArgsStep == ThreadsOK /\ ArgsOK /\ [DNext]_dvars => ArgsOK'
<1> SUFFICES ASSUME ThreadsOK, ArgsOK, [DNext]_dvars PROVE ArgsOK'
  OBVIOUS
<1>1. CASE UNCHANGED <<at, arg>>
  BY <1>1 DEF ArgsOK
<1>2. ASSUME NEW t \in Threads, Return(t) PROVE ArgsOK'
  BY <1>2 DEF Return, ArgsOK, ThreadsOK
<1>3. ASSUME NEW t \in Appliers, Evaluate(t) PROVE ArgsOK'
  <2>1. \A s \in Settings : \A v : Append(s, v) # <<>>
    <3> SUFFICES ASSUME NEW s \in Settings, NEW v PROVE Append(s, v) # <<>>
      OBVIOUS
    <3> DEFINE x == s[1]
               y == s[2]
    <3>1. s = <<x, y>>
      BY SettingPair
    <3> HIDE DEF x, y
    <3>2. Append(<<x, y>>, v) # <<>>
      OBVIOUS
    <3> QED
      BY <3>1, <3>2
  <2>2. Head(todo[t]) \in Settings
    BY <1>3 DEF Evaluate, ThreadsOK
  <2> QED
    BY <1>1, <1>3, <2>1, <2>2 DEF Evaluate, ArgsOK, ThreadsOK
<1>4. ASSUME NEW t \in Threads, CallSetter(t) PROVE ArgsOK'
  BY <1>2, <1>4 DEF CallSetter, ArgsOK, ThreadsOK
<1>5. CASE Ticks
  BY <1>5 DEF Ticks, ClockTick, ArgsOK, ThreadsOK
<1>6. CASE Device \/ Loads \/ Sets
  BY <1>1, <1>6 DEF Device, DevInit, DevCheck, DevConnect, DevPoll, DevUpdate, DevClear,
                    DevDisconnect, Loads, LoadDefaults, Sets, ConfigSet
<1>7. ASSUME NEW t \in Threads, SetFlag(t) \/ LoadFile(t) PROVE ArgsOK'
  BY <1>1, <1>2, <1>7 DEF SetFlag, LoadFile
<1>8. CASE UNCHANGED threadvars
  BY <1>1, <1>8 DEF threadvars
<1> QED
  BY <1>3, <1>4, <1>5, <1>6, <1>7, <1>8 DEF DNext, Steps, dvars

LEMMA FlagsOfHandleStep == FlagsOfHandle /\ [Next]_vars => FlagsOfHandle'
<1> SUFFICES ASSUME FlagsOfHandle, [Next]_vars PROVE FlagsOfHandle'
  OBVIOUS
<1>1. CASE Closed
  BY <1>1 DEF Closed, FlagsOfHandle
<1>2. CASE UNCHANGED handle
  BY <1>2 DEF handle, FlagsOfHandle
<1>3. CASE Setters
  BY <1>2, <1>3 DEF Setters, SetText, SetLedState, SetMfdBrightness, SetLedBrightness, SetLamp,
     SetDate, SetTime, SetDateFormat, SetClock, SetClockTimezone, SetClockFormat, Request, Refuse
<1>4. ASSUME NEW b \in Slots, VendorCommand(b) PROVE FlagsOfHandle'
  BY <1>1, <1>2, <1>4 DEF VendorCommand, Refuse
<1>5. CASE Calls
  BY <1>1, <1>2, <1>5 DEF Calls, Connect, ConnectSucceeds, ConnectFails, Disconnect, IsConnected,
     CallbackFires, UpdateStart, Refuse, FlagsOfHandle
<1>6. CASE UpdateStep
  BY <1>1, <1>2, <1>6 DEF UpdateStep, TransferSucceeds, TransferRetried, TransferGivenUp, UpdateDone
<1>7. CASE Physical
  BY <1>2, <1>7 DEF Physical, Unplug, Plug, FlagsOfHandle
<1> QED
  BY <1>2, <1>3, <1>4, <1>5, <1>6, <1>7 DEF Next, Requests, vars

\* The variables of the daemon have their types, the update is the device manager's
\* alone, and a thread has a call at hand exactly while it makes it.
THEOREM DaemonTypeCorrect == DSpec => []DTypeOK
<1>1. DInit => ThreadsOK /\ FlagsTyped /\ ArgsOK /\ FlagsOfHandle
  BY InitThreads DEF DInit, Init, FlagsTyped, ArgsOK, FlagsOfHandle
<1>2. ThreadsOK /\ TypeOK /\ FlagsTyped /\ ArgsOK /\ FlagsOfHandle => DTypeOK
  BY DEF DTypeOK, ThreadsOK, FlagsTyped, ArgsOK, FlagsOfHandle
<1>3. Spec => []TypeOK
  BY TypeCorrect
<1>4. DSpec => [](ThreadsOK /\ FlagsTyped /\ ArgsOK /\ FlagsOfHandle)
  BY <1>1, StepThreads, StepAllowed, FlagsOK, ArgsStep, FlagsOfHandleStep, PTL DEF DSpec
<1> QED
  BY <1>2, <1>3, <1>4, UsesLibrary, PTL
=============================================================================
