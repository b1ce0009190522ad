---------------------------- MODULE Libx52Proofs ----------------------------
(***************************************************************************)
(* Theorems about Libx52, for every joystick, text, time zone and set of   *)
(* slots.  The induction is on IInv below: what is true of a clean slot    *)
(* follows from how far the write of the slot under way has come.          *)
(***************************************************************************)
EXTENDS Libx52, TLAPS

-----------------------------------------------------------------------------
(* The offsets of the secondary clocks.                                    *)

\* A number of minutes and the number sent for it differ by whole days.
LEMMA DaysDropped ==
    ASSUME NEW m \in Nat
    PROVE  LET wrapped == ((m - 1024) % 1440) - 416
           IN wrapped \in -416..1023 /\ (wrapped - m) % 1440 = 0
  OBVIOUS

\* The offset that date_time.c computes for a secondary clock fits in ten bits,
\* and names the same time of day as the difference of the time zones asked
\* for, whatever the zones are.
THEOREM ClockOffsetCorrect ==
    ASSUME NEW d \in Int, NEW fmt \in Formats
    PROVE  LET o == ClockOffset(d, fmt)
               minutes == IF o.negative THEN -o.offset ELSE o.offset
           IN o.offset \in 0..1023 /\ (minutes - d) % 1440 = 0
<1> DEFINE m == IF d < 0 THEN -d ELSE d
           wrapped == ((m - 1024) % 1440) - 416
           size == IF wrapped < 0 THEN -wrapped ELSE wrapped
           opposite == (d < 0) # (wrapped < 0)
           minutes == IF opposite THEN -size ELSE size
<1>1. m \in Nat /\ wrapped \in -416..1023 /\ (wrapped - m) % 1440 = 0
  <2>1. m \in Nat
    OBVIOUS
  <2>2. QED
    BY <2>1, DaysDropped
<1>2. size \in 0..1023 /\ size % 1024 = size
  <2> HIDE DEF wrapped
  <2> QED BY <1>1
<1>3. ClockOffset(d, fmt) = [h24 |-> fmt = "24hr", negative |-> opposite, offset |-> size]
  BY <1>2 DEF ClockOffset
<1>4. (minutes - d) % 1440 = 0
  <2> HIDE DEF wrapped
  <2>1. CASE d < 0
    <3>1. minutes = -wrapped /\ m = -d
      BY <1>1, <2>1
    <3>2. QED
      BY <1>1, <3>1
  <2>2. CASE ~(d < 0)
    <3>1. minutes = wrapped /\ m = d
      BY <1>1, <2>2
    <3>2. QED
      BY <1>1, <3>1
  <2>3. QED
    BY <2>1, <2>2
<1> HIDE DEF size, opposite
<1>5. QED
  BY <1>2, <1>3, <1>4

-----------------------------------------------------------------------------
(* The inductive invariant.                                                *)

\* What the register of the slot being written holds so far.
WrittenSoFar(b) ==
    /\ b \in LineBits /\ cmd > 1 =>
          regs[b] = SubSeq(fields.line[b - LineBit(0)], 1, cmd - 2)
    /\ b = MFD_DATE /\ cmd = 2 => regs[b] = DateCommands(fields)[1]

\* A line is cleared and then appended to, and to append twice is not to append once:
\* where a transfer that failed may have reached the joystick, it is no line that
\* the invariant answers for.
Repeatable == {b \in Slots : LostAcks => b \notin LineBits}

\* Between updates nothing is pending; an update owns all marks, and is at a
\* command its slot has.
UpdateOK ==
    /\ busy => update_mask = {} /\ hdl # "null"
    /\ ~busy => pending = {}
    /\ pending = {} => cmd = 1
    /\ \A b \in Slots : Current(b) => cmd \in 1..Commands(fields, b)
    /\ hdl = "live" => \A b \in Repeatable : Current(b) => WrittenSoFar(b)

\* An open joystick is there, and its callback will see it go.
HandleOK ==
    /\ hdl = "live" => port # None
    /\ hdl = "live" /\ handle_registered => port \in callbacks
    /\ DeadHandleIsReported

RepeatableShown == hdl = "live" => \A b \in (requested \ Dirty) \cap Repeatable : Shows(b)

IInv == TypeOK /\ HandleOK /\ UpdateOK /\ RepeatableShown

-----------------------------------------------------------------------------
(* Updating one field of the context changes the images of its slots only. *)

LEMMA SlotKinds ==
    ASSUME NEW b \in Bits
    PROVE  \/ b \in LampBits \/ b \in LineBits
           \/ b \in {BRI_MFD, BRI_LED, MFD_DATE, MFD_TIME, MFD_OFFS1, MFD_OFFS2}
  BY DEF Bits, LampBits, LineBits, Lines, LineBit, BLINK,
         BRI_MFD, BRI_LED, MFD_DATE, MFD_TIME, MFD_OFFS1, MFD_OFFS2

\* What the image of a slot is made from.
LEMMA SameImage ==
    ASSUME NEW f \in ContextFields, NEW g \in ContextFields, NEW b \in Bits,
           b \in LampBits => (b \in g.led_mask <=> b \in f.led_mask),
           b \in LineBits => g.line[b - LineBit(0)] = f.line[b - LineBit(0)],
           b = BRI_MFD => g.mfd_brightness = f.mfd_brightness,
           b = BRI_LED => g.led_brightness = f.led_brightness,
           b = MFD_DATE => g.date = f.date /\ g.date_format = f.date_format,
           b = MFD_TIME => g.time = f.time /\ g.time_format[1] = f.time_format[1],
           b = MFD_OFFS1 => /\ g.timezone[1] = f.timezone[1]
                            /\ g.timezone[2] = f.timezone[2]
                            /\ g.time_format[2] = f.time_format[2],
           b = MFD_OFFS2 => /\ g.timezone[1] = f.timezone[1]
                            /\ g.timezone[3] = f.timezone[3]
                            /\ g.time_format[3] = f.time_format[3]
    PROVE  Image(g, b) = Image(f, b)
<1> USE DEF LampBits, LineBits, Lines, LineBit, BLINK,
            BRI_MFD, BRI_LED, MFD_DATE, MFD_TIME, MFD_OFFS1, MFD_OFFS2
<1>1. CASE b \in LampBits
  <2>1. CASE b \in f.led_mask
    BY <1>1, <2>1 DEF Image
  <2>2. CASE b \notin f.led_mask
    BY <1>1, <2>2 DEF Image
  <2>3. QED
    BY <2>1, <2>2
<1>2. CASE b \in LineBits
  BY <1>2 DEF Image
<1>3. CASE b = BRI_MFD \/ b = BRI_LED
  BY <1>3 DEF Image
<1>4. CASE b = MFD_DATE
  <2>1. f.date_format \in {"YYMMDD", "MMDDYY", "DDMMYY"}
    BY DEF ContextFields, DateFormats
  <2>2. DateCommands(g) = DateCommands(f)
    BY <1>4, <2>1 DEF DateCommands
  <2>3. QED
    BY <1>4, <2>2 DEF Image
<1>5. CASE b = MFD_TIME
  BY <1>5 DEF Image
<1>6. CASE b = MFD_OFFS1
  BY <1>6 DEF Image
<1>7. CASE b = MFD_OFFS2
  BY <1>7 DEF Image
<1> QED
  BY <1>1, <1>2, <1>3, <1>4, <1>5, <1>6, <1>7, SlotKinds

\* A good context g that differs from f in the slots marked only.
Changes(f, marked, g) ==
    /\ g \in Contexts
    /\ \A b \in Bits \ marked : Image(g, b) = Image(f, b)

\* What the setters make of a context, named to be expanded where needed only.
WithLit(f, lit) == [f EXCEPT !.led_mask = lit]
WithText(f, l, text) == [f EXCEPT !.line[l] = text]
WithMfdBrightness(f, v) == [f EXCEPT !.mfd_brightness = v]
WithLedBrightness(f, v) == [f EXCEPT !.led_brightness = v]
WithDate(f, d) == [f EXCEPT !.date = d]
WithDateFormat(f, fmt) == [f EXCEPT !.date_format = fmt]
WithTime(f, t) == [f EXCEPT !.time = t]
WithClock(f, d, t, tz) == [f EXCEPT !.date = d, !.time = t, !.timezone[1] = tz]
WithZone(f, c, offset) == [f EXCEPT !.timezone[c] = offset]
WithFormat(f, c, fmt) == [f EXCEPT !.time_format[c] = fmt]

LEMMA GoodFields ==
    ASSUME NEW f \in Contexts
    PROVE  /\ f \in ContextFields
           /\ \A l \in Lines : Fits(f.line[l])
           /\ \A c \in Clocks : f.timezone[c] \in Minutes
  BY DEF Contexts

LEMMA GoodContext ==
    ASSUME NEW f \in ContextFields,
           \A l \in Lines : Fits(f.line[l]),
           \A c \in Clocks : f.timezone[c] \in Minutes
    PROVE  f \in Contexts
  BY DEF Contexts

\* Texts and time zones, if kept, stay good.
LEMMA StillGood ==
    ASSUME NEW f \in Contexts, NEW g \in ContextFields,
           g.line = f.line, g.timezone = f.timezone
    PROVE  g \in Contexts
<1>1. \A l \in Lines : Fits(g.line[l])
  BY GoodFields
<1>2. \A c \in Clocks : g.timezone[c] \in Minutes
  BY GoodFields
<1>3. QED
  BY <1>1, <1>2, GoodContext

\* Replacing one element by a good one leaves all of them good.
LEMMA StillAll ==
    ASSUME NEW S, NEW R, NEW old, NEW new, NEW i \in S, new[i] \in R,
           \A o \in S \ {i} : new[o] = old[o],
           \A o \in S : old[o] \in R
    PROVE  \A o \in S : new[o] \in R
  OBVIOUS

LEMMA LitUpdate ==
    ASSUME NEW f \in Contexts, NEW lit \in SUBSET Bits, NEW marked,
           lit \ marked = f.led_mask \ marked
    PROVE  Changes(f, marked, WithLit(f, lit))
<1> DEFINE g == WithLit(f, lit)
<1>1. f \in ContextFields
  BY GoodFields
<1>2. /\ g \in ContextFields /\ g.line = f.line /\ g.timezone = f.timezone
      /\ g.led_mask = lit /\ g.date = f.date /\ g.date_format = f.date_format
      /\ g.mfd_brightness = f.mfd_brightness /\ g.led_brightness = f.led_brightness
      /\ g.time = f.time /\ g.time_format = f.time_format
  BY <1>1 DEF WithLit, ContextFields
<1> HIDE DEF g
<1>3. g \in Contexts
  BY <1>2, StillGood
<1>4. ASSUME NEW b \in Bits \ marked  PROVE Image(g, b) = Image(f, b)
  <2>1. b \in g.led_mask <=> b \in f.led_mask
    BY <1>2
  <2>2. QED
    BY <1>1, <1>2, <2>1, SameImage
<1>5. QED
  BY <1>3, <1>4 DEF Changes, g

LEMMA TextUpdate ==
    ASSUME NEW f \in Contexts, NEW l \in Lines,
           NEW text \in Seq(Chunks), Fits(text)
    PROVE  Changes(f, {LineBit(l)}, WithText(f, l, text))
<1> DEFINE g == WithText(f, l, text)
<1>1. f \in ContextFields
  BY GoodFields
<1>2. /\ g \in ContextFields /\ g.timezone = f.timezone
      /\ g.line[l] = text /\ \A k \in Lines \ {l} : g.line[k] = f.line[k]
  BY <1>1 DEF WithText, ContextFields
<1>3. /\ g.led_mask = f.led_mask /\ g.date = f.date /\ g.date_format = f.date_format
      /\ g.mfd_brightness = f.mfd_brightness /\ g.led_brightness = f.led_brightness
      /\ g.time = f.time /\ g.time_format = f.time_format
  BY <1>1 DEF WithText, ContextFields
<1> HIDE DEF g
<1>4. g \in Contexts
  <2>1. \A k \in Lines : Fits(g.line[k])
    BY <1>2, GoodFields
  <2>2. \A c \in Clocks : g.timezone[c] \in Minutes
    BY <1>2, GoodFields
  <2>3. QED
    BY <1>2, <2>1, <2>2, GoodContext
<1>5. ASSUME NEW b \in Bits \ {LineBit(l)}  PROVE Image(g, b) = Image(f, b)
  <2>1. b \in LineBits => g.line[b - LineBit(0)] = f.line[b - LineBit(0)]
    BY <1>2 DEF LineBits, LineBit, Lines, Bits
  <2>2. QED
    BY <1>1, <1>2, <1>3, <2>1, SameImage
<1>6. QED
  BY <1>4, <1>5 DEF Changes, g

LEMMA MfdBrightnessUpdate ==
    ASSUME NEW f \in Contexts, NEW v \in Brightness
    PROVE  Changes(f, {BRI_MFD}, WithMfdBrightness(f, v))
<1> DEFINE g == WithMfdBrightness(f, v)
<1>1. f \in ContextFields
  BY GoodFields
<1>2. /\ g \in ContextFields
      /\ g.line = f.line /\ g.timezone = f.timezone
      /\ g.led_mask = f.led_mask /\ g.date = f.date
      /\ g.date_format = f.date_format /\ g.led_brightness = f.led_brightness
      /\ g.time = f.time /\ g.time_format = f.time_format
  BY <1>1 DEF WithMfdBrightness, ContextFields
<1> HIDE DEF g
<1>3. g \in Contexts
  BY <1>2, StillGood
<1>4. \A b \in Bits \ {BRI_MFD} : Image(g, b) = Image(f, b)
  BY <1>1, <1>2, SameImage
<1>5. QED
  BY <1>3, <1>4 DEF Changes, g

LEMMA LedBrightnessUpdate ==
    ASSUME NEW f \in Contexts, NEW v \in Brightness
    PROVE  Changes(f, {BRI_LED}, WithLedBrightness(f, v))
<1> DEFINE g == WithLedBrightness(f, v)
<1>1. f \in ContextFields
  BY GoodFields
<1>2. /\ g \in ContextFields
      /\ g.line = f.line /\ g.timezone = f.timezone
      /\ g.led_mask = f.led_mask /\ g.date = f.date
      /\ g.date_format = f.date_format /\ g.mfd_brightness = f.mfd_brightness
      /\ g.time = f.time /\ g.time_format = f.time_format
  BY <1>1 DEF WithLedBrightness, ContextFields
<1> HIDE DEF g
<1>3. g \in Contexts
  BY <1>2, StillGood
<1>4. \A b \in Bits \ {BRI_LED} : Image(g, b) = Image(f, b)
  BY <1>1, <1>2, SameImage
<1>5. QED
  BY <1>3, <1>4 DEF Changes, g

LEMMA DateUpdate ==
    ASSUME NEW f \in Contexts, NEW d \in Dates
    PROVE  Changes(f, {MFD_DATE}, WithDate(f, d))
<1> DEFINE g == WithDate(f, d)
<1>1. f \in ContextFields
  BY GoodFields
<1>2. /\ g \in ContextFields
      /\ g.line = f.line /\ g.timezone = f.timezone
      /\ g.led_mask = f.led_mask /\ g.date_format = f.date_format
      /\ g.mfd_brightness = f.mfd_brightness /\ g.led_brightness = f.led_brightness
      /\ g.time = f.time /\ g.time_format = f.time_format
  BY <1>1 DEF WithDate, ContextFields
<1> HIDE DEF g
<1>3. g \in Contexts
  BY <1>2, StillGood
<1>4. \A b \in Bits \ {MFD_DATE} : Image(g, b) = Image(f, b)
  BY <1>1, <1>2, SameImage
<1>5. QED
  BY <1>3, <1>4 DEF Changes, g

LEMMA DateFormatUpdate ==
    ASSUME NEW f \in Contexts, NEW fmt \in DateFormats
    PROVE  Changes(f, {MFD_DATE}, WithDateFormat(f, fmt))
<1> DEFINE g == WithDateFormat(f, fmt)
<1>1. f \in ContextFields
  BY GoodFields
<1>2. /\ g \in ContextFields
      /\ g.line = f.line /\ g.timezone = f.timezone
      /\ g.led_mask = f.led_mask /\ g.date = f.date
      /\ g.mfd_brightness = f.mfd_brightness /\ g.led_brightness = f.led_brightness
      /\ g.time = f.time /\ g.time_format = f.time_format
  BY <1>1 DEF WithDateFormat, ContextFields
<1> HIDE DEF g
<1>3. g \in Contexts
  BY <1>2, StillGood
<1>4. \A b \in Bits \ {MFD_DATE} : Image(g, b) = Image(f, b)
  BY <1>1, <1>2, SameImage
<1>5. QED
  BY <1>3, <1>4 DEF Changes, g

LEMMA TimeUpdate ==
    ASSUME NEW f \in Contexts, NEW t \in Times
    PROVE  Changes(f, {MFD_TIME}, WithTime(f, t))
<1> DEFINE g == WithTime(f, t)
<1>1. f \in ContextFields
  BY GoodFields
<1>2. /\ g \in ContextFields
      /\ g.line = f.line /\ g.timezone = f.timezone
      /\ g.led_mask = f.led_mask /\ g.date = f.date
      /\ g.date_format = f.date_format /\ g.mfd_brightness = f.mfd_brightness
      /\ g.led_brightness = f.led_brightness /\ g.time_format = f.time_format
  BY <1>1 DEF WithTime, ContextFields
<1> HIDE DEF g
<1>3. g \in Contexts
  BY <1>2, StillGood
<1>4. \A b \in Bits \ {MFD_TIME} : Image(g, b) = Image(f, b)
  BY <1>1, <1>2, SameImage
<1>5. QED
  BY <1>3, <1>4 DEF Changes, g

LEMMA FormatUpdate ==
    ASSUME NEW f \in Contexts, NEW c \in Clocks, NEW fmt \in Formats
    PROVE  Changes(f, {OffsBit(c)}, WithFormat(f, c, fmt))
<1> DEFINE g == WithFormat(f, c, fmt)
<1>1. f \in ContextFields
  BY GoodFields
<1>2. g \in ContextFields /\ \A o \in Clocks \ {c} : g.time_format[o] = f.time_format[o]
  BY <1>1 DEF WithFormat, ContextFields
<1>3. /\ g.line = f.line /\ g.timezone = f.timezone /\ g.led_mask = f.led_mask
      /\ g.date = f.date /\ g.date_format = f.date_format /\ g.time = f.time
      /\ g.mfd_brightness = f.mfd_brightness /\ g.led_brightness = f.led_brightness
  BY <1>1 DEF WithFormat, ContextFields
<1> HIDE DEF g
<1>4. g \in Contexts
  BY <1>2, <1>3, StillGood
<1>5. ASSUME NEW b \in Bits \ {OffsBit(c)}  PROVE Image(g, b) = Image(f, b)
  <2>1. /\ b = MFD_TIME => g.time_format[1] = f.time_format[1]
        /\ b = MFD_OFFS1 => g.time_format[2] = f.time_format[2]
        /\ b = MFD_OFFS2 => g.time_format[3] = f.time_format[3]
    BY <1>2 DEF Clocks, OffsBit, MFD_TIME, MFD_OFFS1, MFD_OFFS2
  <2>2. QED
    BY <1>1, <1>2, <1>3, <2>1, SameImage
<1>6. QED
  BY <1>4, <1>5 DEF Changes, g

LEMMA ZoneUpdate ==
    ASSUME NEW f \in Contexts, NEW c \in Clocks \ {1}, NEW offset \in Minutes
    PROVE  Changes(f, {OffsBit(c)}, WithZone(f, c, offset))
<1> DEFINE g == WithZone(f, c, offset)
<1>1. f \in ContextFields /\ offset \in Int
  <2>1. f \in ContextFields
    BY GoodFields, Zenon
  <2>2. offset \in Int
    BY DEF Minutes
  <2> QED
    BY <2>1, <2>2
<1>2. g \in ContextFields
  BY <1>1 DEF WithZone, ContextFields
<1>3. g.timezone[c] = offset /\ \A o \in Clocks \ {c} : g.timezone[o] = f.timezone[o]
  BY <1>1 DEF WithZone, ContextFields
<1>4. /\ g.line = f.line /\ g.time_format = f.time_format /\ g.led_mask = f.led_mask
      /\ g.date = f.date /\ g.date_format = f.date_format /\ g.time = f.time
      /\ g.mfd_brightness = f.mfd_brightness /\ g.led_brightness = f.led_brightness
  BY <1>1 DEF WithZone, ContextFields
<1> HIDE DEF g
<1>5. g \in Contexts
  <2>1. \A l \in Lines : Fits(g.line[l])
    BY <1>4, GoodFields
  <2>2. \A o \in Clocks : g.timezone[o] \in Minutes
    BY <1>3, GoodFields, StillAll
  <2>3. QED
    BY <1>2, <2>1, <2>2, GoodContext
<1>6. ASSUME NEW b \in Bits \ {OffsBit(c)}  PROVE Image(g, b) = Image(f, b)
  <2>1. /\ g.timezone[1] = f.timezone[1]
        /\ b = MFD_OFFS1 => g.timezone[2] = f.timezone[2]
        /\ b = MFD_OFFS2 => g.timezone[3] = f.timezone[3]
    BY <1>3 DEF Clocks, OffsBit, MFD_OFFS1, MFD_OFFS2
  <2>2. QED
    BY <1>1, <1>2, <1>4, <2>1, SameImage
<1>7. QED
  BY <1>5, <1>6 DEF Changes, g

LEMMA ClockUpdate ==
    ASSUME NEW f \in Contexts, NEW d \in Dates, NEW t \in Times, NEW tz \in Minutes,
           NEW marked,
           f.date # d => MFD_DATE \in marked,
           f.time # t => MFD_TIME \in marked,
           f.timezone[1] # tz => MFD_OFFS1 \in marked /\ MFD_OFFS2 \in marked
    PROVE  Changes(f, marked, WithClock(f, d, t, tz))
<1> DEFINE g == WithClock(f, d, t, tz)
<1>1. f \in ContextFields /\ tz \in Int
  <2>1. f \in ContextFields
    BY GoodFields, Zenon
  <2>2. tz \in Int
    BY DEF Minutes
  <2> QED
    BY <2>1, <2>2
<1>2. g \in ContextFields
  BY <1>1 DEF WithClock, ContextFields, Clocks
<1>3. g.timezone[1] = tz
  BY <1>1 DEF WithClock, ContextFields, Clocks
<1>4. \A c \in Clocks \ {1} : g.timezone[c] = f.timezone[c]
  BY <1>1 DEF WithClock, ContextFields, Clocks
<1>5. /\ g.line = f.line /\ g.time_format = f.time_format /\ g.led_mask = f.led_mask
      /\ g.date = d /\ g.date_format = f.date_format /\ g.time = t
      /\ g.mfd_brightness = f.mfd_brightness /\ g.led_brightness = f.led_brightness
  BY <1>1 DEF WithClock, ContextFields
<1> HIDE DEF g
<1>6. g \in Contexts
  <2>1. \A l \in Lines : Fits(g.line[l])
    BY <1>5, GoodFields
  <2>2. 1 \in Clocks
    BY DEF Clocks
  <2>3. \A o \in Clocks : g.timezone[o] \in Minutes
    BY <1>3, <1>4, <2>2, GoodFields, StillAll
  <2>4. QED
    BY <1>2, <2>1, <2>3, GoodContext
<1>7. ASSUME NEW b \in Bits \ marked  PROVE Image(g, b) = Image(f, b)
  <2>1. g.timezone[2] = f.timezone[2] /\ g.timezone[3] = f.timezone[3]
    BY <1>4 DEF Clocks
  <2>2. b \in {MFD_OFFS1, MFD_OFFS2} => g.timezone[1] = f.timezone[1]
    BY <1>3
  <2>3. (b = MFD_DATE => g.date = f.date) /\ (b = MFD_TIME => g.time = f.time)
    BY <1>5
  <2>4. QED
    BY <1>1, <1>2, <1>5, <2>1, <2>2, <2>3, SameImage
<1>8. QED
  BY <1>6, <1>7 DEF Changes, g

-----------------------------------------------------------------------------
(* The calls outside an update.                                            *)

LEMMA RequestStep ==
    ASSUME IInv, ~busy, NEW bits, NEW f, Request(bits, f), Changes(fields, bits, f)
    PROVE  IInv'
<1> USE DEF Request, Changes, handle, progress, world
<1>1. TypeOK'
  BY DEF IInv, TypeOK, Codes
<1>2. HandleOK'
  BY DEF IInv, HandleOK, DeadHandleIsReported
<1>3. UpdateOK'
  BY DEF IInv, UpdateOK, Current
<1>4. RepeatableShown'
  <2> SUFFICES ASSUME hdl' = "live", NEW b \in (requested \ Dirty)' \cap Repeatable
               PROVE  Shows(b)'
    BY DEF RepeatableShown
  <2>1. b \in (requested \ Dirty) \cap Repeatable /\ b \notin bits /\ b \in Bits
    BY ConstantsAssumption DEF Dirty, IInv, TypeOK
  <2>2. Shows(b)
    BY <2>1 DEF IInv, RepeatableShown
  <2>3. QED
    BY <2>1, <2>2 DEF Shows, Display
<1>5. QED
  BY <1>1, <1>2, <1>3, <1>4 DEF IInv

LEMMA RefuseStep ==
    ASSUME IInv, NEW code \in Codes, Refuse(code)
    PROVE  IInv'
<1> USE DEF Refuse, handle, progress, world
<1>1. TypeOK'
  BY DEF IInv, TypeOK
<1>2. HandleOK'
  BY DEF IInv, HandleOK, DeadHandleIsReported
<1>3. UpdateOK'
  BY DEF IInv, UpdateOK, Current, WrittenSoFar
<1>4. RepeatableShown'
  BY DEF IInv, RepeatableShown, Dirty, Shows
<1>5. QED
  BY <1>1, <1>2, <1>3, <1>4 DEF IInv

LEMMA StoredFits ==
    ASSUME NEW text \in Texts
    PROVE  Stored(text) \in Seq(Chunks) /\ Fits(Stored(text))
<1>1. text \in Seq(Chunks) /\ MaxText \in Nat
  BY ConstantsAssumption
<1>2. CASE Len(text) > MaxText
  BY <1>1, <1>2 DEF Stored, Fits
<1>3. CASE ~(Len(text) > MaxText)
  BY <1>1, <1>3 DEF Stored, Fits
<1>4. QED
  BY <1>2, <1>3

LEMMA LedLamps ==
    ASSUME NEW led \in SingleLeds \cup ColourLeds, NEW state \in LedStates,
           state \in Supported(led), NEW old \in SUBSET Bits
    PROVE  LET lit == (old \ LedBits(led)) \cup Lit(led, state)
           IN lit \in SUBSET Bits /\ lit \ LedBits(led) = old \ LedBits(led)
<1>1. led \in Bits /\ (led \in ColourLeds \ SingleLeds => led + 1 \in Bits)
  BY DEF SingleLeds, ColourLeds, Bits, FIRE, THROTTLE
<1>2. Lit(led, state) \subseteq LedBits(led)
  BY DEF Supported, Lit, LedBits, LedStates
<1>3. LedBits(led) \subseteq Bits
  BY <1>1 DEF LedBits
<1>4. QED
  BY <1>2, <1>3

\* A setter is a request for slots such that no others are affected, or refused.
Outcome ==
    \/ \E bits, f : Request(bits, f) /\ Changes(fields, bits, f)
    \/ \E code \in Codes : Refuse(code)

LEMMA RequestOutcome ==
    ASSUME NEW bits, NEW f, Request(bits, f), Changes(fields, bits, f) PROVE Outcome
  BY DEF Outcome

LEMMA RefuseOutcome == ASSUME NEW code \in Codes, Refuse(code) PROVE Outcome
  BY DEF Outcome

LEMMA SetterOutcome ==
    ASSUME IInv, Setters
    PROVE  Outcome
<1>1. fields \in Contexts /\ fields.led_mask \in SUBSET Bits
  BY GoodFields DEF IInv, TypeOK, ContextFields
<1>2. ASSUME NEW l \in Lines \cup {3}, NEW text \in Texts, SetText(l, text)  PROVE Outcome
  <2>1. CASE l \in Lines /\ Request({LineBit(l)}, WithText(fields, l, Stored(text)))
    BY <1>1, <2>1, StoredFits, TextUpdate, RequestOutcome
  <2>2. CASE Refuse("INVALID_PARAM")
    BY <2>2, RefuseOutcome DEF Codes
  <2>3. QED
    BY <1>2, <2>1, <2>2 DEF SetText, WithText
<1>3. ASSUME NEW led \in SingleLeds \cup ColourLeds, NEW state \in LedStates,
             SetLedState(led, state)
      PROVE  Outcome
  <2> DEFINE lit == (fields.led_mask \ LedBits(led)) \cup Lit(led, state)
  <2>1. CASE state \in Supported(led) /\ Request(LedBits(led), WithLit(fields, lit))
    <3>1. lit \in SUBSET Bits /\ lit \ LedBits(led) = fields.led_mask \ LedBits(led)
      BY <1>1, <2>1, LedLamps
    <3> HIDE DEF lit
    <3>2. QED
      BY <1>1, <2>1, <3>1, LitUpdate, RequestOutcome
  <2>2. CASE Refuse("NOT_SUPPORTED")
    BY <2>2, RefuseOutcome DEF Codes
  <2>3. QED
    BY <1>3, <2>1, <2>2 DEF SetLedState, WithLit
<1>4. ASSUME NEW v \in Brightness, SetMfdBrightness(v) \/ SetLedBrightness(v)
      PROVE  Outcome
  <2>1. CASE SetMfdBrightness(v)
    <3>1. Request({BRI_MFD}, WithMfdBrightness(fields, v))
      BY <2>1 DEF SetMfdBrightness, WithMfdBrightness
    <3>2. QED
      BY <1>1, <3>1, MfdBrightnessUpdate, RequestOutcome
  <2>2. CASE SetLedBrightness(v)
    <3>1. Request({BRI_LED}, WithLedBrightness(fields, v))
      BY <2>2 DEF SetLedBrightness, WithLedBrightness
    <3>2. QED
      BY <1>1, <3>1, LedBrightnessUpdate, RequestOutcome
  <2>3. QED
    BY <1>4, <2>1, <2>2
<1>5. ASSUME NEW b \in {SHIFT, BLINK}, NEW on \in BOOLEAN, SetLamp(b, on)  PROVE Outcome
  <2> DEFINE lit == IF on THEN fields.led_mask \cup {b} ELSE fields.led_mask \ {b}
  <2>1. lit \in SUBSET Bits /\ lit \ {b} = fields.led_mask \ {b}
    <3>1. b \in Bits
      BY DEF SHIFT, BLINK, Bits
    <3>2. CASE on
      BY <1>1, <3>1, <3>2
    <3>3. CASE ~on
      BY <1>1, <3>1, <3>3
    <3>4. QED
      BY <3>2, <3>3
  <2>2. Request({b}, WithLit(fields, lit))
    BY <1>5 DEF SetLamp, WithLit
  <2> HIDE DEF lit
  <2>3. QED
    BY <1>1, <2>1, <2>2, LitUpdate, RequestOutcome
<1>6. ASSUME NEW d \in Dates, SetDate(d)  PROVE Outcome
  <2>1. Request({MFD_DATE}, WithDate(fields, d))
    BY <1>6 DEF SetDate, WithDate
  <2>2. QED
    BY <1>1, <2>1, DateUpdate, RequestOutcome
<1>7. ASSUME NEW fmt \in DateFormats, SetDateFormat(fmt)  PROVE Outcome
  <2>1. Request({MFD_DATE}, WithDateFormat(fields, fmt))
    BY <1>7 DEF SetDateFormat, WithDateFormat
  <2>2. QED
    BY <1>1, <2>1, DateFormatUpdate, RequestOutcome
<1>8. ASSUME NEW t \in Times, SetTime(t)  PROVE Outcome
  <2>1. Request({MFD_TIME}, WithTime(fields, t))
    BY <1>8 DEF SetTime, WithTime
  <2>2. QED
    BY <1>1, <2>1, TimeUpdate, RequestOutcome
<1>9. ASSUME NEW d \in Dates, NEW t \in Times, NEW tz \in LocalZones, SetClock(d, t, tz)
      PROVE  Outcome
  <2> DEFINE news == ClockNews(d, t, tz)
  <2>1. CASE Request(news, WithClock(fields, d, t, tz))
    <3>1. tz \in Minutes
      BY ConstantsAssumption
    <3>2. /\ fields.date # d => MFD_DATE \in news
          /\ fields.time # t => MFD_TIME \in news
          /\ fields.timezone[1] # tz => MFD_OFFS1 \in news /\ MFD_OFFS2 \in news
      BY DEF ClockNews
    <3> HIDE DEF news
    <3>3. Changes(fields, news, WithClock(fields, d, t, tz))
      BY <1>1, <3>1, <3>2, ClockUpdate
    <3>4. QED
      BY <2>1, <3>3, RequestOutcome
  <2>2. CASE Refuse("TRY_AGAIN")
    BY <2>2, RefuseOutcome DEF Codes
  <2>3. QED
    BY <1>9, <2>1, <2>2 DEF SetClock, WithClock
<1>10. ASSUME NEW c \in Clocks, NEW offset \in Offsets, SetClockTimezone(c, offset)
       PROVE  Outcome
  <2>1. CASE ZoneInRange(offset) /\ c # 1
             /\ Request({OffsBit(c)}, WithZone(fields, c, offset))
    <3>1. offset \in Minutes /\ c \in Clocks \ {1}
      BY <2>1 DEF ZoneInRange
    <3>2. QED
      BY <1>1, <2>1, <3>1, ZoneUpdate, RequestOutcome
  <2>2. CASE Refuse("OUT_OF_RANGE") \/ Refuse("NOT_SUPPORTED")
    BY <2>2, RefuseOutcome DEF Codes
  <2>3. QED
    BY <1>10, <2>1, <2>2 DEF SetClockTimezone, WithZone
<1>11. ASSUME NEW c \in Clocks, NEW fmt \in Formats, SetClockFormat(c, fmt)  PROVE Outcome
  <2>1. Request({OffsBit(c)}, WithFormat(fields, c, fmt))
    BY <1>11 DEF SetClockFormat, WithFormat
  <2>2. QED
    BY <1>1, <2>1, FormatUpdate, RequestOutcome
<1>12. QED
  BY <1>2, <1>3, <1>4, <1>5, <1>6, <1>7, <1>8, <1>9, <1>10, <1>11 DEF Setters

LEMMA SetterStep ==
    ASSUME IInv, ~busy, Setters
    PROVE  IInv'
<1>1. CASE \E bits, f : Request(bits, f) /\ Changes(fields, bits, f)
  BY <1>1, RequestStep
<1>2. CASE \E code \in Codes : Refuse(code)
  BY <1>2, RefuseStep
<1>3. QED
  BY <1>1, <1>2, SetterOutcome DEF Outcome

\* The register of a slot outside those the second date command goes to.
LEMMA OwnRegister ==
    ASSUME NEW b \in Slots
    PROVE  b \in Registers /\ b # YEAR /\ YEAR \in Registers /\ b \in Bits
  BY ConstantsAssumption DEF Registers, YEAR, Bits

\* Every slot takes at least one command, and a line one more than it has pairs.
LEMMA CommandsCount ==
    ASSUME NEW f \in Contexts, NEW b \in Slots
    PROVE  /\ Commands(f, b) \in 1..(2 + MaxText)
           /\ b \in LineBits => /\ f.line[b - LineBit(0)] \in Seq(Chunks)
                                /\ Commands(f, b) = 1 + Len(f.line[b - LineBit(0)])
           /\ b = MFD_DATE => Commands(f, b) = 2
<1>1. MaxText \in Nat
  BY ConstantsAssumption
<1>2. CASE b \in LineBits
  <2>1. PICK l \in Lines : b = LineBit(l)
    BY <1>2 DEF LineBits
  <2>2. b - LineBit(0) = l /\ b # MFD_DATE
    BY <2>1 DEF LineBit, Lines, MFD_DATE
  <2>3. f.line[l] \in Seq(Chunks) /\ Fits(f.line[l])
    BY <2>1, GoodFields DEF ContextFields
  <2>4. Commands(f, b) = 1 + Len(f.line[l])
    BY <1>2, <2>2 DEF Commands
  <2>5. QED
    BY <1>1, <1>2, <2>2, <2>3, <2>4 DEF Fits
<1>3. CASE b = MFD_DATE
  <2>1. b \notin LineBits
    BY <1>3 DEF LineBits, LineBit, Lines, MFD_DATE
  <2>2. QED
    BY <1>1, <1>3, <2>1 DEF Commands
<1>4. CASE b \notin LineBits /\ b # MFD_DATE
  BY <1>1, <1>4 DEF Commands
<1>5. QED
  BY <1>2, <1>3, <1>4

LEMMA ClosedHandle ==
    ASSUME IInv, Closed, ~busy, UNCHANGED <<fields, update_mask, progress, port, regs, requested>>,
           callbacks' \subseteq Products, left' \subseteq Products, rc' \in Codes
    PROVE  IInv'
<1> USE DEF Closed, progress
<1>1. TypeOK'
  BY DEF IInv, TypeOK
<1>2. HandleOK'
  BY DEF HandleOK, DeadHandleIsReported
<1>3. UpdateOK'
  BY DEF IInv, UpdateOK, Current
<1>4. RepeatableShown'
  BY DEF RepeatableShown
<1>5. QED
  BY <1>1, <1>2, <1>3, <1>4 DEF IInv

LEMMA DisconnectStep ==
    ASSUME IInv, ~busy, Disconnect \/ ConnectFails
    PROVE  IInv'
  BY ClosedHandle DEF Disconnect, ConnectFails, world, Codes, IInv, TypeOK

LEMMA ConnectStep ==
    ASSUME IInv, ~busy, ConnectSucceeds
    PROVE  IInv'
<1> USE DEF ConnectSucceeds, progress
<1>1. TypeOK'
  BY DEF IInv, TypeOK, Codes
<1>2. HandleOK'
  BY DEF HandleOK, DeadHandleIsReported
<1>3. UpdateOK'
  BY DEF IInv, UpdateOK, Current
<1>4. RepeatableShown'
  BY DEF RepeatableShown, Dirty
<1>5. QED
  BY <1>1, <1>2, <1>3, <1>4 DEF IInv

LEMMA IsConnectedStep ==
    ASSUME IInv, ~busy, IsConnected
    PROVE  IInv'
<1>1. PICK arrived \in SUBSET left :
          /\ left' = left \ arrived
          /\ callbacks' = callbacks \ (callbacks \cap arrived)
          /\ CallbackFires(callbacks \cap arrived)
          /\ rc' \in Codes
          /\ UNCHANGED <<fields, update_mask, progress, port, regs, requested>>
  BY DEF IsConnected, Codes
<1>2. CASE Closed
  BY <1>1, <1>2, ClosedHandle DEF IInv, TypeOK
<1>3. CASE callbacks \cap arrived = {} /\ UNCHANGED handle
  <2> USE DEF handle, progress
  <2>1. TypeOK'
    BY <1>1, <1>3 DEF IInv, TypeOK
  <2>2. HandleOK'
    <3>1. callbacks' = callbacks /\ callbacks \cap left' = callbacks \cap left
      BY <1>1, <1>3
    <3>2. QED
      BY <1>1, <1>3, <3>1 DEF IInv, HandleOK, DeadHandleIsReported
  <2>3. UpdateOK'
    BY <1>1, <1>3 DEF IInv, UpdateOK, Current
  <2>4. RepeatableShown'
    BY <1>1, <1>3 DEF IInv, RepeatableShown, Dirty, Shows
  <2>5. QED
    BY <2>1, <2>2, <2>3, <2>4 DEF IInv
<1>4. QED
  BY <1>1, <1>2, <1>3 DEF CallbackFires

LEMMA VendorCommandStep ==
    ASSUME IInv, ~busy, NEW b \in Slots, VendorCommand(b)
    PROVE  IInv'
<1>1. CASE /\ hdl = "live"
           /\ regs' = [regs EXCEPT ![b] = Unknown]
           /\ requested' = requested \ ({b} \ update_mask)
           /\ rc' \in Codes
           /\ UNCHANGED <<fields, update_mask, handle, progress, port, callbacks, left>>
  <2> USE <1>1 DEF handle, progress
  <2>1. TypeOK'
    BY DEF IInv, TypeOK
  <2>2. HandleOK'
    BY DEF IInv, HandleOK, DeadHandleIsReported
  <2>3. UpdateOK'
    BY DEF IInv, UpdateOK, Current
  <2>4. RepeatableShown'
    <3> SUFFICES ASSUME NEW o \in (requested \ Dirty)' \cap Repeatable
                 PROVE  Shows(o)'
      BY DEF RepeatableShown
    <3>1. o \in (requested \ Dirty) \cap Repeatable /\ o # b /\ o \in Slots
      BY DEF Dirty, IInv, TypeOK
    <3>2. Shows(o)
      BY <3>1 DEF IInv, RepeatableShown
    <3>3. regs'[o] = regs[o] /\ regs'[YEAR] = regs[YEAR]
      BY <3>1, OwnRegister DEF IInv, TypeOK
    <3>4. QED
      BY <3>2, <3>3 DEF Shows, Display
  <2>5. QED
    BY <2>1, <2>2, <2>3, <2>4 DEF IInv
<1>2. CASE Refuse("USB_ERROR") \/ Refuse("NO_DEVICE")
  BY <1>2, RefuseStep DEF Codes
<1>3. CASE /\ hdl = "dead" /\ Closed
           /\ rc' = "NO_DEVICE"
           /\ UNCHANGED <<fields, update_mask, progress, world, requested>>
  BY <1>3, ClosedHandle DEF world, IInv, TypeOK, Codes
<1>4. QED
  BY <1>1, <1>2, <1>3 DEF VendorCommand, Codes

LEMMA UpdateStartStep ==
    ASSUME IInv, ~busy, UpdateStart
    PROVE  IInv'
<1>1. CASE /\ hdl # "null"
           /\ busy' = TRUE /\ pending' = update_mask /\ update_mask' = {}
           /\ cmd' = 1 /\ tries' = 1
           /\ UNCHANGED <<fields, handle, rc, world, requested>>
  <2> USE <1>1 DEF handle, world
  <2>1. TypeOK'
    BY ConstantsAssumption DEF IInv, TypeOK
  <2>2. HandleOK'
    BY DEF IInv, HandleOK, DeadHandleIsReported
  <2>3. UpdateOK'
    <3>1. ASSUME NEW b \in Slots  PROVE 1 \in 1..Commands(fields, b)
      <4>1. Commands(fields, b) \in Nat /\ Commands(fields, b) > 0
        BY CommandsCount DEF IInv, TypeOK
      <4>2. QED
        BY <4>1
    <3>2. QED
      BY <3>1 DEF UpdateOK, Current, WrittenSoFar
  <2>4. RepeatableShown'
    BY DEF IInv, UpdateOK, RepeatableShown, Dirty, Shows
  <2>5. QED
    BY <2>1, <2>2, <2>3, <2>4 DEF IInv
<1>2. CASE Refuse("NO_DEVICE")
  BY <1>2, RefuseStep DEF Codes
<1>3. QED
  BY <1>1, <1>2 DEF UpdateStart

-----------------------------------------------------------------------------
(* The steps of an update.                                                 *)

LEMMA AppendNext ==
    ASSUME NEW S, NEW s \in Seq(S), NEW n \in 0..(Len(s) - 1)
    PROVE  Append(SubSeq(s, 1, n), s[n + 1]) = SubSeq(s, 1, n + 1)
  OBVIOUS

LEMMA WholeText ==
    ASSUME NEW S, NEW s \in Seq(S)
    PROVE  SubSeq(s, 1, Len(s)) = s /\ SubSeq(s, 1, 0) = <<>>
  OBVIOUS

\* The kinds of slots exclude each other.
LEMMA KindsExclude ==
    /\ \A b \in LineBits : /\ b \notin LampBits
                           /\ b \notin {BRI_MFD, BRI_LED, MFD_DATE, MFD_TIME, MFD_OFFS1, MFD_OFFS2}
    /\ MFD_DATE \notin LineBits \cup LampBits
    /\ MFD_DATE \notin {BRI_MFD, BRI_LED, MFD_TIME, MFD_OFFS1, MFD_OFFS2}
  BY DEF LampBits, LineBits, Lines, LineBit, BLINK,
         BRI_MFD, BRI_LED, MFD_DATE, MFD_TIME, MFD_OFFS1, MFD_OFFS2

\* A write to a register of slot b is not seen at another slot.
LEMMA OneWrite ==
    ASSUME NEW b \in Slots, NEW r, r = [y \in Registers |-> r[y]],
           NEW x \in {b, YEAR}, x = YEAR => b = MFD_DATE,
           NEW v, NEW after, after = [r EXCEPT ![x] = v]
    PROVE  /\ after = [y \in Registers |-> after[y]]
           /\ \A o \in Slots \ {b} : Display(after, o) = Display(r, o) /\ after[o] = r[o]
<1>1. after = [y \in Registers |-> after[y]]
  BY OwnRegister
<1>2. ASSUME NEW o \in Slots \ {b}
      PROVE  Display(after, o) = Display(r, o) /\ after[o] = r[o]
  <2>1. after[o] = r[o] /\ (o = MFD_DATE => after[YEAR] = r[YEAR])
    BY OwnRegister
  <2>2. QED
    BY <2>1 DEF Display
<1>3. QED
  BY <1>1, <1>2

\* A command for one slot writes no register of another.
LEMMA ExecuteElsewhere ==
    ASSUME NEW f, NEW b \in Slots, NEW c \in Nat, NEW r, r = [y \in Registers |-> r[y]]
    PROVE  LET after == Execute(f, b, c, r)
           IN /\ after = [y \in Registers |-> after[y]]
              /\ \A o \in Slots \ {b} : Display(after, o) = Display(r, o) /\ after[o] = r[o]
<1>1. b # YEAR
  BY OwnRegister
<1>2. CASE b \in LineBits /\ c = 1
  <2>1. Execute(f, b, c, r) = [r EXCEPT ![b] = <<>>]
    BY <1>2, KindsExclude DEF Execute
  <2>2. QED
    BY <1>1, <2>1, OneWrite
<1>3. CASE b \in LineBits /\ c > 1
  <2>1. Execute(f, b, c, r) = [r EXCEPT ![b] = Append(r[b], f.line[b - LineBit(0)][c - 1])]
    BY <1>3, KindsExclude DEF Execute
  <2>2. QED
    BY <1>1, <2>1, OneWrite
<1>4. CASE b = MFD_DATE /\ c = 1
  <2>1. Execute(f, b, c, r) = [r EXCEPT ![b] = DateCommands(f)[1]]
    BY <1>4, KindsExclude DEF Execute
  <2>2. QED
    BY <1>1, <2>1, OneWrite
<1>5. CASE b = MFD_DATE /\ c = 2
  <2>1. Execute(f, b, c, r) = [r EXCEPT ![YEAR] = DateCommands(f)[2]]
    BY <1>5, KindsExclude DEF Execute
  <2>2. QED
    BY <1>5, <2>1, OneWrite
<1>6. CASE ~(b \in LineBits /\ (c = 1 \/ c > 1)) /\ ~(b = MFD_DATE /\ (c = 1 \/ c = 2))
  <2>1. Execute(f, b, c, r) = [r EXCEPT ![b] = Image(f, b)]
    BY <1>6 DEF Execute
  <2>2. QED
    BY <1>1, <2>1, OneWrite
<1>7. QED
  BY <1>2, <1>3, <1>4, <1>5, <1>6

\* The last command completes what the commands before it have written.
LEMMA LastCommand ==
    ASSUME IInv, NEW b \in Repeatable, busy, Current(b), hdl = "live",
           cmd >= Commands(fields, b)
    PROVE  Display(Execute(fields, b, cmd, regs), b) = Image(fields, b)
<1>1. /\ fields \in Contexts /\ cmd \in Nat /\ cmd = Commands(fields, b) /\ b \in Slots
      /\ WrittenSoFar(b) /\ regs = [x \in Registers |-> regs[x]]
      /\ b \in Registers /\ b # YEAR /\ b \in Bits /\ YEAR \in Registers
  <2>1. b \in Slots /\ cmd \in 1..Commands(fields, b) /\ WrittenSoFar(b)
    BY DEF IInv, UpdateOK, Repeatable
  <2>2. Commands(fields, b) \in 1..(2 + MaxText)
    BY <2>1, CommandsCount DEF IInv, TypeOK
  <2>3. QED
    BY <2>1, <2>2, OwnRegister, ConstantsAssumption DEF IInv, TypeOK
<1>2. CASE b \in LineBits
  <2> DEFINE text == fields.line[b - LineBit(0)]
  <2>1. text \in Seq(Chunks) /\ cmd = 1 + Len(text) /\ b # MFD_DATE
    BY <1>1, <1>2, CommandsCount DEF LineBits, LineBit, Lines, MFD_DATE
  <2>2. Image(fields, b) = text
    BY <1>2, KindsExclude DEF Image
  <2>3. CASE cmd = 1
    <3>1. Execute(fields, b, cmd, regs) = [regs EXCEPT ![b] = <<>>]
      BY <1>2, <2>3, KindsExclude DEF Execute
    <3>2. text = <<>>
      BY <2>1, <2>3
    <3>3. QED
      BY <1>1, <2>1, <2>2, <3>1, <3>2 DEF Display
  <2>4. CASE cmd # 1
    <3> HIDE DEF text
    <3>1. Execute(fields, b, cmd, regs) = [regs EXCEPT ![b] = Append(@, text[cmd - 1])]
      BY <1>1, <1>2, <2>1, <2>4 DEF Execute, text
    <3>2. regs[b] = SubSeq(text, 1, cmd - 2)
      BY <1>1, <1>2, <2>1, <2>4 DEF WrittenSoFar, text
    <3>3. cmd - 2 \in 0..(Len(text) - 1) /\ cmd - 2 + 1 = cmd - 1 /\ cmd - 1 = Len(text)
      BY <1>1, <2>1, <2>4
    <3>4. Append(SubSeq(text, 1, cmd - 2), text[cmd - 1]) = SubSeq(text, 1, Len(text))
      BY <2>1, <3>3, AppendNext
    <3>5. Append(regs[b], text[cmd - 1]) = text
      BY <2>1, <3>2, <3>4, WholeText
    <3>6. QED
      BY <1>1, <2>1, <2>2, <3>1, <3>5 DEF Display, text
  <2>5. QED
    BY <2>3, <2>4
<1>3. CASE b = MFD_DATE
  <2>1. cmd = 2 /\ b \notin LineBits /\ b \notin LampBits /\ b # BRI_MFD /\ b # BRI_LED
    BY <1>1, <1>3, CommandsCount
       DEF LineBits, LineBit, Lines, MFD_DATE, LampBits, BLINK, BRI_MFD, BRI_LED
  <2>2. Image(fields, b) = DateCommands(fields)
    BY <1>3, KindsExclude DEF Image
  <2>3. DateCommands(fields) = <<DateCommands(fields)[1], DateCommands(fields)[2]>>
    <3>1. fields.date_format \in {"YYMMDD", "MMDDYY", "DDMMYY"}
      BY <1>1, GoodFields DEF ContextFields, DateFormats
    <3>2. QED
      BY <3>1 DEF DateCommands
  <2>4. Execute(fields, b, cmd, regs) = [regs EXCEPT ![YEAR] = DateCommands(fields)[2]]
    BY <1>3, <2>1 DEF Execute
  <2>5. regs[b] = DateCommands(fields)[1]
    BY <1>1, <1>3, <2>1 DEF WrittenSoFar
  <2>6. QED
    BY <1>1, <1>3, <2>2, <2>3, <2>4, <2>5 DEF Display
<1>4. CASE b \notin LineBits /\ b # MFD_DATE
  <2>1. Execute(fields, b, cmd, regs) = [regs EXCEPT ![b] = Image(fields, b)]
    BY <1>4 DEF Execute
  <2>2. QED
    BY <1>1, <1>4, <2>1 DEF Display
<1>5. QED
  BY <1>2, <1>3, <1>4

\* An earlier command leaves what the next one builds on.
LEMMA EarlierCommand ==
    ASSUME IInv, NEW b \in Repeatable, busy, Current(b), hdl = "live",
           cmd < Commands(fields, b),
           regs' = Execute(fields, b, cmd, regs), cmd' = cmd + 1, UNCHANGED fields
    PROVE  WrittenSoFar(b)'
<1>1. /\ fields \in Contexts /\ cmd \in Nat \ {0} /\ b \in Slots
      /\ WrittenSoFar(b) /\ regs = [x \in Registers |-> regs[x]]
      /\ b \in Registers /\ b # YEAR /\ b \in Bits
  BY OwnRegister, ConstantsAssumption DEF IInv, TypeOK, UpdateOK, Repeatable
<1>2. CASE b \in LineBits
  <2> DEFINE text == fields.line[b - LineBit(0)]
  <2>1. text \in Seq(Chunks) /\ cmd < 1 + Len(text) /\ b # MFD_DATE
    BY <1>1, <1>2, CommandsCount DEF LineBits, LineBit, Lines, MFD_DATE
  <2>2. CASE cmd = 1
    <3>1. regs'[b] = <<>>
      BY <1>1, <1>2, <2>2, KindsExclude DEF Execute
    <3>2. SubSeq(text, 1, 0) = <<>>
      BY <2>1, WholeText
    <3>3. cmd' - 2 = 0
      BY <2>2
    <3> HIDE DEF text
    <3>4. regs'[b] = SubSeq(text, 1, cmd' - 2)
      BY <3>1, <3>2, <3>3
    <3>5. QED
      BY <2>1, <3>4 DEF WrittenSoFar, text
  <2>3. CASE cmd # 1
    <3> HIDE DEF text
    <3>1. regs' = [regs EXCEPT ![b] = Append(@, text[cmd - 1])]
      BY <1>1, <1>2, <2>1, <2>3 DEF Execute, text
    <3>2. regs[b] = SubSeq(text, 1, cmd - 2)
      BY <1>1, <1>2, <2>1, <2>3 DEF WrittenSoFar, text
    <3>3. cmd - 2 \in 0..(Len(text) - 1) /\ cmd - 2 + 1 = cmd - 1
      BY <1>1, <2>1, <2>3
    <3>4. Append(SubSeq(text, 1, cmd - 2), text[cmd - 1]) = SubSeq(text, 1, cmd - 1)
      BY <2>1, <3>3, AppendNext
    <3>5. regs'[b] = SubSeq(text, 1, cmd' - 2)
      <4>1. cmd' - 2 = cmd - 1
        BY <1>1
      <4>2. regs'[b] = Append(regs[b], text[cmd - 1])
        BY <1>1, <3>1
      <4>3. QED
        BY <3>2, <3>4, <4>1, <4>2
    <3>6. QED
      BY <2>1, <3>5 DEF WrittenSoFar, text
  <2>4. QED
    BY <2>2, <2>3
<1>3. CASE b = MFD_DATE
  <2>1. cmd = 1 /\ b \notin LineBits
    BY <1>1, <1>3, CommandsCount DEF LineBits, LineBit, Lines, MFD_DATE
  <2>2. regs' = [regs EXCEPT ![b] = DateCommands(fields)[1]]
    BY <1>3, <2>1 DEF Execute
  <2>3. DateCommands(fields)' = DateCommands(fields)
    BY DEF DateCommands
  <2>4. QED
    BY <1>1, <2>1, <2>2, <2>3 DEF WrittenSoFar
<1>4. CASE b \notin LineBits /\ b # MFD_DATE
  BY <1>4 DEF WrittenSoFar
<1>5. QED
  BY <1>2, <1>3, <1>4

\* Only what is under way is disturbed by a command for the current slot.
LEMMA ElsewhereShown ==
    ASSUME IInv, hdl = "live", NEW b \in Slots, UNCHANGED fields,
           \/ UNCHANGED regs
           \/ regs' = Execute(fields, b, cmd, regs)
    PROVE  /\ regs' = [r \in Registers |-> regs'[r]]
           /\ \A o \in ((requested \ Dirty) \cap Repeatable) \ {b} : Shows(o)'
<1>1. cmd \in Nat /\ regs = [r \in Registers |-> regs[r]]
  BY ConstantsAssumption DEF IInv, TypeOK
<1>2. /\ regs' = [r \in Registers |-> regs'[r]]
      /\ \A o \in Slots \ {b} : Display(regs', o) = Display(regs, o)
  BY <1>1, ExecuteElsewhere
<1>3. ASSUME NEW o \in ((requested \ Dirty) \cap Repeatable) \ {b}  PROVE Shows(o)'
  <2>1. o \in Slots /\ Shows(o)
    BY DEF IInv, TypeOK, RepeatableShown
  <2>2. QED
    BY <1>2, <2>1 DEF Shows, Display
<1>4. QED
  BY <1>2, <1>3

LEMMA TransferSucceedsStep ==
    ASSUME IInv, NEW b \in Slots, TransferSucceeds(b)
    PROVE  IInv'
<1> USE DEF TransferSucceeds, handle
<1>1. /\ Commands(fields, b) \in 1..(2 + MaxText) /\ MaxText \in Nat
      /\ cmd \in 1..Commands(fields, b)
  BY CommandsCount, ConstantsAssumption DEF IInv, TypeOK, UpdateOK
<1>2. /\ regs' = [r \in Registers |-> regs'[r]]
      /\ \A o \in ((requested \ Dirty) \cap Repeatable) \ {b} : Shows(o)'
  BY ElsewhereShown
<1>3. TypeOK'
  BY <1>1, <1>2 DEF IInv, TypeOK
<1>4. HandleOK'
  BY DEF IInv, HandleOK, DeadHandleIsReported
<1>5. CASE cmd < Commands(fields, b) /\ cmd' = cmd + 1 /\ UNCHANGED pending
  <2>1. UpdateOK'
    <3>1. busy' => update_mask' = {} /\ hdl' # "null"
      BY DEF IInv, UpdateOK
    <3>2. pending' # {} /\ busy'
      BY <1>5 DEF Current
    <3>3. ASSUME NEW o \in Slots, Current(o)'
          PROVE  o = b /\ (cmd \in 1..Commands(fields, o))' /\ (o \in Repeatable => WrittenSoFar(o)')
      <4>1. o = b
        BY <1>5, <3>3, ConstantsAssumption DEF Current, Bits
      <4>2. cmd' \in 1..Commands(fields', b)
        BY <1>1, <1>5
      <4>3. b \in Repeatable => WrittenSoFar(b)'
        BY <1>5, EarlierCommand
      <4>4. QED
        BY <4>1, <4>2, <4>3
    <3>4. QED
      BY <3>1, <3>2, <3>3 DEF UpdateOK, Repeatable
  <2>2. RepeatableShown'
    <3>1. b \in Dirty' /\ requested' = requested /\ Dirty' = Dirty
      BY <1>5 DEF Dirty, Current
    <3>2. QED
      BY <1>2, <3>1 DEF RepeatableShown
  <2>3. QED
    BY <1>3, <1>4, <2>1, <2>2 DEF IInv
<1>6. CASE cmd >= Commands(fields, b) /\ cmd' = 1 /\ pending' = pending \ {b}
  <2>1. UpdateOK'
    <3>1. busy' => update_mask' = {} /\ hdl' # "null"
      BY DEF IInv, UpdateOK
    <3>2. ASSUME NEW o \in Slots
          PROVE  (cmd \in 1..Commands(fields, o))' /\ WrittenSoFar(o)'
      <4>1. Commands(fields, o) \in 1..(2 + MaxText)
        BY CommandsCount DEF IInv, TypeOK
      <4>2. QED
        BY <1>1, <1>6, <4>1 DEF WrittenSoFar
    <3>3. QED
      BY <1>6, <3>1, <3>2 DEF UpdateOK, Repeatable
  <2>2. b \in Repeatable => Shows(b)'
    <3>1. b \in Repeatable => Display(Execute(fields, b, cmd, regs), b) = Image(fields, b)
      BY <1>6, LastCommand
    <3>2. QED
      BY <3>1 DEF Shows, Display
  <2>3. RepeatableShown'
    <3>1. requested' = requested /\ Dirty' \cup {b} = Dirty \cup {b}
      BY <1>6 DEF Dirty
    <3>2. QED
      BY <1>2, <2>2, <3>1 DEF RepeatableShown
  <2>4. QED
    BY <1>3, <1>4, <2>1, <2>3 DEF IInv
<1>7. QED
  BY <1>5, <1>6

LEMMA RepeatedCommand ==
    ASSUME IInv, LostAcks, NEW b \in Repeatable, Current(b), busy, hdl = "live",
           regs' = Execute(fields, b, cmd, regs), UNCHANGED <<fields, cmd>>
    PROVE  WrittenSoFar(b)'
<1>1. b \in Slots \ LineBits /\ regs = [r \in Registers |-> regs[r]] /\ WrittenSoFar(b)
  BY DEF Repeatable, IInv, TypeOK, UpdateOK
<1>2. CASE b = MFD_DATE /\ cmd = 2
  <2>1. regs' = [regs EXCEPT ![YEAR] = DateCommands(fields)[2]]
    BY <1>2, KindsExclude DEF Execute
  <2>2. regs'[b] = regs[b]
    BY <1>1, <2>1, OwnRegister
  <2>3. DateCommands(fields)' = DateCommands(fields)
    BY DEF DateCommands
  <2>4. QED
    BY <1>1, <2>2, <2>3 DEF WrittenSoFar
<1>3. CASE ~(b = MFD_DATE /\ cmd = 2)
  BY <1>1, <1>3 DEF WrittenSoFar
<1>4. QED
  BY <1>2, <1>3

LEMMA TransferRetriedStep ==
    ASSUME IInv, NEW b \in Slots, TransferRetried(b)
    PROVE  IInv'
<1> USE DEF TransferRetried, FailureReaches, handle
<1>1. ASSUME hdl = "live"
      PROVE  /\ regs' = [r \in Registers |-> regs'[r]]
             /\ \A o \in ((requested \ Dirty) \cap Repeatable) \ {b} : Shows(o)'
  BY <1>1, ElsewhereShown
<1>2. TypeOK'
  BY <1>1 DEF IInv, TypeOK
<1>3. HandleOK'
  BY DEF IInv, HandleOK, DeadHandleIsReported
<1>4. UpdateOK'
  <2>1. ASSUME hdl = "live", b \in Repeatable  PROVE WrittenSoFar(b)'
    <3>1. CASE UNCHANGED regs
      BY <2>1, <3>1 DEF IInv, UpdateOK, WrittenSoFar
    <3>2. CASE LostAcks /\ regs' = Execute(fields, b, cmd, regs)
      BY <2>1, <3>2, RepeatedCommand
    <3>3. QED
      BY <3>1, <3>2
  <2>2. ASSUME NEW o \in Slots, Current(o)'  PROVE o = b
    BY <2>2, ConstantsAssumption DEF Current, Bits
  <2>3. QED
    BY <2>1, <2>2 DEF IInv, UpdateOK, Current, Repeatable
<1>5. RepeatableShown'
  <2>1. b \in Dirty' /\ requested' = requested /\ Dirty' = Dirty
    BY DEF Dirty, Current
  <2>2. QED
    BY <1>1, <2>1 DEF RepeatableShown
<1>6. QED
  BY <1>2, <1>3, <1>4, <1>5 DEF IInv

LEMMA TransferGivenUpStep ==
    ASSUME IInv, NEW b \in Slots, TransferGivenUp(b)
    PROVE  IInv'
<1> USE DEF TransferGivenUp, LeftDirty, FailureReaches, Closed, handle
<1>1. ASSUME hdl = "live"
      PROVE  /\ regs' = [r \in Registers |-> regs'[r]]
             /\ \A o \in ((requested \ Dirty) \cap Repeatable) \ {b} : Shows(o)'
  BY <1>1, ElsewhereShown
<1>2. TypeOK'
  <2>1. regs' = [r \in Registers |-> regs'[r]]
    BY <1>1 DEF IInv, TypeOK
  <2>2. 1 \in 1..(2 + MaxText) /\ 1 \in 1..3
    BY ConstantsAssumption
  <2>3. CASE hdl = "dead" /\ rc' = "NO_DEVICE" /\ Closed
    BY <2>1, <2>2, <2>3 DEF IInv, TypeOK, Codes
  <2>4. CASE rc' = "USB_ERROR" /\ UNCHANGED handle
    BY <2>1, <2>2, <2>4 DEF IInv, TypeOK, Codes
  <2>5. QED
    BY <2>3, <2>4
<1>3. HandleOK'
  BY DEF IInv, HandleOK, DeadHandleIsReported
<1>4. UpdateOK'
  BY DEF UpdateOK, Current
<1>5. RepeatableShown'
  <2>1. b \in Dirty' /\ requested' = requested /\ Dirty' = Dirty
    BY DEF IInv, UpdateOK, Dirty, Current
  <2>2. QED
    BY <1>1, <2>1 DEF RepeatableShown
<1>6. QED
  BY <1>2, <1>3, <1>4, <1>5 DEF IInv

LEMMA UpdateDoneStep ==
    ASSUME IInv, UpdateDone
    PROVE  IInv'
<1> USE DEF UpdateDone, handle, world
<1>1. TypeOK'
  BY DEF IInv, TypeOK, Codes
<1>2. HandleOK'
  BY DEF IInv, HandleOK, DeadHandleIsReported
<1>3. UpdateOK'
  BY DEF IInv, UpdateOK, Current
<1>4. RepeatableShown'
  BY DEF IInv, RepeatableShown, Dirty, Shows
<1>5. QED
  BY <1>1, <1>2, <1>3, <1>4 DEF IInv

-----------------------------------------------------------------------------
(* The joystick.                                                           *)

LEMMA PhysicalStep ==
    ASSUME IInv, Physical
    PROVE  IInv'
<1>1. CASE Unplug
  <2> USE <1>1 DEF Unplug, progress
  <2>1. TypeOK'
    BY DEF IInv, TypeOK
  <2>2. HandleOK'
    BY DEF IInv, TypeOK, HandleOK, DeadHandleIsReported
  <2>3. UpdateOK'
    BY DEF IInv, UpdateOK, Current
  <2>4. RepeatableShown'
    BY DEF RepeatableShown
  <2>5. QED
    BY <2>1, <2>2, <2>3, <2>4 DEF IInv
<1>2. ASSUME NEW p \in Products, Plug(p)  PROVE IInv'
  <2> USE <1>2 DEF Plug, progress, handle
  <2>1. TypeOK'
    BY DEF IInv, TypeOK
  <2>2. HandleOK'
    BY ConstantsAssumption DEF IInv, HandleOK, DeadHandleIsReported
  <2>3. hdl' # "live"
    BY DEF IInv, HandleOK
  <2>4. UpdateOK'
    BY <2>3 DEF IInv, UpdateOK, Current
  <2>5. RepeatableShown'
    BY <2>3 DEF RepeatableShown
  <2>6. QED
    BY <2>1, <2>2, <2>4, <2>5 DEF IInv
<1>3. QED
  BY <1>1, <1>2 DEF Physical

-----------------------------------------------------------------------------
(* The theorems.                                                           *)

LEMMA Initially == Init => IInv
<1> SUFFICES ASSUME Init  PROVE IInv
  OBVIOUS
<1> USE DEF Init
<1>1. fields \in Contexts
  <2>1. fields \in ContextFields
    BY ConstantsAssumption DEF ContextFields, DateFormats, Formats
  <2>2. ASSUME NEW l \in Lines  PROVE Fits(fields.line[l])
    <3>1. fields.line[l] = <<>>
      OBVIOUS
    <3>2. Len(<<>>) <= MaxText
      BY ConstantsAssumption
    <3>3. QED
      BY <3>1, <3>2 DEF Fits
  <2>3. \A c \in Clocks : fields.timezone[c] \in Minutes
    BY DEF Minutes
  <2>4. QED
    BY <2>1, <2>2, <2>3, GoodContext
<1>2. TypeOK
  <2>1. regs = [r \in Registers |-> regs[r]]
    OBVIOUS
  <2>2. 1 \in 1..(2 + MaxText) /\ 1 \in 1..3
    BY ConstantsAssumption
  <2>3. QED
    BY <1>1, <2>1, <2>2 DEF TypeOK, Codes
<1>3. HandleOK /\ UpdateOK /\ RepeatableShown
  BY DEF HandleOK, DeadHandleIsReported, UpdateOK, Current, RepeatableShown
<1>4. QED
  BY <1>2, <1>3 DEF IInv

LEMMA Inductive == IInv /\ [Next]_vars => IInv'
<1> SUFFICES ASSUME IInv, [Next]_vars  PROVE IInv'
  OBVIOUS
<1>1. CASE ~busy /\ Setters
  BY <1>1, SetterStep
<1>2. ASSUME ~busy, NEW b \in Slots, VendorCommand(b)  PROVE IInv'
  BY <1>2, VendorCommandStep
<1>3. CASE ~busy /\ Calls
  BY <1>3, ConnectStep, DisconnectStep, IsConnectedStep, UpdateStartStep DEF Calls, Connect
<1>4. ASSUME NEW b \in Slots,
             TransferSucceeds(b) \/ TransferRetried(b) \/ TransferGivenUp(b)
      PROVE  IInv'
  BY <1>4, TransferSucceedsStep, TransferRetriedStep, TransferGivenUpStep
<1>5. CASE UpdateDone
  BY <1>5, UpdateDoneStep
<1>6. CASE Physical
  BY <1>6, PhysicalStep
<1>7. CASE UNCHANGED vars
  <2> USE <1>7 DEF vars, handle, progress, world
  <2>1. TypeOK'
    BY DEF IInv, TypeOK
  <2>2. HandleOK'
    BY DEF IInv, HandleOK, DeadHandleIsReported
  <2>3. UpdateOK'
    BY DEF IInv, UpdateOK, Current, WrittenSoFar
  <2>4. RepeatableShown'
    BY DEF IInv, RepeatableShown, Dirty, Shows
  <2>5. QED
    BY <2>1, <2>2, <2>3, <2>4 DEF IInv
<1>8. QED
  BY <1>1, <1>2, <1>3, <1>4, <1>5, <1>6, <1>7 DEF Next, Requests, UpdateStep

\* The context stays well-formed: whatever is called in whatever order, texts
\* fit their lines, time zones are a day either way, and masks name slots.
THEOREM TypeCorrect == Spec => []TypeOK
<1>1. IInv => TypeOK
  BY DEF IInv
<1>2. QED
  BY <1>1, Initially, Inductive, PTL DEF Spec

\* Whatever fails, a clean slot shows what the context says, unless it is a line of the
\* display: there a retry does harm, when the transfer that seemed to fail had reached
\* the joystick.
THEOREM RepeatableSlotsShown == Spec => []RepeatableShown
<1>1. IInv => RepeatableShown
  BY DEF IInv
<1>2. QED
  BY <1>1, Initially, Inductive, PTL DEF Spec

\* Lines are left out, or what failed did not reach the joystick.
AppendsOnce == LostAcks => Slots \cap LineBits = {}

LEMMA AllRepeatable == ASSUME AppendsOnce PROVE Repeatable = Slots
  BY DEF AppendsOnce, Repeatable

\* A clean slot of a joystick that is there shows what the context says, for
\* any texts, zones and slots, and any failures, unplugs and reconnects.
THEOREM CleanShown == ASSUME AppendsOnce PROVE Spec => []CleanSlotsShown
<1>1. IInv => CleanSlotsShown
  <2>1. IInv => (requested \ Dirty) \cap Repeatable = requested \ Dirty
    BY AllRepeatable DEF IInv, TypeOK
  <2> QED
    BY <2>1 DEF IInv, CleanSlotsShown, RepeatableShown
<1>2. QED
  BY <1>1, Initially, Inductive, PTL DEF Spec

\* libx52_is_connected never says "connected" for ever of a joystick that left.
THEOREM DeadReported == Spec => []DeadHandleIsReported
<1>1. IInv => DeadHandleIsReported
  BY DEF IInv, HandleOK
<1>2. QED
  BY <1>1, Initially, Inductive, PTL DEF Spec

\* Every step but the last command of a slot keeps what is dirty dirty.
LEMMA StaysDirty ==
    ASSUME IInv, Next, ~\E b \in Slots : TransferSucceeds(b)
    PROVE  Dirty \subseteq Dirty'
<1> USE DEF progress, world, handle
<1>1. CASE ~busy /\ Setters
  <2>1. UNCHANGED <<update_mask, pending>> \/ \E bits : update_mask' = update_mask \cup bits /\ UNCHANGED pending
    BY <1>1 DEF Setters, SetText, SetLedState, SetMfdBrightness, SetLedBrightness, SetLamp,
         SetDate, SetTime, SetDateFormat, SetClock, SetClockTimezone, SetClockFormat,
         Request, Refuse
  <2>2. QED
    BY <2>1 DEF Dirty
<1>2. ASSUME ~busy, NEW b \in Slots, VendorCommand(b)  PROVE Dirty' = Dirty
  BY <1>2 DEF VendorCommand, Refuse, Dirty
<1>3. CASE ~busy /\ (Connect \/ Disconnect \/ IsConnected)
  BY <1>3 DEF Connect, ConnectSucceeds, ConnectFails, Disconnect, IsConnected, Dirty
<1>4. CASE ~busy /\ UpdateStart
  BY <1>4 DEF IInv, UpdateOK, UpdateStart, Refuse, Dirty
<1>5. ASSUME NEW b \in Slots, TransferRetried(b) \/ TransferGivenUp(b)  PROVE Dirty' = Dirty
  BY <1>5 DEF IInv, UpdateOK, TransferRetried, TransferGivenUp, LeftDirty, Dirty
<1>6. CASE UpdateDone \/ Physical
  BY <1>6 DEF UpdateDone, Physical, Unplug, Plug, Dirty
<1>7. QED
  BY <1>1, <1>2, <1>3, <1>4, <1>5, <1>6 DEF Next, Requests, Calls, UpdateStep

\* No request is dropped: a slot leaves the masks only by a command after which
\* the joystick shows what the context says.
THEOREM NoRequestLost == ASSUME AppendsOnce PROVE Spec => RequestsSurvive
<1>1. IInv /\ [Next]_vars => [\A b \in Dirty \ Dirty' : hdl = "live" /\ Shows(b)']_vars
  <2> SUFFICES ASSUME IInv, Next, NEW b \in Dirty \ Dirty'
               PROVE  hdl = "live" /\ Shows(b)'
    OBVIOUS
  <2>1. PICK o \in Slots : TransferSucceeds(o)
    BY StaysDirty
  <2>2. o = b /\ hdl = "live" /\ cmd >= Commands(fields, b)
    BY <2>1 DEF TransferSucceeds, Dirty
  <2>3. Display(Execute(fields, b, cmd, regs), b) = Image(fields, b)
    BY <2>1, <2>2, AllRepeatable, LastCommand DEF TransferSucceeds
  <2>4. QED
    BY <2>1, <2>2, <2>3 DEF TransferSucceeds, Shows, Display
<1>2. QED
  BY <1>1, Initially, Inductive, PTL DEF Spec, RequestsSurvive

\* libx52_update ends, by a measure: the slots left, the commands left of the current
\* one and the tries left of the current command go down with every transfer, and
\* all are bounded (TypeCorrect).
THEOREM UpdateEnds == Spec => UpdateAdvances
<1> DEFINE Advance == IF port' # port THEN UNCHANGED progress
                      ELSE \/ ~busy'
                           \/ pending' \subseteq pending /\ pending' # pending
                           \/ pending' = pending /\ cmd' > cmd
                           \/ pending' = pending /\ cmd' = cmd /\ tries' > tries
<1>1. IInv /\ [Next]_vars => [busy => Advance]_vars
  <2> SUFFICES ASSUME IInv, Next, busy PROVE Advance
    OBVIOUS
  <2>1. cmd \in Int /\ tries \in Int
    BY DEF IInv, TypeOK
  <2>2. ASSUME NEW b \in Slots, TransferSucceeds(b) \/ TransferRetried(b) PROVE Advance
    <3>1. port' = port /\ b \in pending
      BY <2>2 DEF TransferSucceeds, TransferRetried, Current
    <3>2. CASE TransferRetried(b)
      BY <2>1, <3>1, <3>2 DEF TransferRetried
    <3>3. CASE TransferSucceeds(b)
      BY <2>1, <3>1, <3>3 DEF TransferSucceeds
    <3> QED
      BY <2>2, <3>2, <3>3
  <2>3. CASE UpdateDone \/ \E b \in Slots : TransferGivenUp(b)
    BY <2>3 DEF UpdateDone, TransferGivenUp, world
  <2>4. CASE Physical
    BY <2>4, ConstantsAssumption DEF Physical, Unplug, Plug, progress
  <2> QED
    BY <2>2, <2>3, <2>4 DEF Next, UpdateStep
<1>2. QED
  BY <1>1, Initially, Inductive, PTL DEF Spec, UpdateAdvances

\* A secondary clock that is clean shows the time of day of its zone, for all
\* time zones the library accepts.
THEOREM ClocksRight == Spec => []SecondaryClocksRight
<1>1. IInv => SecondaryClocksRight
  <2> SUFFICES ASSUME IInv, hdl = "live", NEW c \in {2, 3}, OffsBit(c) \in requested \ Dirty
               PROVE  OffsetShown(c)
    BY DEF SecondaryClocksRight
  <2> DEFINE d == fields.timezone[c] - fields.timezone[1]
             sent == ClockOffset(d, fields.time_format[c])
             minutes == IF sent.negative THEN -sent.offset ELSE sent.offset
  <2>1. d \in Int /\ fields.time_format[c] \in Formats
    BY GoodFields DEF IInv, TypeOK, ContextFields, Clocks
  <2>2. (minutes - d) % 1440 = 0
    BY <2>1, ClockOffsetCorrect
  <2>3. regs[OffsBit(c)] = sent
    <3>1. OffsBit(c) \in Slots \ LineBits
      BY DEF IInv, TypeOK, OffsBit, LineBits, LineBit, Lines
    <3>2. Shows(OffsBit(c))
      BY <3>1 DEF IInv, RepeatableShown, Repeatable
    <3>3. QED
      BY <3>2 DEF Shows, Display, Image, OffsBit, LampBits, LineBits, LineBit, Lines, BLINK,
                  BRI_MFD, BRI_LED, MFD_DATE, MFD_TIME, MFD_OFFS1, MFD_OFFS2
  <2> HIDE DEF sent
  <2>4. QED
    BY <2>2, <2>3 DEF OffsetShown
<1>2. QED
  BY <1>1, Initially, Inductive, PTL DEF Spec

-----------------------------------------------------------------------------
(* The refinement: every step of Libx52 is one of the write-back cache of  *)
(* RegisterCache, or none, under the mapping of Libx52!Cache.              *)

CacheVars == <<Dirty, requested, hdl, Want, Shown>>

\* The steps of the cache, in the variables of the library.
LEMMA CacheRequest ==
    ASSUME NEW S \in SUBSET Slots, Dirty' = Dirty \cup S, requested' = requested \cup S,
           \A b \in Slots \ S : Want'[b] = Want[b], Shown' = Shown, hdl' = hdl
    PROVE  Cache!Next
<1>1. Want' = [b \in Slots |-> Want'[b]]
  BY DEF Want
<1>2. Cache!Request(S)
  BY <1>1 DEF Cache!Request, Want, Shown
<1> QED
  BY <1>2 DEF Cache!Next

LEMMA CacheWriteBack ==
    ASSUME NEW b \in Slots, hdl = "live", b \in Dirty, Dirty' = Dirty \ {b},
           Shown' = [Shown EXCEPT ![b] = Want[b]], UNCHANGED <<Want, requested, hdl>>
    PROVE  Cache!Next
<1>1. Cache!WriteBack(b)
  BY DEF Cache!WriteBack, Want, Shown
<1> QED
  BY <1>1 DEF Cache!Next

LEMMA CacheDisturb ==
    ASSUME NEW b \in Slots, hdl = "live", b \in Dirty, UNCHANGED <<Dirty, requested, Want, hdl>>,
           \A o \in Slots \ {b} : Shown'[o] = Shown[o]
    PROVE  Cache!Next
<1>1. Shown' = [o \in Slots |-> Shown'[o]]
  BY DEF Shown
<1>2. Cache!Disturb(b)
  BY <1>1 DEF Cache!Disturb, Want, Shown
<1> QED
  BY <1>2 DEF Cache!Next

LEMMA CacheBypass ==
    ASSUME NEW b \in Slots, requested' = requested \ ({b} \ Dirty), UNCHANGED <<Dirty, hdl, Want>>,
           \A o \in Slots \ {b} : Shown'[o] = Shown[o]
    PROVE  Cache!Next
<1>1. Shown' = [o \in Slots |-> Shown'[o]]
  BY DEF Shown
<1>2. Cache!Bypass(b)
  BY <1>1 DEF Cache!Bypass, Want, Shown
<1> QED
  BY <1>2 DEF Cache!Next

LEMMA CacheOpen ==
    ASSUME hdl' = "live", requested' = Dirty, UNCHANGED <<Dirty, Want, Shown>> PROVE Cache!Next
  BY DEF Cache!Next, Cache!Open, Want, Shown

LEMMA CacheClose ==
    ASSUME hdl' = "null", UNCHANGED <<Want, Dirty, requested, Shown>> PROVE Cache!Next
  BY DEF Cache!Next, Cache!Close, Want, Shown

LEMMA CacheUnplug ==
    ASSUME hdl' = IF hdl = "live" THEN "dead" ELSE hdl, UNCHANGED <<Want, Dirty, requested, Shown>>
    PROVE  Cache!Next
  BY DEF Cache!Next, Cache!Unplug, Want, Shown

LEMMA CachePlug ==
    ASSUME hdl # "live", Shown' = [b \in Slots |-> Unknown],
           UNCHANGED <<Want, Dirty, requested, hdl>>
    PROVE  Cache!Next
  BY DEF Cache!Next, Cache!Plug, Want, Shown

LEMMA CacheStutters == ASSUME UNCHANGED CacheVars PROVE UNCHANGED Cache!vars
  BY DEF Cache!vars, CacheVars, Want, Shown

-----------------------------------------------------------------------------
\* The cached contents are those of the context, what is shown those of the registers.
LEMMA SameWant == ASSUME UNCHANGED fields PROVE Want' = Want
<1>1. \A b \in Slots : Image(fields', b) = Image(fields, b)
  OBVIOUS
<1> QED
  BY <1>1 DEF Want

LEMMA SameShown == ASSUME UNCHANGED regs PROVE Shown' = Shown
  BY DEF Shown, Display

\* A command for slot b is seen at no other.
LEMMA ShownElsewhere ==
    ASSUME IInv, NEW b \in Slots, regs' = Execute(fields, b, cmd, regs)
    PROVE  \A o \in Slots \ {b} : Shown'[o] = Shown[o]
<1>1. cmd \in Nat /\ regs = [r \in Registers |-> regs[r]]
  BY ConstantsAssumption DEF IInv, TypeOK
<1>2. \A o \in Slots \ {b} : Display(regs', o) = Display(regs, o) /\ regs'[o] = regs[o]
  BY <1>1, ExecuteElsewhere
<1> QED
  BY <1>2 DEF Shown

LEMMA SetterRefines == ASSUME IInv, ~busy, Setters PROVE [Cache!Next]_(Cache!vars)
<1>1. ASSUME NEW bits, NEW f, Request(bits, f), Changes(fields, bits, f) PROVE Cache!Next
  <2>1. bits \in SUBSET Slots /\ Dirty' = Dirty \cup bits /\ requested' = requested \cup bits
        /\ hdl' = hdl /\ regs' = regs /\ fields' = f
    BY <1>1 DEF Request, handle, progress, world, Dirty
  <2>2. \A b \in Slots \ bits : Image(f, b) = Image(fields, b)
    BY <1>1, ConstantsAssumption DEF Changes
  <2>3. \A b \in Slots \ bits : Want'[b] = Want[b]
    BY <2>1, <2>2 DEF Want
  <2> QED
    BY <2>1, <2>3, SameShown, CacheRequest
<1>2. ASSUME NEW code, Refuse(code) PROVE UNCHANGED CacheVars
  BY <1>2, SameWant, SameShown DEF Refuse, handle, progress, world, Dirty, CacheVars
<1> QED
  BY <1>1, <1>2, SetterOutcome, CacheStutters DEF Outcome

LEMMA VendorRefines ==
    ASSUME IInv, ~busy, NEW b \in Slots, VendorCommand(b) PROVE [Cache!Next]_(Cache!vars)
<1>1. CASE /\ hdl = "live"
           /\ regs' = [regs EXCEPT ![b] = Unknown]
           /\ requested' = requested \ ({b} \ update_mask)
           /\ UNCHANGED <<fields, update_mask, handle, progress, port, callbacks, left>>
  <2>1. Dirty = update_mask /\ Dirty' = Dirty /\ hdl' = hdl
    BY <1>1 DEF IInv, UpdateOK, Dirty, handle, progress
  <2>2. regs = [r \in Registers |-> regs[r]]
    BY DEF IInv, TypeOK
  <2>3. \A o \in Slots \ {b} : regs'[o] = regs[o] /\ regs'[YEAR] = regs[YEAR]
    BY <1>1, <2>2, OwnRegister
  <2>4. \A o \in Slots \ {b} : Shown'[o] = Shown[o]
    BY <2>3 DEF Shown, Display
  <2> QED
    BY <1>1, <2>1, <2>4, SameWant, CacheBypass
<1>2. ASSUME NEW code, Refuse(code) PROVE UNCHANGED CacheVars
  BY <1>2, SameWant, SameShown DEF Refuse, handle, progress, world, Dirty, CacheVars
<1>3. CASE Closed /\ UNCHANGED <<fields, update_mask, progress, world, requested>>
  BY <1>3, SameWant, SameShown, CacheClose DEF Closed, progress, world, Dirty
<1> QED
  BY <1>1, <1>2, <1>3, CacheStutters DEF VendorCommand

LEMMA CallRefines == ASSUME IInv, ~busy, Calls PROVE [Cache!Next]_(Cache!vars)
<1>1. CASE ConnectSucceeds
  <2>1. requested' = Dirty /\ Dirty' = Dirty
    BY <1>1 DEF ConnectSucceeds, progress, Dirty, IInv, UpdateOK
  <2> QED
    BY <1>1, <2>1, SameWant, SameShown, CacheOpen DEF ConnectSucceeds
<1>2. CASE ConnectFails \/ Disconnect
  BY <1>2, SameWant, SameShown, CacheClose DEF ConnectFails, Disconnect, Closed, progress, world, Dirty
<1>3. CASE IsConnected
  <2>1. UNCHANGED <<Want, Shown, Dirty, requested>>
    BY <1>3, SameWant, SameShown DEF IsConnected, progress, Dirty
  <2>2. hdl' = "null" \/ hdl' = hdl
    BY <1>3 DEF IsConnected, CallbackFires, Closed, handle
  <2> QED
    BY <2>1, <2>2, CacheClose, CacheStutters DEF CacheVars
<1>4. CASE UpdateStart
  BY <1>4, SameWant, SameShown, CacheStutters
     DEF UpdateStart, Refuse, handle, progress, world, Dirty, IInv, UpdateOK, CacheVars
<1> QED
  BY <1>1, <1>2, <1>3, <1>4 DEF Calls, Connect

\* The last command of a slot writes it back, as the cache sees it.
LEMMA WrittenBack ==
    ASSUME IInv, NEW b \in Repeatable, busy, Current(b), hdl = "live", cmd >= Commands(fields, b),
           regs' = Execute(fields, b, cmd, regs)
    PROVE  Shown' = [Shown EXCEPT ![b] = Want[b]]
<1>1. b \in Slots /\ Display(regs', b) = Image(fields, b)
  BY LastCommand DEF Repeatable
<1>2. Shown'[b] = Want[b]
  <2>1. CASE b # MFD_DATE
    BY <1>1, <2>1 DEF Shown, Want, Display
  <2>2. CASE b = MFD_DATE
    <3>1. Image(fields, b) = DateCommands(fields)
      BY <2>2, KindsExclude DEF Image
    <3>2. fields.date \in Dates /\ fields.date_format \in {"YYMMDD", "MMDDYY", "DDMMYY"}
      BY GoodFields DEF IInv, TypeOK, ContextFields, DateFormats
    <3>3. DateCommands(fields)[1] # Unknown
      BY <3>2, UnknownAssumption DEF DateCommands
    <3>4. regs'[b] = DateCommands(fields)[1]
      BY <1>1, <2>2, <3>1 DEF Display
    <3> QED
      BY <1>1, <3>3, <3>4 DEF Shown, Want
  <2> QED
    BY <2>1, <2>2
<1>3. \A o \in Slots \ {b} : Shown'[o] = Shown[o]
  BY <1>1, ShownElsewhere
<1> QED
  BY <1>2, <1>3 DEF Shown

LEMMA TransferRefines ==
    ASSUME AppendsOnce, IInv, NEW b \in Slots,
           TransferSucceeds(b) \/ TransferRetried(b) \/ TransferGivenUp(b)
    PROVE  [Cache!Next]_(Cache!vars)
<1>1. busy /\ Current(b) /\ b \in Dirty /\ Dirty = pending /\ update_mask = {}
  BY DEF TransferSucceeds, TransferRetried, TransferGivenUp, Current, Dirty, IInv, UpdateOK
<1>2. Want' = Want /\ requested' = requested
  BY SameWant DEF TransferSucceeds, TransferRetried, TransferGivenUp
<1>3. CASE TransferSucceeds(b)
  <2>1. hdl = "live" /\ hdl' = hdl /\ regs' = Execute(fields, b, cmd, regs)
    BY <1>3 DEF TransferSucceeds, handle
  <2>2. CASE cmd >= Commands(fields, b) /\ pending' = pending \ {b}
    <3>1. Dirty' = Dirty \ {b}
      BY <1>1, <1>3, <2>2 DEF TransferSucceeds, Dirty
    <3> QED
      BY <1>1, <1>2, <2>1, <2>2, <3>1, AllRepeatable, WrittenBack, CacheWriteBack
  <2>3. CASE UNCHANGED pending
    <3>1. Dirty' = Dirty
      BY <1>3, <2>3 DEF TransferSucceeds, Dirty
    <3> QED
      BY <1>1, <1>2, <2>1, <3>1, ShownElsewhere, CacheDisturb
  <2> QED
    BY <1>3, <2>2, <2>3 DEF TransferSucceeds
<1>4. CASE TransferRetried(b) \/ TransferGivenUp(b)
  <2>1. Dirty' = Dirty
    BY <1>1, <1>4 DEF TransferRetried, TransferGivenUp, LeftDirty, Dirty
  <2>2. \/ hdl' = hdl
        \/ hdl = "dead" /\ hdl' = "null"
    BY <1>4 DEF TransferRetried, TransferGivenUp, Closed, handle
  <2>3. CASE UNCHANGED regs
    BY <1>2, <2>1, <2>2, <2>3, SameShown, CacheStutters, CacheClose DEF CacheVars
  <2>4. CASE hdl = "live" /\ regs' = Execute(fields, b, cmd, regs)
    BY <1>1, <1>2, <2>1, <2>2, <2>4, ShownElsewhere, CacheDisturb
  <2> QED
    BY <1>4, <2>3, <2>4 DEF TransferRetried, TransferGivenUp, FailureReaches
<1> QED
  BY <1>3, <1>4

LEMMA PhysicalRefines == ASSUME IInv, Physical PROVE [Cache!Next]_(Cache!vars)
<1>1. CASE Unplug
  BY <1>1, SameWant, SameShown, CacheUnplug DEF Unplug, progress, Dirty
<1>2. ASSUME NEW p \in Products, Plug(p) PROVE Cache!Next
  <2>1. hdl # "live"
    BY <1>2 DEF Plug, IInv, HandleOK
  <2>2. Shown' = [b \in Slots |-> Unknown]
    BY <1>2, OwnRegister DEF Plug, Shown
  <2> QED
    BY <1>2, <2>1, <2>2, SameWant, CachePlug DEF Plug, handle, progress, Dirty
<1> QED
  BY <1>1, <1>2 DEF Physical

\* libx52 keeps the promise of a write-back cache: setters request slots, an update writes
\* them back one by one or leaves them dirty, and nothing else touches either side.
THEOREM LibraryIsCache == ASSUME AppendsOnce PROVE Spec => CacheSpec
<1>1. Init => Cache!Init
  <2> SUFFICES ASSUME Init PROVE Cache!Init
    OBVIOUS
  <2>1. Shown = [b \in Slots |-> Unknown]
    BY OwnRegister DEF Init, Shown
  <2> QED
    BY <2>1 DEF Init, Cache!Init, Want, Shown, Dirty
<1>2. IInv /\ [Next]_vars => [Cache!Next]_(Cache!vars)
  <2> SUFFICES ASSUME IInv, [Next]_vars PROVE [Cache!Next]_(Cache!vars)
    OBVIOUS
  <2>1. CASE UpdateDone
    BY <2>1, SameWant, SameShown, CacheStutters DEF UpdateDone, handle, world, Dirty, CacheVars
  <2>2. CASE UNCHANGED vars
    BY <2>2, SameWant, SameShown, CacheStutters DEF vars, handle, progress, world, Dirty, CacheVars
  <2> QED
    BY <2>1, <2>2, SetterRefines, VendorRefines, CallRefines, TransferRefines, PhysicalRefines
       DEF Next, Requests, UpdateStep
<1> QED
  BY <1>1, <1>2, Initially, Inductive, PTL DEF Spec, CacheSpec, Cache!Spec

-----------------------------------------------------------------------------
(* What the cache promises its users follows from its rules alone.         *)

\* Only slots are answered for, and there is a register for every slot.
CacheShape ==
    /\ Want = [s \in Slots |-> Want[s]]
    /\ Shown = [s \in Slots |-> Shown[s]]
    /\ Dirty \subseteq Slots
    /\ requested \subseteq Slots

LEMMA CacheShapeKept == CacheShape /\ [Cache!Next]_(Cache!vars) => CacheShape'
<1> SUFFICES ASSUME CacheShape, [Cache!Next]_(Cache!vars) PROVE CacheShape'
  OBVIOUS
<1> USE DEF CacheShape
<1>1. ASSUME NEW S \in SUBSET Slots, Cache!Request(S) PROVE CacheShape'
  BY <1>1 DEF Cache!Request
<1>2. ASSUME NEW s \in Slots, Cache!WriteBack(s) PROVE CacheShape'
  BY <1>2 DEF Cache!WriteBack
<1>3. ASSUME NEW s \in Slots, Cache!Disturb(s) \/ Cache!Bypass(s) PROVE CacheShape'
  BY <1>3 DEF Cache!Disturb, Cache!Bypass
<1>4. CASE Cache!Open \/ Cache!Close \/ Cache!Unplug \/ Cache!Plug
  BY <1>4 DEF Cache!Open, Cache!Close, Cache!Unplug, Cache!Plug
<1>5. CASE UNCHANGED Cache!vars
  BY <1>5 DEF Cache!vars
<1> QED
  BY <1>1, <1>2, <1>3, <1>4, <1>5 DEF Cache!Next

LEMMA CachePromiseKept == CacheShape /\ Cache!Promise /\ [Cache!Next]_(Cache!vars) => Cache!Promise'
<1> SUFFICES ASSUME CacheShape, Cache!Promise, [Cache!Next]_(Cache!vars), hdl' = "live",
                    NEW o \in (requested \ Dirty)'
             PROVE  Shown'[o] = Want'[o]
  BY DEF Cache!Promise
<1> USE DEF CacheShape, Cache!Promise
<1>1. ASSUME NEW S \in SUBSET Slots, Cache!Request(S) PROVE Shown'[o] = Want'[o]
  BY <1>1 DEF Cache!Request
<1>2. ASSUME NEW s \in Slots, Cache!WriteBack(s) PROVE Shown'[o] = Want'[o]
  <2>1. CASE o = s
    BY <1>2, <2>1 DEF Cache!WriteBack
  <2>2. CASE o # s
    BY <1>2, <2>2 DEF Cache!WriteBack
  <2> QED
    BY <2>1, <2>2
<1>3. ASSUME NEW s \in Slots, Cache!Disturb(s) PROVE Shown'[o] = Want'[o]
  <2>1. o # s /\ o \in requested \ Dirty /\ hdl = "live"
    BY <1>3 DEF Cache!Disturb
  <2> QED
    BY <1>3, <2>1 DEF Cache!Disturb
<1>4. ASSUME NEW s \in Slots, Cache!Bypass(s) PROVE Shown'[o] = Want'[o]
  <2>1. o # s /\ o \in requested \ Dirty /\ hdl = "live"
    BY <1>4 DEF Cache!Bypass
  <2> QED
    BY <1>4, <2>1 DEF Cache!Bypass
<1>5. CASE Cache!Open \/ Cache!Close \/ Cache!Unplug \/ Cache!Plug
  BY <1>5 DEF Cache!Open, Cache!Close, Cache!Unplug, Cache!Plug
<1>6. CASE UNCHANGED Cache!vars
  BY <1>6 DEF Cache!vars
<1> QED
  BY <1>1, <1>2, <1>3, <1>4, <1>5, <1>6 DEF Cache!Next

\* What a write-back cache promises its users follows from its rules: a slot that was
\* requested and is not dirty shows what is wanted.
THEOREM CacheKeepsPromise == CacheSpec => []Cache!Promise
<1>1. Cache!Init => CacheShape /\ Cache!Promise
  BY DEF Cache!Init, CacheShape, Cache!Promise
<1> QED
  BY <1>1, CacheShapeKept, CachePromiseKept, PTL DEF CacheSpec, Cache!Spec

\* And so the library keeps the promise of the cache: for all slots, texts, zones and
\* failures, while a joystick is connected, what was requested and is not dirty is shown.
THEOREM LibraryKeepsPromise == ASSUME AppendsOnce PROVE Spec => []Cache!Promise
  BY LibraryIsCache, CacheKeepsPromise, PTL
=============================================================================
