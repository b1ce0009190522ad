------------------------------- MODULE Libx52 -------------------------------
(***************************************************************************)
(* libx52: the device context (struct libx52_device), the connection to a  *)
(* joystick through libusb, the setters, and libx52_update, which writes   *)
(* the dirty parts of the context to the joystick one vendor command at a  *)
(* time.  The joystick can be unplugged, and another plugged in, between   *)
(* any two USB transfers.                                                  *)
(***************************************************************************)
EXTENDS Integers, Sequences

CONSTANTS
    Slots,          \* the bits of update_mask this instance exercises
    Products,       \* the joystick models libx52 supports ...
    ProProduct,     \* ... and the one that is an X52 Pro
    None,           \* no joystick
    Unknown,        \* the contents of a register nobody has written
    Chunks,         \* pairs of characters of an MFD line
    MaxText,        \* an MFD line holds this many pairs
    Texts,          \* the texts applications ask for, sequences of pairs
    Brightness,     \* brightness levels
    Dates,          \* [dd, mm, yy] records
    Times,          \* times of day, hour and minute
    Offsets,        \* time zones for the other clocks, minutes east of GMT
    LocalZones,     \* and those the primary clock can be in
    ZeroTime,       \* the fields of a context that calloc just cleared
    ZeroDate,
    LostAcks        \* may a transfer that failed have reached the joystick?

(* The bits of update_mask.                                                *)
SHIFT == 0
FIRE == 1
THROTTLE == 20
BLINK == 24
BRI_MFD == 25
BRI_LED == 26
MFD_DATE == 27
MFD_TIME == 28
MFD_OFFS1 == 29
MFD_OFFS2 == 30

Bits == 0..30
Lines == 0..2
LineBit(l) == 21 + l
LineBits == {LineBit(l) : l \in Lines}
SingleLeds == {FIRE, THROTTLE}
ColourLeds == {2 * i : i \in 1..9}          \* red at this bit, green above it
LampBits == 0..20 \cup {BLINK}              \* the bits of led_mask in use

Clocks == 1..3
Minutes == -1440..1440                      \* an offset of a day either way
OffsBit(c) == 27 + c                        \* TIME, OFFS1, OFFS2
Formats == {"12hr", "24hr"}
DateFormats == {"DDMMYY", "MMDDYY", "YYMMDD"}
LedStates == {"OFF", "ON", "RED", "AMBER", "GREEN"}

(* A slot is written to the register of the same number; the date takes a  *)
(* second one.                                                             *)
YEAR == 32
Registers == Slots \cup {YEAR}

ASSUME ConstantsAssumption ==
    /\ Slots \subseteq Bits
    /\ ProProduct \in Products
    /\ None \notin Products
    /\ Texts \subseteq Seq(Chunks)
    /\ MaxText \in Nat
    /\ Offsets \subseteq Int
    /\ LocalZones \subseteq Minutes /\ 0 \in LocalZones
    /\ Brightness \subseteq Nat /\ 0 \in Brightness
    /\ ZeroTime \in Times
    /\ ZeroDate \in Dates
    /\ LostAcks \in BOOLEAN
    \* set_led_state and set_clock dirty their two slots together
    /\ \A b \in ColourLeds : b \in Slots <=> b + 1 \in Slots
    /\ MFD_OFFS1 \in Slots <=> MFD_OFFS2 \in Slots

\* A register nobody has written holds nothing a date could be written as.
ASSUME UnknownAssumption ==
    \A d \in Dates : Unknown \notin {<<d.mm, d.yy>>, <<d.dd, d.mm>>, <<d.mm, d.dd>>}

VARIABLES
    fields,             \* the requested state, the data fields of the context
    update_mask,        \* the dirty slots
    hdl,                \* "null", "live", or "dead": open, but unplugged
    is_pro,             \* the only flag
    handle_registered,  \* is the hotplug callback of hdl registered?
    busy,               \* is libx52_update under way?
    pending,            \* its copy of the mask
    cmd,                \* the vendor command of the slot it is at, from 1
    tries,              \* and which of three tries that is
    rc,                 \* what the last call returned
    port,               \* the joystick plugged in, or None
    regs,               \* what its registers hold
    callbacks,          \* libusb: products with a hotplug callback
    left,               \* libusb: products with a DEVICE_LEFT event queued
    requested           \* history: the slots requested on this connection,
                        \* or still dirty when it was opened

handle == <<hdl, is_pro, handle_registered>>
progress == <<busy, pending, cmd, tries>>
world == <<port, regs, callbacks, left>>
vars == <<fields, update_mask, handle, progress, rc, world, requested>>

Dirty == update_mask \cup pending

-----------------------------------------------------------------------------
(* What is written for a slot.                                             *)

\* Faulty: the sign of an offset that wrapped is not turned.
ClockOffset_SignKept(d, fmt) ==
    LET wrapped == (((IF d < 0 THEN -d ELSE d) - 1024) % 1440) - 416
    IN [h24 |-> fmt = "24hr", negative |-> d < 0,
        offset |-> IF wrapped < 0 THEN -wrapped ELSE wrapped]

\* The 16 bits for a secondary clock: the offset, d minutes, from the primary
\* clock as a sign and 10 bits, where whole days are dropped until it fits.
ClockOffset(d, fmt) ==
    LET magnitude == IF d < 0 THEN -d ELSE d
        \* while (offset > 1023) offset -= 1440
        wrapped == ((magnitude - 1024) % 1440) - 416
    IN [h24 |-> fmt = "24hr",
        negative |-> (d < 0) # (wrapped < 0),
        offset |-> (IF wrapped < 0 THEN -wrapped ELSE wrapped) % 1024]

\* The date as the command for the first two bytes and the one for the third.
DateCommands(f) ==
    LET d == f.date IN
    CASE f.date_format = "YYMMDD" -> <<<<d.mm, d.yy>>, d.dd>>
      [] f.date_format = "MMDDYY" -> <<<<d.dd, d.mm>>, d.yy>>
      [] f.date_format = "DDMMYY" -> <<<<d.mm, d.dd>>, d.yy>>

\* The contents the register, or registers, of slot b get.
Image(f, b) ==
    CASE b \in LampBits -> b \in f.led_mask
      [] b \in LineBits -> f.line[b - LineBit(0)]
      [] b = BRI_MFD    -> f.mfd_brightness
      [] b = BRI_LED    -> f.led_brightness
      [] b = MFD_DATE   -> DateCommands(f)
      [] b = MFD_TIME   -> [h24 |-> f.time_format[1] = "24hr", time |-> f.time]
      [] b = MFD_OFFS1  -> ClockOffset(f.timezone[2] - f.timezone[1], f.time_format[2])
      [] b = MFD_OFFS2  -> ClockOffset(f.timezone[3] - f.timezone[1], f.time_format[3])

\* Faulty: the last pair of a line is not written.
Commands_OneShort(f, b) ==
    IF b \in LineBits THEN Len(f.line[b - LineBit(0)])
    ELSE IF b = MFD_DATE THEN 2 ELSE 1

\* How many vendor commands the handler of b sends.
Commands(f, b) ==
    CASE b \in LineBits -> 1 + Len(f.line[b - LineBit(0)])
      [] b = MFD_DATE -> 2
      [] OTHER -> 1

\* The registers after the joystick executed the c-th command for slot b: a
\* line is cleared, then every command appends a pair of characters.
Execute(f, b, c, r) ==
    CASE b \in LineBits /\ c = 1 -> [r EXCEPT ![b] = <<>>]
      [] b \in LineBits /\ c > 1 ->
            [r EXCEPT ![b] = Append(@, f.line[b - LineBit(0)][c - 1])]
      [] b = MFD_DATE /\ c = 1 -> [r EXCEPT ![b] = DateCommands(f)[1]]
      [] b = MFD_DATE /\ c = 2 -> [r EXCEPT ![YEAR] = DateCommands(f)[2]]
      [] OTHER -> [r EXCEPT ![b] = Image(f, b)]

\* What the joystick with registers r displays for slot b.
Display(r, b) == IF b = MFD_DATE THEN <<r[b], r[YEAR]>> ELSE r[b]

Shows(b) == Display(regs, b) = Image(fields, b)

-----------------------------------------------------------------------------
(* libx52_init: a cleared context; the connection it then tries to make is *)
(* the first Connect.                                                      *)
Init ==
    /\ fields = [led_mask |-> {}, mfd_brightness |-> 0, led_brightness |-> 0,
                 line |-> [l \in Lines |-> <<>>],
                 date_format |-> "DDMMYY", date |-> ZeroDate, time |-> ZeroTime,
                 timezone |-> [c \in Clocks |-> 0],
                 time_format |-> [c \in Clocks |-> "12hr"]]
    /\ update_mask = {}
    /\ hdl = "null" /\ is_pro = FALSE /\ handle_registered = FALSE
    /\ busy = FALSE /\ pending = {} /\ cmd = 1 /\ tries = 1
    /\ rc = "SUCCESS"
    /\ port \in Products \cup {None}
    /\ regs = [r \in Registers |-> Unknown]
    /\ callbacks = {} /\ left = {}
    /\ requested = {}

(* The setters change fields and mark what they changed.                   *)
Request(bits, f) ==
    /\ bits \subseteq Slots
    /\ fields' = f
    /\ update_mask' = update_mask \cup bits
    /\ requested' = requested \cup bits
    /\ rc' = "SUCCESS"
    /\ UNCHANGED <<handle, progress, world>>

Refuse(code) ==
    /\ rc' = code
    /\ UNCHANGED <<fields, update_mask, handle, progress, world, requested>>

\* What libx52_set_text keeps of a text; and the faulty all of it.
Stored_Uncapped(text) == text
Stored(text) == SubSeq(text, 1, IF Len(text) > MaxText THEN MaxText ELSE Len(text))

SetText(l, text) ==
    \/ l \in Lines /\ Request({LineBit(l)}, [fields EXCEPT !.line[l] = Stored(text)])
    \/ l \notin Lines /\ Refuse("INVALID_PARAM")

\* The slots of an LED; faulty, only the red lamp of a coloured one.
LedBits_RedOnly(led) == {led}
LedBits(led) == IF led \in SingleLeds THEN {led} ELSE {led, led + 1}

Supported(led) == IF led \in SingleLeds THEN {"OFF", "ON"} ELSE LedStates \ {"ON"}

Lit(led, state) ==
    CASE state = "OFF" -> {}
      [] state \in {"ON", "RED"} -> {led}
      [] state = "GREEN" -> {led + 1}
      [] state = "AMBER" -> {led, led + 1}

SetLedState(led, state) ==
    \/ /\ is_pro /\ state \in Supported(led)
       /\ Request(LedBits(led),
                  [fields EXCEPT !.led_mask = (@ \ LedBits(led)) \cup Lit(led, state)])
    \/ /\ ~(is_pro /\ state \in Supported(led))
       /\ LedBits(led) \subseteq Slots
       /\ Refuse("NOT_SUPPORTED")

SetMfdBrightness(v) == Request({BRI_MFD}, [fields EXCEPT !.mfd_brightness = v])
SetLedBrightness(v) == Request({BRI_LED}, [fields EXCEPT !.led_brightness = v])

\* libx52_set_shift and libx52_set_blink
SetLamp(b, on) ==
    Request({b}, [fields EXCEPT !.led_mask = IF on THEN @ \cup {b} ELSE @ \ {b}])

SetDate(d) == Request({MFD_DATE}, [fields EXCEPT !.date = d])
SetTime(t) == Request({MFD_TIME}, [fields EXCEPT !.time = t])
SetDateFormat(fmt) == Request({MFD_DATE}, [fields EXCEPT !.date_format = fmt])

\* Faulty: a change of time zone does not mark the two clocks that follow.
ClockNews_NoOffsets(d, t, tz) ==
    (IF fields.date # d THEN {MFD_DATE} ELSE {})
    \cup (IF fields.time # t THEN {MFD_TIME} ELSE {})

\* The clock is at date d and time t in the time zone tz, 0 unless local: what
\* is no news is not marked, and nothing new at all is TRY_AGAIN.
ClockNews(d, t, tz) ==
    (IF fields.date # d THEN {MFD_DATE} ELSE {})
    \cup (IF fields.time # t THEN {MFD_TIME} ELSE {})
    \cup (IF fields.timezone[1] # tz THEN {MFD_OFFS1, MFD_OFFS2} ELSE {})

SetClock(d, t, tz) ==
    \/ /\ ClockNews(d, t, tz) # {}
       /\ Request(ClockNews(d, t, tz),
                  [fields EXCEPT !.date = d, !.time = t, !.timezone[1] = tz])
    \/ /\ ClockNews(d, t, tz) = {}
       /\ Refuse("TRY_AGAIN")

\* The zones accepted.
ZoneInRange(offset) == offset \in Minutes

SetClockTimezone(c, offset) ==
    \/ /\ ZoneInRange(offset) /\ c # 1
       /\ Request({OffsBit(c)}, [fields EXCEPT !.timezone[c] = offset])
    \/ /\ ~ZoneInRange(offset)
       /\ Refuse("OUT_OF_RANGE")
    \/ /\ ZoneInRange(offset) /\ c = 1
       /\ Refuse("NOT_SUPPORTED")

SetClockFormat(c, fmt) ==
    Request({OffsBit(c)}, [fields EXCEPT !.time_format[c] = fmt])

-----------------------------------------------------------------------------
(* Connecting and disconnecting.                                           *)

\* libx52_disconnect; and faulty, with the flags of the old joystick left.
Closed_FlagsKept == hdl' = "null" /\ UNCHANGED <<is_pro, handle_registered>>
Closed == hdl' = "null" /\ is_pro' = FALSE /\ handle_registered' = FALSE

Disconnect ==
    /\ Closed
    /\ rc' = "SUCCESS"
    /\ UNCHANGED <<fields, update_mask, progress, world, requested>>

\* libx52_connect finds a joystick and opens it; the hotplug callback may be
\* refused, and a callback of an earlier connection is not deregistered.
ConnectSucceeds ==
    /\ port # None
    /\ hdl' = "live"
    /\ is_pro' = (port = ProProduct)
    /\ \/ handle_registered' = TRUE /\ callbacks' = callbacks \cup {port}
       \/ handle_registered' = FALSE /\ UNCHANGED callbacks
    /\ requested' = update_mask
    /\ rc' = "SUCCESS"
    /\ UNCHANGED <<fields, update_mask, progress, port, regs, left>>

\* There is no joystick, or it cannot be opened: the old handle is gone.
ConnectFails ==
    /\ Closed
    /\ rc' \in IF port = None THEN {"NO_DEVICE"} ELSE {"USB_ERROR"}
    /\ UNCHANGED <<fields, update_mask, progress, world, requested>>

Connect == ConnectSucceeds \/ ConnectFails

\* Faulty: the callback is used up but the handle stays.
CallbackFires_HandleKept(gone) == UNCHANGED handle

\* The hotplug callback closes the handle, whichever joystick it was that left.
CallbackFires(gone) ==
    \/ gone # {} /\ Closed
    \/ gone = {} /\ UNCHANGED handle

\* libx52_is_connected first dispatches the events that have arrived, and a
\* callback that has fired is deregistered.  A handle with a callback counts as
\* connected, one without while a kernel driver is attached to the joystick.
IsConnected ==
    \E arrived \in SUBSET left :
        LET gone == callbacks \cap arrived
            open == hdl # "null" /\ gone = {}
        IN /\ left' = left \ arrived
           /\ callbacks' = callbacks \ gone
           /\ CallbackFires(gone)
           /\ \/ open /\ (handle_registered \/ hdl = "live") /\ rc' = "CONNECTED"
              \/ ~(open /\ handle_registered) /\ rc' = "NOT_CONNECTED"
           /\ UNCHANGED <<fields, update_mask, progress, port, regs, requested>>

-----------------------------------------------------------------------------
(* libx52_update.                                                          *)

UpdateStart ==
    \/ /\ hdl # "null"
       /\ busy' = TRUE
       /\ pending' = update_mask
       /\ update_mask' = {}
       /\ cmd' = 1 /\ tries' = 1
       /\ UNCHANGED <<fields, handle, rc, world, requested>>
    \/ /\ hdl = "null"
       /\ Refuse("NO_DEVICE")

\* Slots are written in the order of their bits.
Current(b) == b \in pending /\ \A o \in pending : b <= o

\* The joystick executes the command and says so; after the last command of
\* the slot its bit is cleared.
TransferSucceeds(b) ==
    /\ busy /\ Current(b) /\ hdl = "live"
    /\ regs' = Execute(fields, b, cmd, regs)
    /\ tries' = 1
    /\ \/ cmd < Commands(fields, b) /\ cmd' = cmd + 1 /\ UNCHANGED pending
       \/ cmd >= Commands(fields, b) /\ cmd' = 1 /\ pending' = pending \ {b}
    /\ UNCHANGED <<fields, update_mask, handle, busy, rc, port, callbacks, left,
                   requested>>

\* A transfer fails.  If its acknowledgement is what was lost, the joystick
\* has executed the command all the same.
FailureReaches(b) ==
    \/ UNCHANGED regs
    \/ LostAcks /\ hdl = "live" /\ regs' = Execute(fields, b, cmd, regs)

\* Faulty: after a failure the slot is begun again, with all its tries.
TransferRetried_SlotAgain(b) ==
    /\ busy /\ Current(b) /\ tries < 3
    /\ FailureReaches(b)
    /\ cmd' = 1 /\ tries' = 1
    /\ UNCHANGED <<fields, update_mask, handle, busy, pending, rc, port,
                   callbacks, left, requested>>

TransferRetried(b) ==
    /\ busy /\ Current(b) /\ tries < 3
    /\ FailureReaches(b)
    /\ tries' = tries + 1
    /\ UNCHANGED <<fields, update_mask, handle, busy, pending, cmd, rc, port,
                   callbacks, left, requested>>

\* What an update that fails at slot b leaves dirty; and the faulty version
\* that has cleared the bit before it knows.
LeftDirty_FailedCleared(b) == pending \ {b}
LeftDirty(b) == pending

\* The third failure ends the update; what is left goes back to update_mask,
\* and NO_DEVICE, which only a joystick that left answers, closes the handle.
TransferGivenUp(b) ==
    /\ busy /\ Current(b) /\ tries = 3
    /\ FailureReaches(b)
    /\ update_mask' = LeftDirty(b)
    /\ pending' = {} /\ busy' = FALSE /\ cmd' = 1 /\ tries' = 1
    /\ \/ hdl = "dead" /\ rc' = "NO_DEVICE" /\ Closed
       \/ rc' = "USB_ERROR" /\ UNCHANGED handle
    /\ UNCHANGED <<fields, port, callbacks, left, requested>>

UpdateDone ==
    /\ busy /\ pending = {}
    /\ busy' = FALSE
    /\ rc' = "SUCCESS"
    /\ UNCHANGED <<fields, update_mask, handle, pending, cmd, tries, world, requested>>

UpdateStep ==
    \/ \E b \in Slots : TransferSucceeds(b) \/ TransferRetried(b) \/ TransferGivenUp(b)
    \/ UpdateDone

\* libx52_vendor_command called by the application for the register of slot b:
\* it goes past the context, which no longer answers for a clean slot.
VendorCommand(b) ==
    \/ /\ hdl = "live"
       /\ regs' = [regs EXCEPT ![b] = Unknown]
       /\ requested' = requested \ ({b} \ update_mask)
       /\ rc' \in {"SUCCESS"} \cup (IF LostAcks THEN {"USB_ERROR"} ELSE {})
       /\ UNCHANGED <<fields, update_mask, handle, progress, port, callbacks, left>>
    \/ hdl # "null" /\ Refuse("USB_ERROR")
    \/ hdl = "null" /\ Refuse("NO_DEVICE")
    \/ /\ hdl = "dead" /\ Closed
       /\ rc' = "NO_DEVICE"
       /\ UNCHANGED <<fields, update_mask, progress, world, requested>>

-----------------------------------------------------------------------------
(* The joystick comes and goes, and libusb queues an event when it goes.   *)

Unplug ==
    /\ port # None
    /\ port' = None
    /\ left' = left \cup {port}
    /\ hdl' = IF hdl = "live" THEN "dead" ELSE hdl
    /\ UNCHANGED <<fields, update_mask, is_pro, handle_registered, progress, rc,
                   regs, callbacks, requested>>

Plug(p) ==
    /\ port = None
    /\ port' = p
    /\ regs' = [r \in Registers |-> Unknown]
    /\ UNCHANGED <<fields, update_mask, handle, progress, rc, callbacks, left,
                   requested>>

-----------------------------------------------------------------------------
Setters ==
    \/ \E l \in Lines \cup {3}, text \in Texts : SetText(l, text)     \* there is no line 3
    \/ \E led \in SingleLeds \cup ColourLeds, state \in LedStates : SetLedState(led, state)
    \/ \E v \in Brightness : SetMfdBrightness(v) \/ SetLedBrightness(v)
    \/ \E b \in {SHIFT, BLINK}, on \in BOOLEAN : SetLamp(b, on)
    \/ \E d \in Dates : SetDate(d)
    \/ \E t \in Times : SetTime(t)
    \/ \E fmt \in DateFormats : SetDateFormat(fmt)
    \/ \E d \in Dates \ {ZeroDate}, t \in Times, tz \in LocalZones : SetClock(d, t, tz)
    \/ \E c \in Clocks, offset \in Offsets : SetClockTimezone(c, offset)
    \/ \E c \in Clocks, fmt \in Formats : SetClockFormat(c, fmt)

Requests == Setters \/ \E b \in Slots : VendorCommand(b)

Calls == Connect \/ Disconnect \/ IsConnected \/ UpdateStart

Physical == Unplug \/ \E p \in Products : Plug(p)

\* The application serialises its calls, as the library asks it to.
Next ==
    \/ ~busy /\ (Requests \/ Calls)
    \/ UpdateStep
    \/ Physical

Spec == Init /\ [][Next]_vars

-----------------------------------------------------------------------------
(* Properties.                                                             *)

Codes == {"SUCCESS", "INVALID_PARAM", "TRY_AGAIN", "NOT_SUPPORTED", "OUT_OF_RANGE", "NO_DEVICE",
          "USB_ERROR", "CONNECTED", "NOT_CONNECTED"}

ContextFields ==
    [led_mask : SUBSET Bits, mfd_brightness : Brightness, led_brightness : Brightness,
     line : [Lines -> Seq(Chunks)],
     date_format : DateFormats, date : Dates, time : Times,
     timezone : [Clocks -> Int], time_format : [Clocks -> Formats]]

Fits(text) == Len(text) <= MaxText

Contexts ==
    {f \in ContextFields : /\ \A l \in Lines : Fits(f.line[l])
                           /\ \A c \in Clocks : f.timezone[c] \in Minutes}

\* The fields of the context stay in range (an MFD line never holds more than
\* fits, a zone is within a day of GMT), and the masks name slots.
TypeOK ==
    /\ fields \in Contexts
    /\ update_mask \subseteq Slots /\ pending \subseteq Slots
    /\ requested \subseteq Slots
    /\ hdl \in {"null", "live", "dead"}
    /\ is_pro \in BOOLEAN /\ handle_registered \in BOOLEAN
    /\ busy \in BOOLEAN
    /\ cmd \in 1..(2 + MaxText) /\ tries \in 1..3
    /\ rc \in Codes
    /\ port \in Products \cup {None}
    /\ regs = [r \in Registers |-> regs[r]]
    /\ callbacks \subseteq Products /\ left \subseteq Products

\* A slot that is clean shows what the context says, whatever updates failed
\* half-way and joysticks came and went since it was requested: every setter
\* marks every slot its field is part of, and libx52_update clears a mark only
\* for a slot written in full.
CleanSlotsShown == hdl = "live" => \A b \in requested \ Dirty : Shows(b)

\* A request leaves the masks only by a write that made the joystick show it:
\* an error, an unplug, a disconnect or a connect in between does not drop it.
RequestsSurvive ==
    [][\A b \in Dirty \ Dirty' : hdl = "live" /\ Shows(b)']_vars

\* An update ends: whatever fails and whoever pulls the plug, each of its steps is a
\* further try of the command, a further command of the slot or the end of the slot
\* or of the update, of which there are but so many, and nothing sets it back.
UpdateAdvances ==
    [][busy => IF port' # port THEN UNCHANGED progress
               ELSE \/ ~busy'
                    \/ pending' \subseteq pending /\ pending' # pending
                    \/ pending' = pending /\ cmd' > cmd
                    \/ pending' = pending /\ cmd' = cmd /\ tries' > tries]_vars

\* When a joystick left and its handle has a hotplug callback, the event that
\* makes libx52_is_connected close the handle is still to come; otherwise that
\* function, which then asks nobody else, would say "connected" for ever.
DeadHandleIsReported ==
    hdl = "dead" /\ handle_registered => callbacks \cap left # {}

\* The clock the joystick derives from the offset it is sent is the one asked
\* for: the offset is the difference of the zones, up to whole days.
OffsetShown(c) ==
    LET sent == regs[OffsBit(c)]
        minutes == IF sent.negative THEN -sent.offset ELSE sent.offset
    IN (minutes - (fields.timezone[c] - fields.timezone[1])) % 1440 = 0

SecondaryClocksRight ==
    hdl = "live" =>
        \A c \in {2, 3} : OffsBit(c) \in requested \ Dirty => OffsetShown(c)

\* The library implements the write-back cache: a setter is a request for the
\* slots it marks, a vendor command a write of one slot, or a disturbance.
Want == [b \in Slots |-> Image(fields, b)]
Shown == [b \in Slots |-> IF regs[b] = Unknown THEN Unknown ELSE Display(regs, b)]
Cache == INSTANCE RegisterCache WITH want <- Want, dirty <- Dirty, shown <- Shown, link <- hdl

CacheSpec == Cache!Spec
=============================================================================
