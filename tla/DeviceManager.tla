--------------------------- MODULE DeviceManager ---------------------------
(***************************************************************************)
(* The threads of the daemon x52d that share one libx52 context: the       *)
(* device manager, which connects to the joystick and runs libx52_update;  *)
(* the main thread, which applies the configuration; the command thread,   *)
(* which changes it for clients; and the clock thread.  A mutex guards the *)
(* setters and the update; the flag device_update_needed, which tells the  *)
(* device manager of a request, and the configuration are not guarded.     *)
(***************************************************************************)
EXTENDS Libx52

CONSTANTS
    ApplyOrder,     \* the settings of this instance, as x52d_config.def has them
    Values,         \* Values[s]: what a client may set setting s to
    Defaults,       \* the configuration without a file
    FileConfig      \* and with the one on disk

VARIABLES
    config,                 \* the configuration in memory
    clock_enabled, primary_is_local,
    device_update_needed,
    dev_pc,                 \* where the device manager is in its loop
    loading,                \* threads that read a configuration file
    todo,                   \* todo[t]: settings thread t is about to apply
    at,                     \* at[t]: "idle", or "lock" or "unlocked" in a call
    arg                     \* arg[t]: that call, a setting and its value

clock == <<clock_enabled, primary_is_local>>
threadvars == <<config, clock, device_update_needed, dev_pc, loading,
                todo, at, arg>>
dvars == <<vars, threadvars>>

Appliers == {"dev", "main", "cmd"}
Threads == Appliers \cup {"clk"}

(* A setting is a section and a key of x52d_config.def; its callback calls  *)
(* the setter for one of these LEDs or clocks.                              *)
Settings == {ApplyOrder[i] : i \in 1..Len(ApplyOrder)}
LedOf == [Fire |-> FIRE, Throttle |-> THROTTLE, A |-> 2, B |-> 4, D |-> 6, E |-> 8,
          T1 |-> 10, T2 |-> 12, T3 |-> 14, POV |-> 16, Clutch |-> 18]
ZoneOf == [Secondary |-> 2, Tertiary |-> 3]
FormatOf == [FormatPrimary |-> 1, FormatSecondary |-> 2, FormatTertiary |-> 3]

\* The settings of an instance are of these, and their values what the setters take.
ASSUME SettingsAssumption ==
    /\ ApplyOrder \in Seq(STRING \X STRING)
    /\ DOMAIN Defaults = Settings /\ DOMAIN FileConfig = Settings
    /\ \A s \in Settings : Defaults[s] \in Values[s] /\ FileConfig[s] \in Values[s]
    /\ \A s \in Settings :
        \/ s[1] = "LED" /\ s[2] \in DOMAIN LedOf /\ Values[s] \subseteq Supported(LedOf[s[2]])
        \/ s[1] = "Brightness" /\ s[2] \in {"MFD", "LED"} /\ Values[s] \subseteq Brightness
        \/ s[1] = "Clock" /\ s[2] \in {"Enabled", "PrimaryIsLocal"} /\ Values[s] \subseteq BOOLEAN
        \/ s[1] = "Clock" /\ s[2] = "DateFormat" /\ Values[s] \subseteq DateFormats
        \/ s[1] = "Clock" /\ s[2] \in DOMAIN ZoneOf /\ Values[s] \subseteq Offsets
        \/ s[1] = "Clock" /\ s[2] \in DOMAIN FormatOf /\ Values[s] \subseteq Formats

Callback(section, key, v) ==
    \/ section = "LED" /\ SetLedState(LedOf[key], v)
    \/ section = "Brightness" /\ key = "MFD" /\ SetMfdBrightness(v)
    \/ section = "Brightness" /\ key = "LED" /\ SetLedBrightness(v)
    \/ section = "Clock" /\ key \in DOMAIN ZoneOf /\ SetClockTimezone(ZoneOf[key], v)
    \/ section = "Clock" /\ key \in DOMAIN FormatOf /\ SetClockFormat(FormatOf[key], v)
    \/ section = "Clock" /\ key = "DateFormat" /\ SetDateFormat(v)
    \/ section = "Clock" /\ key = "now" /\ SetClock(v[1], v[2], v[3])

\* The slots of the context a setting outside the clock is kept in.
SlotsOf(s) ==
    CASE s[1] = "LED" -> LedBits(LedOf[s[2]])
      [] s = <<"Brightness", "MFD">> -> {BRI_MFD}
      [] s = <<"Brightness", "LED">> -> {BRI_LED}
      [] s[1] = "Clock" -> {}

\* The library is initialised, and main is about to apply the configuration it
\* has loaded.
DInit ==
    /\ Init
    /\ config = FileConfig
    /\ clock_enabled = FALSE /\ primary_is_local = FALSE
    /\ device_update_needed = FALSE
    /\ dev_pc = "init"
    /\ loading = {}
    /\ todo = [t \in Appliers |-> <<>>]
    /\ at = [t \in Threads |-> "idle"]
    /\ arg = [t \in Threads |-> <<>>]

-----------------------------------------------------------------------------
(* Applying settings.                                                      *)

Idle(t) == at[t] = "idle" /\ (t \in Appliers => todo[t] = <<>>)

\* A clock setting is skipped while the clock is off, and the state of an LED
\* on a joystick that is no Pro.
Switches == {<<"Clock", "Enabled">>, <<"Clock", "PrimaryIsLocal">>}
Skipped(s) ==
    \/ s[1] = "Clock" /\ s \notin Switches /\ ~clock_enabled
    \/ s[1] = "LED" /\ ~is_pro

\* The next setting and its value are read, without the mutex.
Evaluate(t) ==
    /\ at[t] = "idle" /\ todo[t] # <<>>
    /\ LET s == Head(todo[t]) IN
        \/ /\ s \in Switches \/ Skipped(s)
           /\ clock_enabled' = IF s = <<"Clock", "Enabled">> THEN config[s]
                                                           ELSE clock_enabled
           /\ primary_is_local' = IF s = <<"Clock", "PrimaryIsLocal">> THEN config[s]
                                                              ELSE primary_is_local
           /\ todo' = [todo EXCEPT ![t] = Tail(@)]
           /\ UNCHANGED <<at, arg>>
        \/ /\ s \notin Switches /\ ~Skipped(s)
           /\ at' = [at EXCEPT ![t] = "lock"]
           /\ arg' = [arg EXCEPT ![t] = Append(s, config[s])]
           /\ UNCHANGED <<clock, todo>>
    /\ UNCHANGED <<vars, config, device_update_needed, dev_pc, loading>>

\* device_mutex is held for the length of an update, and for a setter; faulty,
\* the setters do not take it.
MutexFree_Ignored == TRUE
MutexFree == ~busy

Return(t) ==
    /\ at' = [at EXCEPT ![t] = "idle"]
    /\ arg' = [arg EXCEPT ![t] = <<>>]
    /\ todo' = [u \in Appliers |-> IF u = t THEN Tail(todo[u]) ELSE todo[u]]

\* The setter is called with the mutex held.
CallSetter(t) ==
    /\ at[t] = "lock"
    /\ MutexFree
    /\ Callback(arg[t][1], arg[t][2], arg[t][3])
    /\ \/ rc' = "SUCCESS" /\ at' = [at EXCEPT ![t] = "unlocked"] /\ UNCHANGED <<todo, arg>>
       \/ rc' # "SUCCESS" /\ Return(t)
    /\ UNCHANGED <<config, clock, device_update_needed, dev_pc, loading>>

\* It has succeeded, and the mutex is free again.
SetFlag(t) ==
    /\ at[t] = "unlocked"
    /\ device_update_needed' = TRUE
    /\ Return(t)
    /\ UNCHANGED <<vars, config, clock, dev_pc, loading>>

-----------------------------------------------------------------------------
(* The device manager thread.                                              *)

\* The connection libx52_init tries to make; the threads start.
DevInit ==
    /\ dev_pc = "init"
    /\ Connect
    /\ dev_pc' = "loop"
    /\ todo' = [todo EXCEPT !["main"] = ApplyOrder]
    /\ UNCHANGED <<config, clock, device_update_needed, loading, at, arg>>

\* Faulty: the device manager asks whether there is a handle, not the library
\* whether it is connected.
DevCheck_HandleTested ==
    /\ dev_pc = "loop" /\ Idle("dev")
    /\ dev_pc' = IF hdl # "null" THEN "poll" ELSE "connect"
    /\ UNCHANGED <<vars, config, clock, device_update_needed, loading, todo,
                   at, arg>>

DevCheck ==
    /\ dev_pc = "loop" /\ Idle("dev")
    /\ IsConnected
    /\ dev_pc' = IF rc' = "CONNECTED" THEN "poll" ELSE "connect"
    /\ UNCHANGED <<config, clock, device_update_needed, loading, todo, at, arg>>

\* What the device manager applies to a joystick it connected to; faulty, it
\* trusts the settings the library still has from the last one.
AppliedOnConnect_Nothing == <<>>
AppliedOnConnect == ApplyOrder

DevConnect ==
    /\ dev_pc = "connect"
    /\ Connect
    /\ dev_pc' = "loop"
    /\ todo' = [todo EXCEPT !["dev"] =
                  IF rc' = "SUCCESS" THEN AppliedOnConnect ELSE <<>>]
    /\ UNCHANGED <<config, clock, device_update_needed, loading, at, arg>>

\* The flag after it was polled; and faulty, already cleared by the poll.
FlagKept_Consumed == FALSE
FlagKept == device_update_needed

DevPoll ==
    /\ dev_pc = "poll"
    /\ dev_pc' = IF device_update_needed THEN "update" ELSE "loop"
    /\ device_update_needed' = FlagKept
    /\ UNCHANGED <<vars, config, clock, loading, todo, at, arg>>

\* Where the device manager goes with what libx52_update returned.
AfterUpdate(code) ==
    CASE code = "SUCCESS" -> "clear" [] code = "NO_DEVICE" -> "disconnect" [] OTHER -> "loop"

DevUpdate ==
    /\ dev_pc = "update"
    /\ \/ ~busy /\ UpdateStart
       \/ busy /\ UpdateStep
    /\ dev_pc' = IF busy' THEN "update" ELSE AfterUpdate(rc')
    /\ UNCHANGED <<config, clock, device_update_needed, loading, todo, at, arg>>

DevClear ==
    /\ dev_pc = "clear"
    /\ device_update_needed' = FALSE
    /\ dev_pc' = "loop"
    /\ UNCHANGED <<vars, config, clock, loading, todo, at, arg>>

DevDisconnect ==
    /\ dev_pc = "disconnect"
    /\ Disconnect
    /\ dev_pc' = "loop"
    /\ UNCHANGED <<config, clock, device_update_needed, loading, todo, at, arg>>

Device == DevInit \/ DevCheck \/ DevConnect \/ DevPoll \/ DevUpdate \/ DevClear \/ DevDisconnect

-----------------------------------------------------------------------------
(* The other threads.                                                      *)

\* The main thread on SIGHUP, or the command thread for "config load", starts
\* to load a file: the configuration is set to the defaults ...
LoadDefaults(t) ==
    /\ dev_pc # "init" /\ Idle(t) /\ t \notin loading
    /\ config' = Defaults
    /\ loading' = loading \cup {t}
    /\ UNCHANGED <<vars, clock, device_update_needed, dev_pc, todo, at, arg>>

\* ... then to what the file says, and all of it is applied.
LoadFile(t) ==
    /\ t \in loading
    /\ config' = FileConfig
    /\ loading' = loading \ {t}
    /\ todo' = [todo EXCEPT ![t] = ApplyOrder]
    /\ UNCHANGED <<vars, clock, device_update_needed, dev_pc, at, arg>>

\* A client's "config set": the setting is changed and applied.
ConfigSet(s, v) ==
    /\ dev_pc # "init" /\ Idle("cmd") /\ "cmd" \notin loading
    /\ config' = [config EXCEPT ![s] = v]
    /\ todo' = [todo EXCEPT !["cmd"] = <<s>>]
    /\ UNCHANGED <<vars, clock, device_update_needed, dev_pc, loading, at, arg>>

\* Every second, if the clock is on, the clock thread sets it.
ClockTick(d, t, tz) ==
    /\ dev_pc # "init" /\ Idle("clk")
    /\ clock_enabled /\ (~primary_is_local => tz = 0)
    /\ at' = [at EXCEPT !["clk"] = "lock"]
    /\ arg' = [arg EXCEPT !["clk"] = <<"Clock", "now", <<d, t, tz>>>>]
    /\ UNCHANGED <<vars, config, clock, device_update_needed, dev_pc, loading,
                   todo>>

Loads == \E t \in {"main", "cmd"} : LoadDefaults(t)
Sets == \E s \in Settings : \E v \in Values[s] : ConfigSet(s, v)
Ticks == \E d \in Dates \ {ZeroDate}, t \in Times, tz \in LocalZones : ClockTick(d, t, tz)

Steps(t) ==
    \/ t \in Appliers /\ Evaluate(t)
    \/ CallSetter(t)
    \/ SetFlag(t)
    \/ LoadFile(t)

DNext ==
    \/ Device
    \/ \E t \in Threads : Steps(t)
    \/ Loads \/ Sets \/ Ticks
    \/ Physical /\ UNCHANGED threadvars

DSpec == DInit /\ [][DNext]_dvars

-----------------------------------------------------------------------------
(* Properties.                                                             *)

AllIdle == dev_pc \in {"loop", "poll"} /\ loading = {} /\ \A t \in Threads : Idle(t)

\* The variables have their types; and a handle that is closed has no flags, an
\* update runs in the device manager alone, and a thread has a setting at hand
\* exactly while it calls its setter.
DTypeOK ==
    /\ TypeOK
    /\ is_pro \/ handle_registered => hdl # "null"
    /\ DOMAIN config = Settings /\ \A s \in Settings : config[s] \in Values[s]
    /\ clock_enabled \in BOOLEAN /\ primary_is_local \in BOOLEAN
    /\ device_update_needed \in BOOLEAN
    /\ dev_pc \in {"init", "loop", "poll", "connect", "update", "clear", "disconnect"}
    /\ loading \subseteq {"main", "cmd"}
    /\ \A t \in Threads : at[t] = "idle" <=> arg[t] = <<>>
    /\ busy => dev_pc = "update"

\* Whatever joystick is connected, by whichever route the last one was lost and
\* in whatever state a reload, a client or the clock was then: when the threads
\* have come to rest, every setting it has has been requested of it.
EverySettingRequested ==
    AllIdle /\ hdl = "live" =>
        \A s \in Settings : ~Skipped(s) => SlotsOf(s) \subseteq requested

\* A request is on its way to the device manager: the flag is set, or the thread
\* whose setter succeeded is about to set it.
Heard == device_update_needed \/ \E t \in Threads : at[t] = "unlocked"

\* Whoever makes a slot dirty tells the device manager, and what was told is
\* forgotten in one step only, the clearing of the flag after an update that
\* succeeded: not by an update that failed, a lost joystick or a reconnect.
RequestsHeard ==
    [][ (Dirty' \ Dirty # {} \/ Heard) =>
        (Heard' \/ (dev_pc = "clear" /\ dev_pc' = "loop")) ]_dvars

\* A client's "config set" and a reload end with the requested brightness being
\* the configured one.
ContextFollowsConfig ==
    AllIdle /\ <<"Brightness", "MFD">> \in Settings =>
        fields.mfd_brightness = config[<<"Brightness", "MFD">>]

\* A handle whose joystick has left is closed some time: by the hotplug
\* callback, by an update that runs into it, or, without a callback, because no
\* kernel driver is attached.
DeadHandleNoticed == hdl = "dead" ~> hdl # "dead"

\* A joystick that stays plugged in is opened, and again whenever its handle is
\* lost.
JoystickServed == <>[](port # None) => []<>(hdl = "live")

\* When a setter has told the device manager of its request, an update runs and
\* succeeds, however many fail before it, or the joystick is lost: the flag is
\* kept over failures.
RequestServed ==
    device_update_needed /\ hdl = "live" /\ handle_registered
        ~> dev_pc = "clear" \/ hdl # "live"

\* A client's "config set" reaches the joystick: a dirty slot gets written, or
\* the joystick is lost.
DirtyIsWritten ==
    update_mask # {} /\ hdl = "live" /\ handle_registered
        ~> update_mask = {} \/ hdl # "live"
=============================================================================
