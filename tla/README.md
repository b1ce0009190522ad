# libx52 in TLA+

libx52 drives the display, the LEDs and the clocks of the Saitek X52 joysticks.
The repository holds a library (`libx52`), a daemon (`x52d`) that owns the
joystick and takes commands from clients, a second library (`libx52io`) and two
kernel drivers that read its reports, and smaller tools. This directory models
them, checks the models with TLC and proves the most important results with TLAPS.

## The system

| Component | State | Operations | Hard part |
|---|---|---|---|
| libx52 context (`x52_mfd_led.c`, `x52_date_time.c`) | requested contents, `update_mask` | setters | every setter must mark every part its field is shown in |
| libx52 update (`x52_control.c`) | copy of the mask, place in it | `libx52_update`, `libx52_vendor_command` | failures half-way, three tries, unplugs between transfers |
| libx52 connection (`x52_core.c`) | handle, flags, hotplug callback | connect, disconnect, is_connected | stale handles, late events, joysticks of another model |
| device manager (`x52d_device.c`) | `device_mutex`, `device_update_needed` | thread loop, wrapped setters, update | flag and connection are outside the mutex |
| configuration (`x52d_config.c`) | configuration in memory | load, set, apply | read without a lock by three threads |
| clock (`x52d_clock.c`, settings in `x52d_led.c` alike) | two switches | tick, callbacks | settings skipped while the clock is off |
| main thread (`x52d_main.c`) | three flags, signal masks | start, loop, end | signals at any moment, taken by main or by the mouse thread |
| command thread (`x52d_command.c`, `x52d_client.c`) | client table, answer under way | config and logging commands | hang-ups at any moment, a full table, two threads that load files |
| clients (`x52ctl.c`, `x52d_comm_*.c`) | command under way | connect, send, receive | empty words, answers to whoever asked |
| parser and dump (`x52d_config_parser.c`, `x52d_config_dump.c`) | settings, overrides, files | parse, dump, set, get | round trip; a rejected text must change nothing |
| notifications (`x52d_notify.c`) | pipe, client table | send, broadcast, listen | not modelled, see below |
| input and mouse (`x52d_io.c`, `x52d_mouse*.c`) | old and new report | read, compare, move | two threads share the reports |
| libx52io (`libx52io/`) | handle, axis ranges; the report is the application's | open, close, read | layouts and button orders differ by model |
| kernel drivers (`kernel_module/`) | input device | raw event | the same layouts, written down again |
| character map (`libx52util/`) | none | UTF-8 to display characters | broken and unknown characters, a full buffer |
| x52cli (`cli/x52_cli.c`) | exit status | one command | several calls of which one is refused |

The application threads of the daemon (main, command, clock) call the setters of
the library under `device_mutex` and set `device_update_needed`; the device
manager polls the flag, runs `libx52_update` under the mutex and clears it. The
joystick, libusb and the operating system are outside the code: they are
modelled from how it uses them, and marked external.

## Modules

### RegisterCache: what the library promises

The abstract specification: a write-back cache in front of the registers of a
device that can vanish. Clients request contents for slots; a slot stops being
dirty only in a step that leaves its register with the contents wanted.
`Promise` follows from its rules (`CacheKeepsPromise`).

### Libx52: the library

One `libx52_device`. A *slot* is a bit of `update_mask`; the register of a slot
has its number, and the date has a second one (`YEAR`).

| Variable | In the code |
|---|---|
| `fields` | the data fields of `struct libx52_device` |
| `update_mask`, `is_pro`, `handle_registered` | the members of that name; `is_pro` is the only flag |
| `hdl` | `hdl`: `"null"`, or open to a joystick that is there (`"live"`) or has left (`"dead"`) |
| `busy`, `pending`, `cmd`, `tries` | `libx52_update` under way: its local mask, the vendor command of the slot it is at, the try |
| `rc` | the return value of the last call |
| `port`, `regs` | the joystick plugged in and what it holds (external) |
| `callbacks`, `left` | libusb: registered hotplug callbacks and queued events (external) |
| `requested` | history: slots this connection is answerable for |

Each setter is an action, with its refusals; `libx52_update` is a step per USB
transfer, so that an unplug or a failure can come between any two. A setter call
is one step: applications serialise their calls, as `docs/caveats.dox` asks. What
the joystick does with a command is `Execute`; what the code sends is `Image`.

`Cache` instantiates RegisterCache with a refinement mapping (wanted contents are
`Image` of the context, the dirty slots those of `update_mask` and of the update
under way), and `CacheSpec` is checked as a property. `Spec` is in turn what the
programs that use the library must keep to: one call at a time, with arguments the
setters take. DeviceManager and CommandLine extend Libx52 with what decides when its
actions happen. That the daemon's threads keep to `Spec` is the work of a mutex, and a
property of a run; x52cli has one thread, and that it does is the theorem
`ToolUsesLibrary` only.

### DeviceManager: the threads that share the context

Extends Libx52 with the device manager, main, command and clock threads. A call
of a wrapped setter is three steps: the value is read (`Evaluate`), the setter
runs with the mutex held (`CallSetter`), the flag is set after the unlock
(`SetFlag`). The device manager's loop has one action per step between which
other threads can run. A configuration is applied setting by setting, in the
order of `x52d_config.def` (constant `ApplyOrder`). Loading one passes through
the defaults, as the code does. x52d_config_load of the main thread stands for
both SIGHUP and the first load.

### MainLoop: signals

The main thread of `x52d`, the signal masks of all threads, handlers and flags. Main
blocks every signal (`x52d_main.c:314`), creates threads and unblocks them (333): a
thread inherits the mask of its creator, so those created at start-up, for which
`"cmd"` stands, take no signal. The mouse thread is not among them. It is created
when `Mouse.Enabled` is applied (`x52d_mouse_evdev.c:155`), and by then main blocks
nothing: created by main (340, 350) it takes signals, created by the command thread or the
device manager it does not (`SetMouse`, `Apply`, `OthersApply`).

| Variable | In the code |
|---|---|
| `pc` | the line main is at |
| `flags` | `flag_quit`, `flag_reload`, `flag_save_cfg`: those that are set |
| `alive`, `blocked` | the threads, and those whose mask has every signal |
| `posted`, `raised` | the kernel: signals pending at the process and, from `raise()` or a broken pipe, at the command thread (external) |

A signal sent to the process may be taken by any thread that does not block it, as POSIX
has it (Linux prefers the main thread where it can). Whoever takes it runs the handler;
but only if it is main does `pause()` return. `HasMouse` is whether there is a virtual
mouse: without uinput, or without evdev, no mouse thread is ever created.

### VirtualMouse: joystick reports, clicks and motion

Three kinds of threads and no lock. The I/O thread goes round `io_pc`: read, store
the report, test that the mouse is enabled, compare each button with the old
report, wheel, sync; a failed read closes the joystick and resets the reports.
A mouse thread goes round `mover_pc`: axes, sync, copy, sleep. A thread that
applies `Mouse.Enabled` goes through `x52d_mouse_evdev_thread_control`: test,
reset the reports, create the thread (or cancel it), set the flag. Cancellation
is deferred: a cancelled thread ends where it writes or sleeps, and until then
works beside the one created next. `held` is what the virtual mouse told the
system. Copying a report, and the two reads of a comparison, are one step each;
a half-copied report mixes buttons of two reports, each of which the model
compares on its own. The amount of a movement is left out.

### ConfigValues, ClientList, CommandServer, CommandService: the command socket

`ConfigValues` has the table of settings and for each type its parser and its dumper
as operators on texts and values, a file as a sequence of lines, and what a load, a
save and an override make of them. Words are texts of a small set; what `strtol`
makes of one is a table (external). `ClientList` has the operators on the fixed
table of descriptors.

`CommandServer` is the process behind the socket. A client connects, sends, waits
and hangs up at any moment; the command thread goes round `poll`, handling the
entries in the order of the table. Reading and carrying out a command is one step
(`Execute`), sending its answer another (`Answer`), and the main thread's reload is
two (`Reset` sets the defaults, `Reload` reads the file), so that a command can
come in between. `config load` tests that the file exists before it opens it, and the
process ends if it has gone: that outcome is one of `CommandParser`'s.

| Variable | In the code |
|---|---|
| `client_fd`, `events` | the array of `x52d_client.c` and what `poll` reported of it |
| `reply` | the answer in the buffer of `x52d_command_loop` |
| `socket`, `backlog`, `inbox`, `outbox` | the connections, as the kernel keeps them (external) |
| `peer`, `asked` | the client processes and the command each waits for |
| `config`, `level`, `files` | configuration, log levels, files on disk |

`CommandService` is the abstract specification: requests are carried out one at a
time, each at most once, the answer goes to whoever asked, and nothing else changes
the state but a reload. `Service` instantiates it with a refinement mapping, and
`ServiceSpec` is checked as a property.

### JoystickReports: one joystick, two decoders

A joystick of one of three models sends a report, a set of bits, with each change of
position. libx52io decodes it into the application's structure, the kernel driver
into axes and keys. The layouts are those drawn in the comments; both decoders are
translated from their own code, with shifts and masks as fields of bits. Joysticks
replace each other while a handle is open and a report unread.

### CharMap: texts for the display

The conversion loop of `libx52util_convert_utf8_string`, one round a step, over the
tables the generator builds from a list of code points. `Readings` is the reference:
all ways to read a text as characters of the list, whole or broken off.

### CommandLine: x52cli

Extends Libx52 with the process that creates a context, connects, makes the calls of
one command, and updates. Each call is an action of Libx52, the update included, so
that a transfer can fail and the joystick can leave on the way. Numbers and texts
reach the library cut to the width of its parameters (`Byte`, `Word`, `Counted`).

### MCLibx52, MCDeviceManager, MCVirtualMouse, MCCommandServer, MCParts

Instances for TLC: values, and counters that bound requests, unplugs, reloads,
ticks and failures of one behaviour. MainLoop and VirtualMouse are finite as they
are. `MCParts` extends JoystickReports, CharMap, CommandLine and MainLoop, which share
no state, and puts them into one state space: each behaviour is one of one of them.

### Libx52Proofs, ApplicationProofs, CommandServerProofs, VirtualMouseProofs, MainLoopProofs, JoystickProofs, CharMapProofs, Loops

The theorems, see below. `Loops` has the lemmas about counting loops that the others
share: the least element of a set of numbers, a fact that each round of a loop keeps,
and that the function a loop computes exists, as does a table whose entries depend on
those before them.

## What the runs show

| Run | Result | Shows |
|---|---|---|
| `libx52_clock` | holds | clean slots show the context, offset clocks show the right time, dead handles are noticed; with lost acknowledgements |
| `libx52_panel` | holds | with a two-part LED, a display line, the blinking lamp and a brightness, and two models of joystick replacing each other: no request is dropped, an update makes progress to its end, the cache is implemented |
| `daemon_panel` | holds | whatever joystick is connected when, once the threads rest every setting has been requested of it; the device manager forgets a request only where it clears its flag |
| `daemon_clocked` | holds | a dead handle is closed, a joystick that stays is opened, a flagged request ends in an update that succeeds; the mutex makes the threads, the clock's among them, one application of the library, which never calls it during an update |
| `lost_update` | violated | `device_update_needed` is cleared after the mutex is released: a request in between is not written |
| `stale_apply` | violated | a reload or reconnect writes a setting it read before a client changed it |
| `config_save` | violated | `config save` raises its signal at a thread that blocks it: nothing is saved |
| `term_race` | violated | SIGTERM between the test of `flag_quit` and `pause()` does not end the daemon, also without a mouse thread to take it (`HasMouse` is FALSE) |
| `virtual_mouse` | holds | with one thread at a time enabling and disabling: exactly the threads there should be, also while cancelled ones linger; a button pressed again and again gets through; the pointer moves |
| `commands` | holds | the table of clients is exact and no slot lost, nobody is refused while one is free, whoever waits gets the answer to its own command or the end of the connection, a refused command changes nothing, settings survive a dump and a load, and the abstract service is implemented |
| `parts` | holds | reports are decoded right by both decoders whatever joystick was read before; no axis leaves its range; the conversion stays in its buffers and agrees with the reference; and writes only characters of its text, broken or unknown ones in it or not; x52cli's exit status 0 means all was accepted, what was accepted is shown after an update that succeeded, and a refused command writes nothing; no thread created at start-up takes a signal, so SIGPIPE ends nothing, and flags set in the loop are answered if main leaves `pause()` again and again |
| `mouse_twice` | violated | two threads that enable the mouse at once create two mouse threads; disabling it leaves one |

The five violated runs are the findings in `PROJECT.json`; each checks what a
document or test of the repository says.

**Bounds.** The slots are independent of each other except in pairs (two lamps of
an LED, two offset clocks that share the primary zone, two registers of a date)
and in their order, so an instance needs one or two pairs and one slot of another
kind. Two requests and two unplugs let a request come before, during and after an
update that fails, and a joystick be replaced by the other model while slots are
dirty. The zones are chosen so that an offset is negative, wraps, and is
rejected; texts so that one is cut. In the daemon one reload, one config set and
one unplug overlap with start-up: three threads apply settings at once. Three
failures are one update given up. The mouse has five reports, so that either button,
the wheel and the stick change alone and together and the stick is at its end and at 7,
the value next to the centre; and two mouse threads: a third
exists only if two cancelled ones linger, and enabling waits in the model until a
name is free. The run takes one applier, since with two its properties fail, as
`mouse_twice` shows. Three clients compete for two slots, so that one is refused and
a slot is used again; or one client has every kind of command and every way to get it
wrong, against one file that it may replace. Of reports at most one is unread
(`MaxUnread`), and there is a position for each value of the hat, which between them
tell every two buttons and every two axes apart. The texts are all of up to four
bytes over an alphabet with characters of one, two and three bytes and a byte that
begins none, so that every character is broken off at every place. The command lines
have each command, each kind of refusal, and numbers that do not fit. TLC finds each
fault that is modelled as a mutant under the same bounds.

**Fairness.** `MCFairSpec` assumes that every thread takes steps (they sleep and
poll, and the mutex is held only for a setter or an update, each of which ends);
that libusb delivers a queued event to some later `libx52_is_connected`; and
that opening a joystick that stays succeeds some time. Strong fairness is used
for the last two since each is a possible outcome of a step that recurs. Without
the second an unplug could stay unnoticed for as long as nothing is written.
Transfers fail a bounded number of times. In the mouse, each thread goes on with what
it has begun; reports, unplugs and requests need not come, and the properties say which
of them they need: that writes fail for a while only, that the mouse stays enabled, that
clicks keep coming. In CommandServer both threads run, and a client that waits
reads what arrives; a client need not send, nor hang up. `MainSpec`, and `MCParts` for
it, assume that main runs and that a signal which some thread does not block is taken by one that does not.
`FlagsAnswered` has a premise in addition, that main is not in `pause()` for ever: it is
if no signal follows the one of `term_race`, or the mouse thread takes all of them.

## What is proved

`Libx52Proofs`, for all values of the constants:

- `TypeCorrect` (`TypeOK`), `DeadReported` (`DeadHandleIsReported`).
- `RepeatableSlotsShown`: a slot that is not dirty shows what the context says, unless
  it is a line of the display and acknowledgements can be lost. `CleanShown`
  (`CleanSlotsShown`) says it of all slots.
- `NoRequestLost`: the action property `RequestsSurvive`.
- `ClocksRight`: `SecondaryClocksRight`; rests on `ClockOffsetCorrect`, about the
  arithmetic for any two zones.
- `UpdateEnds`: the action property `UpdateAdvances`. The slots still to write, the
  commands left of the slot and the tries left of the command get less in this order
  with each step of an update, whatever fails; so it ends, without fairness to
  anything but the thread that runs it.

All follow from one inductive invariant, `IInv`. `CleanSlotsShown` alone is not
inductive: while an update is inside a slot that takes several commands, the
register holds a part of what is wanted, and `UpdateOK` says which part (the pairs
of a line written so far, the first register of a date). `HandleOK` relates the
handle, the port and the callbacks, and `RepeatableShown` is the first property
above. The assumptions are `ConstantsAssumption`, which TLC evaluates in each run of
the module, and for `CleanShown`, `NoRequestLost` and the refinement `AppendsOnce`:
either no slot is a display line or an acknowledgement is never lost. Those need it: a
pair of characters whose acknowledgement is lost is appended twice, and the line on
the display is wrong though its slot is clean. The others hold without it.

The refinement is `LibraryIsCache`, `Spec => CacheSpec`: each step of the library is
one of the cache or a stutter, action by action, from `IInv`. The last command of a
slot is the write-back, the others disturb the slot. Needs `UnknownAssumption` beside
`AppendsOnce`: what stands for an unwritten register is not the first half of a date.
`CacheKeepsPromise` shows of the abstract specification alone that its rules imply
`Promise`, and `LibraryKeepsPromise` composes the two.

`ApplicationProofs`, about the daemon, for all settings, values, numbers of requests and
unplugs:

- `UsesLibrary`: `DSpec => Spec`, the daemon calls the library as Libx52 has an
  application do. `ThreadsOK` is the invariant: who is where, an update runs only
  in the device manager's `"update"`, and a thread in a call holds the setting at
  the head of its list and a value its setter takes. With it all theorems about
  `Spec` hold in the daemon: `DaemonKeepsRequests`, `DaemonShows`, `DaemonIsCache` and
  `DaemonClocksRight` are composed in this way.
- `SettingsReachJoystick`: `EverySettingRequested`. The property speaks of threads
  at rest only. The invariant behind it, `AllCovered`, says of every moment that
  a setting has been requested on this connection, does not exist on it, or is still
  ahead of the thread that connected (the device manager, or main at start-up); a
  setting is no longer ahead once its setter has succeeded.
- `ConfigurationShown`: the two together, and without `AppendsOnce`. Once the threads
  rest, each LED and brightness of the configuration has been requested of the joystick
  that is connected, and is dirty or shown as the context has it (`SettingsShown`): no
  setting is a line of the display. That the context has what the configuration says is
  not part of it, and is what `stale_apply` refutes.
- `RequestsAreHeard`: the action property `RequestsHeard`. Action by action from
  `ThreadsOK`: a setter that marks a slot leaves its thread about to set the flag, one
  that is refused marks nothing, and an update only takes marks away. The clearing of
  the flag is the exception the property names; `lost_update` shows what it costs.
- `DaemonTypeCorrect`: `DTypeOK`.

They assume `SettingsAssumption`, that the settings of an instance are of
`x52d_config.def` and their values what the parser can produce.

The same module about x52cli, for all command lines:

- `ToolUsesLibrary`: `CLISpec => Spec`, so what holds of the library holds of its
  process. The calls left of a handler take arguments the setters take (`AllTaken`), and
  while `main` is not updating nothing is under way (`ToolOK`).
- `ZeroExit` (`ZeroMeansAccepted`), `NothingShown` (`RefusedShowsNothing`), `AcceptedShown`
  (`AcceptedIsShown`) and `ToolTyped` (`CLITypeOK`).

The invariant, `CLIInv`, has for each place of `main` what the calls made so far have
done to the context, by the calls that are left (`Between`). Only the first call of a
handler can be refused, and then nothing is marked yet (`First`): the later ones set a
format, which no context refuses (`LaterCall`). So what is refused leaves the masks
empty, the update that is made all the same has nothing to write, and what is not
refused to the end is `Wanted`. That the first call is the one that can fail is the
order the handlers in `x52_cli.c` keep; the faulty `UpdateOffset_FormatFirst` breaks
`RefusedShowsNothing`.

`AcceptedShown` needs the library's invariant as well, which `ToolUsesLibrary` brings.
`ShownOK` follows what a command asks of the joystick from the handler to the update: as
long as nothing is refused, each slot asked for (`AskedOf`) has been requested on this
connection or is marked by a call that is still to come (`ToCome`). An update that
succeeds has left nothing dirty, and then `RepeatableShown` says that the slots are shown.

The assumption of all of these, `ArgvsOK`, names the sets that the arguments are of once
they are cut to the library's types: a level in `Brightness`, a text in `Texts`, an offset
in `Offsets`, and so on. Those sets are constants, so no command line is excluded. TLC
evaluates it for the instance of `MCParts`.

`CommandServerProofs`, for any clients, slots, files and commands:

- `TableCorrect` (`TableMatches`), `SlotsUsed` (`RefusedOnlyWhenFull`), `RefusedKeeps`
  (`ErrChangesNothing`). The invariant adds to `TableMatches` that the queue of the
  listening socket holds each unaccepted connection once and that an event `poll`
  reported is still that of an open or just closed connection: without it a handler
  could free another client's slot.
- `Typed` (`TypeOK`) and `SavedIsLoaded` (`DumpLoads`). The invariant, `Kept`: every
  value in memory is one that the parser of its setting can make (`Meant`), and every
  file is a sequence of lines. For each type the dumper's text of such a value parses
  into that value, the clock format excepted, and a dump names each setting once; so
  loading it, a loop over its lines, ends with the values dumped. The loops of a load
  are recursive functions, taken apart with `EachRound`.

They assume `CommandServerAssumption` (a client is neither the empty slot nor the
listening socket, and only clients send), and of the inputs `TextsAssumption`
(files have lines and options have words), `WordsAssumption` (a word has no NUL in it)
and `StrtolAssumption` (`strtol` reads back what `%ld` prints).

and, about the service, under the same assumptions:

- `RoundTrip`: the words a client formats, each with its NUL, are the words the server
  splits off, for words of any number, the empty one included. Both are loops;
  `FormatLoop` and `SplitLoop` say what a round of each leaves.
- `SocketServes`: `Spec => ServiceSpec`. The abstract state has for each client the
  request or the answer that is on its way, which the implementation has in five
  places: the client's memory, the inbox, the server's buffer, the outbox, the end of
  the connection. The invariant, `Talk`, says that it is in one of them only: bytes in
  the inbox are the command its client waits for as it formatted it, and exclude an
  answer in hand or in the outbox, of which there is at most one. Then `Execute` is the
  step that serves the request, and every other action asks, takes, leaves,
  reconfigures, ends or changes nothing the service sees.

`JoystickProofs`, for any set of positions of the three models:

- `ReadRight` (`ReportRight`), `SameNames` (`DriversAgree`), `RangesHold`
  (`AxisInRange`), `X65Right` (`X65Decoded`), the action property `ModeStays`
  (`ModeKept`) and `ReportsTyped` (`JTypeOK`).

The invariant, `JInv`, says that the report that waits for a live handle is of the
joystick's present position and the driver has decoded the same one; and that a handle
that is live is of the model plugged in. The rest is about layouts: the bits of a
number put at an axis are no other axis's and no button's (`Apart`, `BitsOf`), shifting
them out again gives the number (`FieldOfOnes`, for fields of any width), and no model
gives two buttons one name (`ButtonsOnce`). `PositionsAssumption`: the value of an axis
fits in its bits, and what stands for no joystick is not a model.

`CharMapProofs`, for any list of code points of 16 bits, any bytes and any buffer
(`InputsOK`, which TLC evaluates for the instance of `MCParts`):

- `StaysInBounds` (`InBounds`): also for texts that are not well-formed UTF-8.
- `Converts` (`TextConverted`): of a text without unknown characters the output is what
  fits of the reference, and a text that was cut is reported. Whether one that just fits is
  reported is left open, because code and header disagree (see below); the invariant
  (`Reported`) has what the code does.
- `WritesOnlyText` (`NothingInvented`): of any text, unknown characters among them, what
  is written are characters that it has whole, in their order.

The invariant, `CInv`, follows every reading of the text through the loop: the output is
the characters read so far, the entry is the bytes since then, and what is left of the
reading is one of the rest of the text from the first of those bytes (`On`). It needs
what UTF-8 is made for: the first byte of a character says how many there are, and no
other byte is like a first one (`Encoded`). So at most one character of the list is
whole at a byte, one that is broken off cannot be continued further on, and where a
reading goes on the entry is not the invalid one (`EntryIs`, `BrokenOff`, `NotInvalid`).
`Readings` is recursive from the end of the text; that such a function exists and is
what its equation says is `ReadExists`. `WritesOnlyText` has an invariant of its own,
`Picked`: where each character written begins, and that one in the middle of the table
began where the bytes since then are.

`VirtualMouseProofs`: `TypeCorrect` (`TypeOK`) for any number of threads that enable
and disable the mouse, `OneMover` (`OneMoverIffEnabled`) for one of them; that there
is only one is a hypothesis of the theorem, and `mouse_twice` shows it is needed.

`MainLoopProofs`: `MasksCorrect` (`MainTypeOK`): in the loop main can take every signal
and no thread created at start-up any, whichever threads create and cancel the mouse
thread and whatever that blocks. `NoBrokenPipe` (`NeverKilled`) follows, since a broken
pipe is the command thread's own. The invariant has the masks at every place of main;
that the mouse thread blocks nothing or everything is left open in it.

Only model-checked: all liveness (fairness and ENABLED are beyond TLAPS here), that is
`DeadHandleNoticed`, `JoystickServed`, `RequestServed`, `ClicksGetThrough`,
`PointerMoves`, `WaitingEnds`, `SlotsFreed` and `FlagsAnswered`. Every invariant and every
action property of a run that holds, and each of the refinements, is a theorem.
`JTypeOK` and `CLITypeOK` are theorems only.

Loops are recursive functions over 0..n in the models that are proved about. Induction
theorems cannot be instantiated with an operator here; `EachRound` takes the set of
rounds for which a fact holds instead, and is proved from the least element of its
complement. In a proof the operators `UNION` and `SUBSET` bind weaker than infix
operators do elsewhere, so that their uses are in parentheses.

## Not modelled

- Argument checks for NULL and values outside their enumeration: no caller in the
  tree passes them.
- Memory management, `libx52_exit`, cancellation of threads at the end of the daemon
  (a device manager cancelled with the mutex held, the mouse's device destroyed under
  its threads), daemonising and the PID file.
- Data races inside one call: calls of different threads interleave whole, except
  where the mutex protects them anyway.
- `get_tz_offset`: libc's time zones are inputs.
- libusb running a hotplug callback inside a control transfer.
- Notifications: nothing in the tree calls `x52d_notify_send`, so no message enters the
  pipe, and the broadcaster waits for ever. Its listener keeps its clients in the table
  of ClientList.
- A failing `accept`, `fcntl` or `poll` in the servers, interrupted system calls, and
  socket paths that are too long.
- Texts character by character: the parser of ini files, `strtol`, the wording of
  answers, and the string tables of the three libraries.
- The test programs (`x52test`, `evtest`, `bugreport`), the libusb stub, the logger.
- In JoystickReports two X52s connected at once, and what is in unread reports beyond
  one.

## Seen while modelling

Not the property of a run, for the most part because no document promises otherwise.

libx52 and x52cli:
- The length of a text is passed as a byte (`x52_cli.c:311`): one of 256 characters
  becomes empty, one of 260 becomes 4, though the usage text (42-44) says that a text is
  truncated to 16. `Wanted`, and so `ZeroMeansAccepted`, exempts texts of 256 characters
  or more.
- `clock local` gives the other two clocks the offset of the zone, and `clock gmt`
  leaves them, though the usage text (117-120) says that both offsets are reset.
- The result of `libx52_update` is ignored: exit status 0 with nothing shown.
- The three tries repeat a command the joystick may have executed. For a line this
  appends a pair twice; `AppendsOnce` is the hypothesis that excludes it.
- The list of devices is used uninitialised if libusb returns none (`x52_core.c:135`).

The daemon:
- `"12 hour"` and `"24 hour"`, the texts dumped for clock formats, are not read by the
  parser, so a saved file is loaded without them. `DumpLoads` leaves them out.
- Unknown settings are ignored, with the answer OK; numbers are cut from long to int,
  and an empty text is 0.
- The mouse thread, where main created it, takes signals of the process: the flag is set
  but main stays in `pause()` until another signal reaches it, so that SIGTERM need not end
  the daemon. The comment before `x52d_main.c:313`, "Disable pthread signals", and the masks
  around 320-330 are there to prevent that; `x52d_config_apply` is called too late for
  them (340, 350). `FlagsAnswered` has the premise that makes up for it; without it the
  property fails, for this reason and for that of `term_race`.
- `config load` ends the daemon if the file goes away after it was tested.
- `x52d_set_socket_nonblocking` closes a descriptor it fails on, and so does its caller.
- x52ctl takes the end of the connection for an empty answer, with status 0.
- When the joystick leaves while a button is held, the reports are reset but no release
  is written, so the virtual mouse holds the button until it is pressed and released
  again, though `x52d_io.c:84` says the reset takes the mouse to its default state.
- A click that falls between two copies of the mouse thread can be lost.
- The axis value 7, which a comment calls ignored, moves the pointer by one
  (`x52d_mouse_evdev.c:92`).
- The first report compared may be uninitialised (`x52d_io.c:37`), and the PID file is
  not removed under its default name (`x52d_main.c:376`).
- `x52d_notify_send`, which nothing calls, writes two bytes less than it has
  (`x52d_notify.c:134`), and `x52d_recv_notification` reads an argument count nobody
  has set (`x52d_comm_client.c:148`).

Reports and texts:
- The X65's driver reads the four axes of the throttle one bit too low and nine bits
  wide, beyond the 255 it announces; `X65Decoded` leaves them out.
- A button the connected model does not have keeps the value of the model before.
- Behind a character that is not in the map the rest of the text is dropped
  (`x52_char_map_lookup.c:73`: the entry is not set again after the skip, as it is in
  67), although "Unrecognized characters are silently dropped" (`libx52util.h:40`) promises
  no more than the loss of that character. `TextConverted` is about texts without one.
- A text that just fits is reported as too long, `-E2BIG` (51-53), although
  `libx52util.h:46-47` says so "if the buffer filled up before converting the entire
  string". `TextConverted` demands the report of a text that is cut, allows it of one that
  just fits, and forbids it of shorter ones.

## What is left

A bound on what the cancelled threads of a terminating daemon can hold, and the
notification pipe once something sends on it.
