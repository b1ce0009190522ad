------------------------------ MODULE MainLoop ------------------------------
(***************************************************************************)
(* The life of the daemon's main thread: start-up with all signals blocked *)
(* while other threads are created, the loop that waits in pause() for a   *)
(* signal handler to set one of three flags, and the end.  Signals come    *)
(* from outside, and from the command thread, which raises SIGHUP and      *)
(* SIGUSR1 on itself when a client asks to reload or save, and gets        *)
(* SIGPIPE when it answers a client that is gone.  The mouse thread is     *)
(* created when the configuration is applied, by then with no signal       *)
(* blocked if it is main that applies it.                                  *)
(***************************************************************************)
CONSTANT
    HasMouse        \* is there a virtual mouse that can be enabled?

ASSUME HasMouseAssumption == HasMouse \in BOOLEAN

VARIABLES
    pc,             \* where the main thread is
    flags,          \* the flags that are set: "quit", "reload", "save"
    posted,         \* signals sent to the process that no thread has taken
    raised,         \* signals the command thread got itself and has not taken
    alive,          \* the threads there are
    blocked         \* those that block all signals

mainvars == <<pc, flags, posted, raised, alive, blocked>>

\* "cmd" is the command thread, and stands for all that are created at start-up.
Threads == {"main", "cmd", "mouse"}
Flag == [SIGTERM |-> "quit", SIGHUP |-> "reload", SIGUSR1 |-> "save"]
Signals == DOMAIN Flag \cup {"SIGPIPE"}

Booting == {"load first", "block", "threads", "unblock", "apply first", "clear quit"}
Looping == {"test", "enter", "pause", "reload?", "load", "apply", "clear reload",
            "save?", "save", "clear save"}
Ended == {"cleanup", "exit", "failed"}
Running == pc \notin {"exit", "failed", "killed"}
Serving == Looping \cup {"unblock", "apply first", "clear quit"}

\* The handlers are installed, and the configuration is about to be loaded.
MainInit ==
    /\ pc = "load first"
    /\ flags = {} /\ posted = {} /\ raised = {}
    /\ alive = {"main"} /\ blocked = {}

Go(from, to) == pc = from /\ pc' = to

\* x52d_cfg_set_Mouse_Enabled in thread t: the mouse thread stays as it is, or is
\* created with what its creator blocks, or is cancelled.  One that outlives its
\* cancellation is like one that is cancelled later.
SetMouse(t) ==
    \/ UNCHANGED <<alive, blocked>>
    \/ /\ HasMouse /\ "mouse" \notin alive
       /\ alive' = alive \cup {"mouse"}
       /\ blocked' = blocked \cup {m \in {"mouse"} : t \in blocked}
    \/ /\ "mouse" \in alive
       /\ alive' = alive \ {"mouse"} /\ blocked' = blocked \ {"mouse"}

-----------------------------------------------------------------------------
(* Start-up.                                                               *)

\* Faulty: the threads are to block the signals, and main already does not.
Block_Skipped == Go("block", "threads") /\ UNCHANGED <<flags, posted, raised, alive, blocked>>

Block ==
    /\ Go("block", "threads")
    /\ blocked' = {"main"}
    /\ UNCHANGED <<flags, posted, raised, alive>>

\* All threads but the mouse's are created, and block what main blocks; the daemon
\* ends if there is no command socket.
StartThreads ==
    /\ Go("threads", "unblock") \/ Go("threads", "cleanup")
    /\ alive' = alive \cup {"cmd"}
    /\ blocked' = blocked \cup {t \in {"cmd"} : "main" \in blocked}
    /\ UNCHANGED <<flags, posted, raised>>

Unblock ==
    /\ Go("unblock", "apply first")
    /\ blocked' = blocked \ {"main"}
    /\ UNCHANGED <<flags, posted, raised, alive>>

\* x52d_config_apply, at start-up and after a reload, enables or disables the mouse.
Apply ==
    /\ Go("apply first", "clear quit") \/ Go("apply", "clear reload")
    /\ SetMouse("main")
    /\ UNCHANGED <<flags, posted, raised>>

ClearQuit ==
    /\ Go("clear quit", "test")
    /\ flags' = flags \ {"quit"}
    /\ UNCHANGED <<posted, raised, alive, blocked>>

-----------------------------------------------------------------------------
(* The loop.                                                               *)

\* The steps that only move on: tests of the flags, x52d_config_load, which exits
\* if it cannot load the file, and x52d_config_save.
MoveOn ==
    /\ \/ Go("load first", "block") \/ Go("load first", "failed")
       \/ "quit" \in flags /\ Go("test", "cleanup")
       \/ "quit" \notin flags /\ Go("test", "enter")
       \/ Go("enter", "pause")
       \/ "reload" \in flags /\ Go("reload?", "load")
       \/ "reload" \notin flags /\ Go("reload?", "save?")
       \/ Go("load", "apply") \/ Go("load", "failed")
       \/ "save" \in flags /\ Go("save?", "save")
       \/ "save" \notin flags /\ Go("save?", "test")
       \/ Go("save", "clear save")
       \/ Go("cleanup", "exit")
    /\ UNCHANGED <<flags, posted, raised, alive, blocked>>

ClearReload ==
    /\ Go("clear reload", "save?")
    /\ flags' = flags \ {"reload"}
    /\ UNCHANGED <<posted, raised, alive, blocked>>

\* Faulty: a save finished is a reload done.
ClearSave_WrongFlag ==
    /\ Go("clear save", "test")
    /\ flags' = flags \ {"reload"}
    /\ UNCHANGED <<posted, raised, alive, blocked>>

ClearSave ==
    /\ Go("clear save", "test")
    /\ flags' = flags \ {"save"}
    /\ UNCHANGED <<posted, raised, alive, blocked>>

Main ==
    \/ Block \/ StartThreads \/ Unblock \/ Apply \/ ClearQuit
    \/ MoveOn \/ ClearReload \/ ClearSave

\* The command thread carries out a config set, or the device manager applies the
\* configuration to a joystick.
OthersApply ==
    /\ pc \in Serving
    /\ SetMouse("cmd")
    /\ UNCHANGED <<pc, flags, posted, raised>>

-----------------------------------------------------------------------------
(* Signals.                                                                *)

\* Where thread t leaves main when it takes a signal: out of pause() if it is
\* main that runs the handler; SIGPIPE, which has none, ends the process.
After(t, sig) ==
    CASE sig = "SIGPIPE" -> "killed"
      [] sig # "SIGPIPE" /\ t = "main" /\ pc = "pause" -> "reload?"
      [] OTHER -> pc

\* Thread t takes a signal of its own, or of the process if there is none: that may
\* be any thread that does not block it.
Own(t) == IF t = "cmd" THEN raised ELSE {}
Deliver(t, sig) ==
    /\ Running /\ t \in alive \ blocked /\ sig \in Own(t) \cup posted
    /\ IF sig \in Own(t) THEN raised' = raised \ {sig} /\ UNCHANGED posted
                         ELSE posted' = posted \ {sig} /\ UNCHANGED raised
    /\ flags' = flags \cup {Flag[s] : s \in {sig} \cap DOMAIN Flag}
    /\ pc' = After(t, sig)
    /\ UNCHANGED <<alive, blocked>>

\* A signal is sent to the process.
Kill(sig) ==
    /\ Running
    /\ posted' = posted \cup {sig}
    /\ UNCHANGED <<pc, flags, raised, alive, blocked>>

\* A client's "config reload" or "config save", where raise() is to the calling
\* thread, or an answer to a client that has hung up.
Raise(sig) ==
    /\ pc \in Serving
    /\ raised' = raised \cup {sig}
    /\ UNCHANGED <<pc, flags, posted, alive, blocked>>

MainNext ==
    \/ Main \/ OthersApply
    \/ \E t \in Threads, sig \in Signals : Deliver(t, sig)
    \/ \E sig \in DOMAIN Flag : Kill(sig)
    \/ \E sig \in {"SIGHUP", "SIGUSR1", "SIGPIPE"} : Raise(sig)

\* The main thread runs, and a signal that some thread does not block is taken some time.
MainSpec ==
    /\ MainInit /\ [][MainNext]_mainvars
    /\ WF_mainvars(Main)
    /\ \A sig \in Signals : WF_mainvars(\E t \in Threads : Deliver(t, sig))

-----------------------------------------------------------------------------
(* Properties.                                                             *)

\* The variables have their types; and in the loop main takes signals and the threads
\* created at start-up none.  The mouse thread does if main created it.
MainTypeOK ==
    /\ pc \in Booting \cup Looping \cup Ended \cup {"killed"}
    /\ flags \subseteq {"quit", "reload", "save"}
    /\ posted \subseteq Signals /\ raised \subseteq Signals
    /\ blocked \subseteq alive /\ alive \subseteq Threads
    /\ pc \in Looping => "main" \in alive \ blocked /\ "cmd" \in blocked

\* A client that hangs up before it is answered does not end the daemon: only the
\* command thread gets its SIGPIPE, and blocks it.
NeverKilled == pc # "killed"

\* As long as main leaves pause() again and again, each flag set in the loop is
\* answered by the reload, the save or the end it asks for, also when its signal came
\* between the test of the flag and pause(), or the mouse thread took it.  Not so the
\* signals that come between a reload or a save and the clearing of its flag: those
\* are forgotten.
Answer == [quit |-> Ended, reload |-> {"load"} \cup Ended, save |-> {"save"} \cup Ended]
Forgets == [quit |-> {}, reload |-> {"apply", "clear reload"}, save |-> {"clear save"}]

FlagsAnswered ==
    []<>(pc # "pause") =>
        \A f \in DOMAIN Answer :
            f \in flags /\ pc \in Looping \ Forgets[f] ~> pc \in Answer[f]

\* A signal sent while main is in the loop ends the daemon, as its tests do.
TermEnds == "SIGTERM" \in posted /\ pc \in Looping ~> pc \in Ended

\* "config save", which the client is told succeeded, is carried out.
SaveServed == "SIGUSR1" \in raised ~> pc \in {"save"} \cup Ended
=============================================================================
