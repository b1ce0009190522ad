--------------------------- MODULE CommandServer ---------------------------
(***************************************************************************)
(* The command socket of the daemon and its clients: processes that use    *)
(* x52d_dial_command and x52d_send_command (as x52ctl does) on one side,   *)
(* on the other the command thread, which polls the listening socket and   *)
(* its clients, accepts, reads commands, carries them out and answers.     *)
(* Clients may hang up at any moment, and the daemon may end.              *)
(***************************************************************************)
EXTENDS FiniteSets, ClientList, ConfigValues

CONSTANTS
    Clients,        \* connections; a process that connects again is another one
    Modules,        \* the modules that log
    SystemFile,     \* the path of the daemon's own configuration file
    InitialFiles,   \* the files on disk: lines by path
    Options,        \* the lists of overrides a command line may have, split in parts
    Repertoires,    \* which clients there are and which commands each may send
    LongWord        \* a word that makes a command longer than X52D_BUFSZ

ASSUME CommandServerAssumption ==
    /\ INVALID_CLIENT \notin Clients /\ Listener \notin Clients
    /\ \A r \in Repertoires : DOMAIN r \subseteq Clients

\* Files have lines, options have words.
ASSUME TextsAssumption ==
    /\ \A p \in DOMAIN InitialFiles : InitialFiles[p] \in Seq([name : Seq(STRING), text : STRING])
    /\ Options \subseteq Seq(Seq(STRING))

VARIABLES
    client_fd,      \* the table of the command thread
    events,         \* what poll() reported and is still to be handled, by slot
    reply,          \* the client being answered and its answer, or none
    socket,         \* the daemon's ends: "none", "backlog", "open", "closed"
    backlog,        \* connections not yet accepted, oldest first
    inbox,          \* bytes of each connection the daemon has not read
    outbox,         \* answers each client has not read
    peer,           \* the client processes
    asked,          \* the words of the command each has under way
    repertoire,     \* the commands each client may send
    config,         \* the configuration in memory
    level,          \* log levels of the modules, and the global one
    files,          \* the files on disk
    reloading,      \* has the main thread set the defaults and not yet loaded the file?
    running         \* does the daemon run?

serverVars == <<client_fd, events, reply>>
clientVars == <<peer, asked, repertoire>>
daemonState == <<config, level, files>>
cvars == <<serverVars, clientVars, socket, backlog, inbox, outbox, daemonState,
           reloading, running>>

PeerStates == {"new", "idle", "waiting", "failed", "gone"}
NUL == "NUL"
NoReply == <<>>
Global == "global"
Levels == {"none", "fatal", "error", "warning", "info", "debug", "trace"}
NOTSET == "default"

-----------------------------------------------------------------------------
(* Messages: words, each ended by a NUL; an empty word is the NUL alone.   *)

Ended(word) == IF word = "" THEN <<NUL>> ELSE <<word, NUL>>
FormatCommand(words) ==
    LET buffer[n \in 0..Len(words)] == IF n = 0 THEN <<>> ELSE buffer[n - 1] \o Ended(words[n])
    IN buffer[Len(words)]

\* Words are strings of C, which have no NUL in them.
ASSUME WordsAssumption ==
    \A r \in Repertoires : \A c \in DOMAIN r : r[c] \subseteq Seq(STRING \ {NUL})

\* x52d_format_command refuses to build these.
Unsendable(words) == words = <<>> \/ LongWord \in ToSet(words)

\* Faulty: several NULs in a row end one word.
SplitArgs_NoEmpty(bytes) == SelectSeq(bytes, LAMBDA b : b # NUL)

\* x52d_split_args: a word starts at the beginning and behind each NUL.
SplitArgs(bytes) ==
    LET word(i) == IF bytes[i] = NUL THEN "" ELSE bytes[i]
        argv[i \in 0..Len(bytes)] ==
            IF i = 0 THEN <<>>
            ELSE IF i = 1 \/ bytes[i - 1] = NUL THEN Append(argv[i - 1], word(i))
            ELSE argv[i - 1]
    IN argv[Len(bytes)]

-----------------------------------------------------------------------------
(* The commands: what a list of words makes of the state [config, level,   *)
(* files], and the answer, OK, ERR or DATA and its words.                  *)

Result(st, type, words) == [st |-> st, answer |-> <<type, words>>, ends |-> FALSE]
OK(st, argv) == Result(st, "OK", argv)
ERR(st, reason) == Result(st, "ERR", <<reason>>)
DATA(st, words) == Result(st, "DATA", words)
Ends(st) == [st |-> st, answer |-> NoReply, ends |-> TRUE]

\* The file exists when it is tested, and may be gone when it is opened.
ConfigLoad(st, argv) ==
    IF argv[3] \notin DOMAIN st.files THEN {ERR(st, "file")}
    ELSE LET loaded == LoadConfig(st.files, argv[3], <<>>) IN
         {OK([st EXCEPT !.config = loaded.cfg], argv)} \cup {Ends(st)}

WithFile(fs, path, file) ==
    [p \in DOMAIN fs \cup {path} |-> IF p = path THEN file ELSE fs[p]]
ConfigDump(st, argv) ==
    IF argv[3] = "" THEN ERR(st, "file")
    ELSE OK([st EXCEPT !.files = WithFile(st.files, argv[3], SaveFile(st.config))], argv)

ConfigSet(st, argv) ==
    LET set == ProcessKV(st.config, <<argv[3], argv[4]>>, argv[5])
        now == [st EXCEPT !.config = set.cfg]
    IN IF set.ok THEN OK(now, argv) ELSE ERR(now, "value")

ConfigGet(st, argv) ==
    LET name == <<argv[3], argv[4]>> IN
    IF name \in Names THEN DATA(st, <<argv[3], argv[4], GetParam(st.config, name)>>)
    ELSE ERR(st, "setting")

\* config reload and config save raise a signal at this thread, which blocks it.
ArgCount == [load |-> 3, reload |-> 2, dump |-> 3, save |-> 2, set |-> 5, get |-> 4]

CmdConfig(st, argv) ==
    IF Len(argv) < 2 THEN {ERR(st, "args")}
    ELSE IF argv[2] \notin DOMAIN ArgCount THEN {ERR(st, "subcommand")}
    ELSE IF Len(argv) # ArgCount[argv[2]] THEN {ERR(st, "args")}
    ELSE CASE argv[2] = "load" -> ConfigLoad(st, argv)
           [] argv[2] \in {"reload", "save"} -> {OK(st, argv)}
           [] argv[2] = "dump" -> {ConfigDump(st, argv)}
           [] argv[2] = "set" -> {ConfigSet(st, argv)}
           [] argv[2] = "get" -> {ConfigGet(st, argv)}

\* The level a module logs at: the global one unless it has its own.
Effective(lv, module) == IF lv[module] = NOTSET THEN lv[Global] ELSE lv[module]

LoggingShow(st, argv) ==
    CASE Len(argv) = 2 -> DATA(st, <<Global, st.level[Global]>>)
      [] Len(argv) = 3 /\ argv[3] \in Modules -> DATA(st, <<argv[3], Effective(st.level, argv[3])>>)
      [] Len(argv) = 3 /\ argv[3] \notin Modules -> ERR(st, "module")
      [] OTHER -> ERR(st, "args")

\* Faulty: the levels of modules are not looked up.
LoggingSet_Unchecked(st, argv) ==
    CASE Len(argv) = 4 /\ argv[3] \in Modules -> OK([st EXCEPT !.level[argv[3]] = argv[4]], argv)
      [] OTHER -> ERR(st, "args")

LoggingSet(st, argv) ==
    CASE Len(argv) = 3 /\ argv[3] \in Levels -> OK([st EXCEPT !.level[Global] = argv[3]], argv)
      [] Len(argv) = 3 /\ argv[3] \notin Levels -> ERR(st, "level")
      [] Len(argv) = 4 /\ argv[3] \notin Modules -> ERR(st, "module")
      [] Len(argv) = 4 /\ argv[3] \in Modules /\ argv[4] \in Levels \cup {NOTSET} ->
            OK([st EXCEPT !.level[argv[3]] = argv[4]], argv)
      [] Len(argv) = 4 /\ argv[3] \in Modules /\ argv[4] \notin Levels \cup {NOTSET} ->
            ERR(st, "level")
      [] OTHER -> ERR(st, "args")

CmdLogging(st, argv) ==
    CASE Len(argv) < 2 -> ERR(st, "args")
      [] Len(argv) >= 2 /\ argv[2] = "show" -> LoggingShow(st, argv)
      [] Len(argv) >= 2 /\ argv[2] = "set" -> LoggingSet(st, argv)
      [] OTHER -> ERR(st, "subcommand")

\* What may come of a command.
CommandParser(st, argv) ==
    CASE argv[1] = "config" -> CmdConfig(st, argv)
      [] argv[1] = "logging" -> {CmdLogging(st, argv)}
      [] OTHER -> {ERR(st, "command")}

-----------------------------------------------------------------------------
\* The overrides are collected and the file loaded; without a file, or with an
\* override that is malformed or rejected, the daemon does not start.
Start(options) ==
    LET saved == [i \in DOMAIN options |-> SaveOverride(options[i])] IN
    IF \A i \in DOMAIN options : saved[i].ok
    THEN LoadConfig(InitialFiles, SystemFile, [i \in DOMAIN options |-> saved[i].line])
    ELSE NoFile

(* The daemon has started: the socket listens and nobody has connected.    *)
Init ==
    /\ client_fd = NoClients /\ events = {} /\ reply = NoReply
    /\ socket = [c \in Clients |-> "none"] /\ backlog = <<>>
    /\ inbox = [c \in Clients |-> <<>>] /\ outbox = [c \in Clients |-> <<>>]
    /\ peer = [c \in Clients |-> "new"] /\ asked = [c \in Clients |-> <<>>]
    /\ repertoire \in Repertoires
    /\ \E options \in Options : Start(options).ok /\ config = Start(options).cfg
    /\ level = [m \in Modules \cup {Global} |-> IF m = Global THEN "warning" ELSE NOTSET]
    /\ files = InitialFiles
    /\ reloading = FALSE /\ running = TRUE

(* The clients.                                                            *)

\* connect() succeeds as long as the queue of the listening socket has room.
Dial(c) ==
    /\ running /\ c \in DOMAIN repertoire
    /\ peer[c] = "new" /\ Len(backlog) <= MaxClients
    /\ peer' = [peer EXCEPT ![c] = "idle"]
    /\ socket' = [socket EXCEPT ![c] = "backlog"]
    /\ backlog' = Append(backlog, c)
    /\ UNCHANGED <<serverVars, inbox, outbox, asked, repertoire, daemonState, reloading, running>>

\* A command is sent unless it is too long, or the daemon has closed its end.
Send(c, words) ==
    /\ peer[c] = "idle" /\ words \in repertoire[c]
    /\ \/ /\ Unsendable(words) \/ socket[c] = "closed"
          /\ peer' = [peer EXCEPT ![c] = "failed"]
          /\ UNCHANGED <<inbox, asked>>
       \/ /\ ~Unsendable(words) /\ socket[c] \in {"backlog", "open"}
          /\ inbox' = [inbox EXCEPT ![c] = @ \o FormatCommand(words)]
          /\ asked' = [asked EXCEPT ![c] = words]
          /\ peer' = [peer EXCEPT ![c] = "waiting"]
    /\ UNCHANGED <<serverVars, socket, backlog, outbox, repertoire, daemonState, reloading, running>>

\* The answer arrives, or the end of the connection: an error if the command was
\* never read, else an answer of no bytes, which x52ctl takes for one.
Receive(c) ==
    /\ peer[c] = "waiting"
    /\ \/ /\ outbox[c] # <<>>
          /\ outbox' = [outbox EXCEPT ![c] = Tail(@)]
          /\ peer' = [peer EXCEPT ![c] = "idle"]
       \/ /\ outbox[c] = <<>> /\ socket[c] = "closed"
          /\ \E s \in {"idle", "failed"} : peer' = [peer EXCEPT ![c] = s]
          /\ UNCHANGED outbox
    /\ asked' = [asked EXCEPT ![c] = <<>>]
    /\ UNCHANGED <<serverVars, socket, backlog, inbox, repertoire, daemonState,
                   reloading, running>>

\* The client closes its end, done, failed or killed.
HangUp(c) ==
    /\ peer[c] \in {"idle", "waiting", "failed"}
    /\ peer' = [peer EXCEPT ![c] = "gone"]
    /\ outbox' = [outbox EXCEPT ![c] = <<>>]
    /\ UNCHANGED <<serverVars, socket, backlog, inbox, asked, repertoire, daemonState,
                   reloading, running>>

-----------------------------------------------------------------------------
(* The command thread.                                                     *)

\* Faulty: only input is an event.
Event_NoHangUp(fd) ==
    IF fd = Listener THEN IF backlog # <<>> THEN "in" ELSE "none"
    ELSE IF inbox[fd] # <<>> THEN "in" ELSE "none"

\* What poll() says of a descriptor, as far as it is looked at: a hang-up before
\* input.
Event(fd) ==
    IF fd = Listener THEN IF backlog # <<>> THEN "in" ELSE "none"
    ELSE IF peer[fd] = "gone" THEN "hup"
    ELSE IF inbox[fd] # <<>> THEN "in" ELSE "none"

Poll ==
    /\ running /\ events = {} /\ reply = NoReply
    /\ events' = {[slot |-> p.slot, fd |-> p.fd, event |-> Event(p.fd)] :
                   p \in {q \in Polled(client_fd) : Event(q.fd) # "none"}}
    /\ events' # {}
    /\ UNCHANGED <<client_fd, reply, clientVars, socket, backlog, inbox, outbox, daemonState,
                   reloading, running>>

\* The next event is this one.
At(fd, event) ==
    /\ running /\ reply = NoReply /\ events # {}
    /\ First(events).fd = fd /\ First(events).event = event

\* Accept; without a free slot the connection is closed again.
Register ==
    /\ At(Listener, "in")
    /\ events' = events \ {First(events)}
    /\ LET c == Head(backlog) IN
       \/ /\ FreeSlots(client_fd) # {}
          /\ client_fd' = WithClient(client_fd, c)
          /\ socket' = [socket EXCEPT ![c] = "open"]
          /\ UNCHANGED inbox
       \/ /\ FreeSlots(client_fd) = {}
          /\ socket' = [socket EXCEPT ![c] = "closed"]
          /\ inbox' = [inbox EXCEPT ![c] = <<>>]
          /\ UNCHANGED client_fd
    /\ backlog' = Tail(backlog)
    /\ UNCHANGED <<reply, outbox, clientVars, daemonState, reloading, running>>

\* The slot is emptied and the connection closed, with what was not read.
Deregister(c) ==
    /\ At(c, "hup")
    /\ events' = events \ {First(events)}
    /\ client_fd' = WithoutClient(client_fd, c)
    /\ socket' = [socket EXCEPT ![c] = "closed"]
    /\ inbox' = [inbox EXCEPT ![c] = <<>>]
    /\ UNCHANGED <<reply, backlog, outbox, clientVars, daemonState, reloading, running>>

\* The process is gone: the kernel closes what it had open.
Terminated ==
    /\ running' = FALSE /\ reloading' = FALSE
    /\ client_fd' = NoClients /\ events' = {} /\ reply' = NoReply
    /\ socket' = [c \in Clients |-> IF socket[c] = "none" THEN "none" ELSE "closed"]
    /\ backlog' = <<>>
    /\ inbox' = [c \in Clients |-> <<>>]
    /\ UNCHANGED <<outbox, clientVars, daemonState>>

\* The command is read and carried out.  x52d_config_load exits if there is no
\* file to load.
Execute(c) ==
    /\ At(c, "in")
    /\ \E r \in CommandParser([config |-> config, level |-> level, files |-> files],
                              SplitArgs(inbox[c])) :
        \/ /\ ~r.ends
           /\ events' = events \ {First(events)}
           /\ inbox' = [inbox EXCEPT ![c] = <<>>]
           /\ reply' = <<c, r.answer>>
           /\ config' = r.st.config /\ level' = r.st.level /\ files' = r.st.files
           /\ UNCHANGED <<client_fd, socket, backlog, outbox, clientVars, reloading, running>>
        \/ r.ends /\ Terminated

\* The answer is sent; to a client that has hung up it is lost, and SIGPIPE is
\* blocked in this thread.
Answer ==
    /\ running /\ reply # NoReply
    /\ LET c == reply[1] IN
       outbox' = [outbox EXCEPT ![c] = IF peer[c] = "gone" THEN @ ELSE Append(@, reply[2])]
    /\ reply' = NoReply
    /\ UNCHANGED <<client_fd, events, socket, backlog, inbox, clientVars, daemonState,
                   reloading, running>>

Server ==
    \/ Poll \/ Register \/ Answer
    \/ \E c \in Clients : Deregister(c) \/ Execute(c)

-----------------------------------------------------------------------------
(* The main thread: on SIGHUP it sets the defaults and loads the system's  *)
(* file, or ends without one.                                              *)
Reset ==
    /\ running /\ ~reloading
    /\ config' = Defaults /\ reloading' = TRUE
    /\ UNCHANGED <<serverVars, clientVars, socket, backlog, inbox, outbox, level, files, running>>

Reload ==
    /\ running /\ reloading
    /\ \/ /\ SystemFile \in DOMAIN files
          /\ config' = LoadLines(config, files[SystemFile]) /\ reloading' = FALSE
          /\ UNCHANGED <<serverVars, clientVars, socket, backlog, inbox, outbox, level, files,
                         running>>
       \/ SystemFile \notin DOMAIN files /\ Terminated

\* SIGTERM
End == running /\ Terminated

Client(c) ==
    \/ Dial(c) \/ Receive(c) \/ HangUp(c)
    \/ \E words \in repertoire[c] : Send(c, words)

Next ==
    \/ \E c \in DOMAIN repertoire : Client(c)
    \/ Server
    \/ Reset \/ Reload \/ End

\* Both threads run, and a client that waits reads what arrives.
Fairness ==
    WF_serverVars(Server) /\ WF_reloading(Reload) /\ \A c \in Clients : WF_peer(Receive(c))

Spec == Init /\ [][Next]_cvars /\ Fairness

-----------------------------------------------------------------------------
TypeOK ==
    /\ client_fd \in [Slots -> Clients \cup {INVALID_CLIENT}]
    /\ \A e \in events : /\ e.slot \in Slots \cup {0} /\ e.fd \in Clients \cup {Listener}
                         /\ e.event \in {"in", "hup"}
    /\ reply = NoReply \/ reply[1] \in Clients
    /\ socket \in [Clients -> {"none", "backlog", "open", "closed"}]
    /\ \A i \in DOMAIN backlog : backlog[i] \in Clients
    /\ peer \in [Clients -> PeerStates]
    /\ DOMAIN inbox = Clients /\ DOMAIN outbox = Clients /\ DOMAIN asked = Clients
    /\ \A n \in Names : TypeOf[n] = "bool" => config[n] \in BOOLEAN
    /\ level \in [Modules \cup {Global} -> Levels \cup {NOTSET}]
    /\ reloading \in BOOLEAN /\ running \in BOOLEAN

\* While the daemon runs, the table has every connection it accepted and has not
\* closed, each in one slot, and nothing else: no connection is forgotten open, no
\* descriptor is polled after it was closed (x52d_client.c).
TableMatches ==
    /\ Registered(client_fd) = {c \in Clients : socket[c] = "open"}
    /\ \A i, j \in Slots : client_fd[i] = client_fd[j] => i = j \/ client_fd[i] = INVALID_CLIENT

\* A connection is turned away only while MaxClients others are open
\* (x52d_client_register), whatever connected and left before.
RefusedOnlyWhenFull ==
    [][\A c \in Clients :
        running' /\ socket[c] = "backlog" /\ socket'[c] = "closed" =>
            Cardinality({d \in Clients : socket[d] = "open"}) = MaxClients]_cvars

\* A command that is answered with ERR has changed nothing: not the setting whose
\* text it rejects (parsers of x52d_config_parser.c), nor a file, nor a level.
ErrChangesNothing ==
    [][reply = NoReply /\ reply' # NoReply /\ reply'[2][1] = "ERR" => UNCHANGED daemonState]_cvars

\* The texts x52d_config_dump.c writes are texts x52d_config_parser.c reads, for the
\* same value: a setting that a client reads and sets, and a configuration that is
\* saved and loaded, are unchanged.  Not so the clock formats, whose words no parser
\* knows, and a saved file is loaded without them.
DumpLoads ==
    LET Kept == {n \in Names : TypeOf[n] # "clock_format"}
        saved == LoadConfig([p \in {"saved"} |-> SaveFile(config)], "saved", <<>>)
    IN /\ \A n \in Kept : ProcessKV(config, n, GetParam(config, n)) = [ok |-> TRUE, cfg |-> config]
       /\ \A n \in Kept : saved.cfg[n] = config[n]

\* A client that waits gets its answer or the end of its connection, or hangs up,
\* whatever the others and the other thread do (x52d_send_command,
\* x52d_command_loop).
WaitingEnds == \A c \in Clients : peer[c] = "waiting" ~> peer[c] # "waiting"

\* The slot of a client that went away is free again some day, also when it went
\* before it was accepted or with a command unread.
SlotsFreed == \A c \in Clients : peer[c] = "gone" ~> socket[c] = "closed"

-----------------------------------------------------------------------------
(* To its clients the daemon is a service that carries out one command at  *)
(* a time, each at most once, and answers the one who asked.               *)
Pending(c) == IF inbox[c] # <<>> THEN asked[c] ELSE <<>>
AnswerTo(c) ==
    IF outbox[c] # <<>> THEN Head(outbox[c])
    ELSE IF reply # NoReply /\ reply[1] = c /\ peer[c] # "gone" THEN reply[2] ELSE NoReply

Service ==
    INSTANCE CommandService WITH
        Outcome <- CommandParser,
        Words <- (UNION {UNION Range(r) : r \in Repertoires}) \ {<<>>},
        present <- {c \in Clients : peer[c] # "gone"},
        request <- [c \in Clients |-> Pending(c)],
        answer <- [c \in Clients |-> AnswerTo(c)],
        st <- [config |-> config, level |-> level, files |-> files],
        up <- running

\* The words the client formats are the words the daemon splits, the answer is the
\* one to its command, and nothing else changes the state but a reload.
ServiceSpec == Service!Spec
=============================================================================
