------------------------- MODULE CommandServerProofs -------------------------
(***************************************************************************)
(* Theorems about CommandServer: the table of clients and the connections  *)
(* agree, nobody is turned away while a slot is free, a command that is    *)
(* refused changes nothing, and every configuration there can be is read   *)
(* back as it was written; for any number of slots, clients, files and     *)
(* commands.  And the command socket keeps the promise of CommandService:  *)
(* what a client formats is what the server splits, a client has at most   *)
(* one command or answer on its way, and every step of CommandServer is    *)
(* one of the service, or none, under the mapping of CommandServer!Service. *)
(***************************************************************************)
EXTENDS CommandServer, FiniteSetTheorems, SequenceTheorems, Loops, TLAPS

\* The part of the type invariant that the table depends on.
ConnType ==
    /\ client_fd \in [Slots -> Clients \cup {INVALID_CLIENT}]
    /\ socket \in [Clients -> {"none", "backlog", "open", "closed"}]
    /\ peer \in [Clients -> PeerStates]
    /\ backlog \in Seq(Clients)
    /\ DOMAIN repertoire \subseteq Clients

\* The queue of the listening socket holds connections nobody has accepted, each
\* once, and a process that has not dialled has none.
QueueOK ==
    /\ \A i \in 1..Len(backlog) : socket[backlog[i]] = "backlog"
    /\ \A i, j \in 1..Len(backlog) : backlog[i] = backlog[j] => i = j
    /\ \A c \in Clients : peer[c] = "new" => socket[c] = "none"

\* Events are those of entries that were polled: of connections that were accepted
\* once, and of the listening socket, whose queue has not got shorter since.
EventsOK ==
    /\ \A e \in events :
        /\ e.slot \in Nat
        /\ e.fd = Listener \/ (e.fd \in Clients /\ socket[e.fd] \in {"open", "closed"})
        /\ e.fd = Listener /\ e.event = "in" => backlog # <<>>
    /\ \A e, f \in events : e.fd = Listener /\ f.fd = Listener => e = f

IInv == ConnType /\ TableMatches /\ QueueOK /\ EventsOK

USE CommandServerAssumption, ClientListAssumption DEF Slots

-----------------------------------------------------------------------------
(* The table.                                                              *)

\* The first free slot is a free slot.
LEMMA FirstFree ==
    ASSUME NEW fds, FreeSlots(fds) # {}
    PROVE  \E i \in FreeSlots(fds) : \A c : WithClient(fds, c) = [fds EXCEPT ![i] = c]
<1> DEFINE first == CHOOSE i \in FreeSlots(fds) : \A j \in FreeSlots(fds) : i <= j
<1>1. FreeSlots(fds) \in SUBSET Nat
  BY DEF FreeSlots
<1>2. \E i \in FreeSlots(fds) : \A j \in FreeSlots(fds) : i <= j
  BY <1>1, LeastElement
<1>3. first \in FreeSlots(fds)
  BY <1>2
<1>4. \A c : WithClient(fds, c) = [fds EXCEPT ![first] = c]
  BY DEF WithClient
<1> HIDE DEF first
<1> QED
  BY <1>3, <1>4

\* The next event is one of those reported.
LEMMA FirstEvent ==
    ASSUME EventsOK, events # {}
    PROVE  First(events) \in events
<1> DEFINE slots == {e.slot : e \in events}
<1>1. slots \in SUBSET Nat /\ slots # {}
  BY DEF EventsOK
<1>2. \E n \in slots : \A k \in slots : n <= k
  <2> HIDE DEF slots
  <2> QED
    BY <1>1, LeastElement
<1>3. \E e \in events : \A f \in events : e.slot <= f.slot
  BY <1>2
<1> QED
  BY <1>3 DEF First

\* With all slots taken there are as many connections open as slots.
LEMMA FullTable ==
    ASSUME ConnType, TableMatches, FreeSlots(client_fd) = {}
    PROVE  Cardinality({d \in Clients : socket[d] = "open"}) = MaxClients
<1> DEFINE opened == {d \in Clients : socket[d] = "open"}
<1>1. \A i \in Slots : client_fd[i] # INVALID_CLIENT
  BY DEF FreeSlots
<1>2. opened = {client_fd[i] : i \in Slots}
  BY <1>1 DEF TableMatches, Registered
<1>3. client_fd \in Bijection(Slots, opened)
  <2>1. client_fd \in [Slots -> opened]
    BY <1>2 DEF ConnType
  <2>2. \A i, j \in Slots : client_fd[i] = client_fd[j] => i = j
    BY <1>1 DEF TableMatches
  <2>3. \A d \in opened : \E i \in Slots : client_fd[i] = d
    BY <1>2
  <2> HIDE DEF opened
  <2> QED
    BY <2>1, <2>2, <2>3 DEF Bijection, Injection, Surjection, IsInjective
<1>4. IsFiniteSet(Slots) /\ Cardinality(Slots) = MaxClients
  BY FS_Interval
<1> HIDE DEF opened
<1>5. Cardinality(opened) = Cardinality(Slots)
  BY <1>3, <1>4, FS_Bijection DEF ExistsBijection
<1> QED
  BY <1>4, <1>5 DEF opened

-----------------------------------------------------------------------------
(* The invariant.                                                          *)

LEMMA InitOK == Init => IInv
<1> SUFFICES ASSUME Init PROVE IInv
  OBVIOUS
<1>1. ConnType
  BY DEF Init, ConnType, NoClients, PeerStates
<1>2. TableMatches
  BY DEF Init, TableMatches, Registered, NoClients
<1>3. QueueOK /\ EventsOK
  BY DEF Init, QueueOK, EventsOK
<1> QED
  BY <1>1, <1>2, <1>3 DEF IInv

\* What a step leaves alone of the table, the connections and the queue leaves the
\* invariant alone, whatever the processes do that have dialled.
LEMMA Untouched ==
    ASSUME IInv, UNCHANGED <<client_fd, socket, backlog, repertoire>>,
           events' \subseteq events,
           peer' \in [Clients -> PeerStates],
           \A c \in Clients : peer'[c] = "new" => peer[c] = "new"
    PROVE  IInv'
<1>1. ConnType'
  BY DEF IInv, ConnType
<1>2. TableMatches'
  BY DEF IInv, TableMatches, Registered
<1>3. QueueOK'
  BY DEF IInv, QueueOK
<1>4. EventsOK'
  BY DEF IInv, EventsOK
<1> QED
  BY <1>1, <1>2, <1>3, <1>4 DEF IInv

LEMMA DialOK == ASSUME IInv, NEW c \in DOMAIN repertoire, Dial(c) PROVE IInv'
<1>1. /\ c \in Clients /\ peer[c] = "new" /\ socket[c] = "none"
      /\ socket' = [socket EXCEPT ![c] = "backlog"]
      /\ backlog' = Append(backlog, c)
      /\ peer' = [peer EXCEPT ![c] = "idle"]
      /\ UNCHANGED <<client_fd, events, repertoire>>
  BY DEF Dial, IInv, ConnType, QueueOK, serverVars
<1>2. /\ backlog' \in Seq(Clients) /\ Len(backlog') = Len(backlog) + 1
      /\ \A i \in 1..Len(backlog) : backlog'[i] = backlog[i] /\ backlog[i] # c
      /\ backlog'[Len(backlog) + 1] = c
  BY <1>1 DEF IInv, ConnType, QueueOK
<1>3. ConnType'
  BY <1>1, <1>2 DEF IInv, ConnType, PeerStates
<1>4. TableMatches'
  BY <1>1 DEF IInv, ConnType, TableMatches, Registered
<1>5. QueueOK'
  <2>1. \A i \in 1..Len(backlog') : socket'[backlog'[i]] = "backlog"
    BY <1>1, <1>2 DEF IInv, ConnType, QueueOK
  <2>2. \A i, j \in 1..Len(backlog') : backlog'[i] = backlog'[j] => i = j
    BY <1>2 DEF IInv, ConnType, QueueOK
  <2>3. \A d \in Clients : peer'[d] = "new" => socket'[d] = "none"
    BY <1>1 DEF IInv, ConnType, QueueOK
  <2> QED
    BY <2>1, <2>2, <2>3 DEF QueueOK
<1>6. EventsOK'
  BY <1>1, <1>2 DEF IInv, ConnType, EventsOK
<1> QED
  BY <1>3, <1>4, <1>5, <1>6 DEF IInv

\* Nothing else a client does has to do with the table.
LEMMA ClientOK == ASSUME IInv, NEW c \in DOMAIN repertoire, Client(c) PROVE IInv'
<1> c \in Clients
  BY DEF IInv, ConnType
<1>1. CASE Dial(c)
  BY <1>1, DialOK
<1>2. CASE Receive(c)
  <2>1. \E s \in {"idle", "failed"} : peer' = [peer EXCEPT ![c] = s]
    BY <1>2 DEF Receive
  <2>2. UNCHANGED <<client_fd, events, socket, backlog, repertoire>>
    BY <1>2 DEF Receive, serverVars
  <2> QED
    BY <2>1, <2>2, Untouched DEF IInv, ConnType, PeerStates
<1>3. CASE HangUp(c)
  <2>1. peer' = [peer EXCEPT ![c] = "gone"] /\ UNCHANGED <<client_fd, events, socket, backlog, repertoire>>
    BY <1>3 DEF HangUp, serverVars
  <2> QED
    BY <2>1, Untouched DEF IInv, ConnType, PeerStates
<1>4. ASSUME NEW words \in repertoire[c], Send(c, words)
      PROVE  IInv'
  <2>1. \E s \in {"failed", "waiting"} : peer' = [peer EXCEPT ![c] = s]
    BY <1>4 DEF Send
  <2>2. UNCHANGED <<client_fd, events, socket, backlog, repertoire>>
    BY <1>4 DEF Send, serverVars
  <2> QED
    BY <2>1, <2>2, Untouched DEF IInv, ConnType, PeerStates
<1> QED
  BY <1>1, <1>2, <1>3, <1>4 DEF Client

LEMMA PollOK == IInv /\ Poll => IInv'
<1> SUFFICES ASSUME IInv, Poll PROVE IInv'
  OBVIOUS
<1>1. UNCHANGED <<client_fd, socket, backlog, peer, repertoire>>
  BY DEF Poll, clientVars
<1>2. ASSUME NEW e \in events'
      PROVE  /\ e.slot \in Nat
             /\ \/ e = [slot |-> 0, fd |-> Listener, event |-> Event(Listener)]
                \/ e.fd \in Clients /\ socket[e.fd] = "open"
             /\ e.event # "none"
  <2>1. PICK p \in Polled(client_fd) :
            Event(p.fd) # "none" /\ e = [slot |-> p.slot, fd |-> p.fd, event |-> Event(p.fd)]
    BY DEF Poll
  <2>2. CASE p = [slot |-> 0, fd |-> Listener]
    BY <2>1, <2>2
  <2>3. CASE \E i \in Slots : p = [slot |-> i, fd |-> client_fd[i]] /\ client_fd[i] # INVALID_CLIENT
    BY <2>1, <2>3 DEF IInv, TableMatches, Registered
  <2> QED
    BY <2>1, <2>2, <2>3 DEF Polled
<1>3. EventsOK'
  BY <1>1, <1>2 DEF EventsOK, Event
<1>4. ConnType' /\ TableMatches' /\ QueueOK'
  BY <1>1 DEF IInv, ConnType, TableMatches, Registered, QueueOK
<1> QED
  BY <1>3, <1>4 DEF IInv

\* Accepting, or turning away: the connection at the head of the queue leaves it.
LEMMA RegisterOK == IInv /\ Register => IInv'
<1> SUFFICES ASSUME IInv, Register PROVE IInv'
  OBVIOUS
<1> DEFINE c == Head(backlog)
<1>1. /\ First(events) \in events /\ First(events).fd = Listener /\ First(events).event = "in"
      /\ events' = events \ {First(events)}
  BY FirstEvent DEF Register, At, IInv
<1>2. backlog # <<>>
  BY <1>1 DEF IInv, EventsOK
<1>3. /\ c = backlog[1] /\ c \in Clients /\ socket[c] = "backlog"
      /\ Len(backlog') = Len(backlog) - 1 /\ backlog' \in Seq(Clients)
      /\ \A i \in 1..Len(backlog') : backlog'[i] = backlog[i + 1] /\ backlog'[i] # c
  <2>1. backlog \in Seq(Clients) /\ Len(backlog) \in Nat \ {0} /\ backlog' = Tail(backlog)
    BY <1>2 DEF Register, IInv, ConnType
  <2>2. c = backlog[1] /\ c \in Clients
    BY <2>1
  <2>3. /\ Len(backlog') = Len(backlog) - 1 /\ backlog' \in Seq(Clients)
        /\ \A i \in 1..Len(backlog') : backlog'[i] = backlog[i + 1]
    BY <2>1
  <2> HIDE DEF c
  <2> QED
    BY <2>1, <2>2, <2>3 DEF IInv, QueueOK
<1>4. /\ FreeSlots(client_fd) # {} => socket' = [socket EXCEPT ![c] = "open"]
      /\ FreeSlots(client_fd) = {} => socket' = [socket EXCEPT ![c] = "closed"]
      /\ peer' = peer /\ repertoire' = repertoire
  BY DEF Register, clientVars
<1>5. ASSUME FreeSlots(client_fd) # {} PROVE ConnType' /\ TableMatches'
  <2>1. PICK i \in Slots : client_fd[i] = INVALID_CLIENT /\ client_fd' = [client_fd EXCEPT ![i] = c]
    <3>1. client_fd' = WithClient(client_fd, c)
      BY <1>5 DEF Register
    <3> HIDE DEF c
    <3> QED
      BY <1>5, <3>1, FirstFree DEF FreeSlots
  <2>2. ConnType'
    BY <1>3, <1>4, <2>1 DEF IInv, ConnType
  <2>3. Registered(client_fd') = Registered(client_fd) \cup {c}
    <3>1. c # INVALID_CLIENT
      BY <1>3
    <3>2. \A j \in Slots : client_fd'[j] = IF j = i THEN c ELSE client_fd[j]
      BY <2>1 DEF IInv, ConnType
    <3>3. \A x : x \in Registered(client_fd') <=> x \in Registered(client_fd) \/ x = c
      <4> HIDE DEF c
      <4> QED
        BY <2>1, <3>1, <3>2 DEF Registered
    <3> QED
      BY <3>3
  <2>4. c \notin Registered(client_fd)
    BY <1>3 DEF IInv, TableMatches
  <2>5. TableMatches'
    BY <1>3, <1>4, <1>5, <2>1, <2>3, <2>4 DEF IInv, ConnType, TableMatches, Registered
  <2> QED
    BY <2>2, <2>5
<1>6. ASSUME FreeSlots(client_fd) = {} PROVE ConnType' /\ TableMatches'
  <2>1. client_fd' = client_fd
    BY <1>6 DEF Register
  <2>2. ConnType'
    BY <1>3, <1>4, <1>6, <2>1 DEF IInv, ConnType
  <2>3. ASSUME NEW x \in Clients PROVE socket'[x] = "open" <=> socket[x] = "open"
    <3> HIDE DEF c
    <3> QED
      BY <1>3, <1>4, <1>6 DEF IInv, ConnType
  <2>4. Registered(client_fd') = Registered(client_fd)
    BY <2>1 DEF Registered
  <2>5. TableMatches'
    BY <2>1, <2>3, <2>4 DEF IInv, TableMatches
  <2> QED
    BY <2>2, <2>5
<1>7. QueueOK'
  <2>1. \A i \in 1..Len(backlog') : socket'[backlog'[i]] = "backlog"
    BY <1>3, <1>4 DEF IInv, ConnType, QueueOK
  <2>2. \A i, j \in 1..Len(backlog') : backlog'[i] = backlog'[j] => i = j
    BY <1>3 DEF IInv, ConnType, QueueOK
  <2>3. \A d \in Clients : peer'[d] = "new" => socket'[d] = "none"
    BY <1>3, <1>4 DEF IInv, ConnType, QueueOK
  <2> QED
    BY <2>1, <2>2, <2>3 DEF QueueOK
<1>8. EventsOK'
  <2>1. \A e \in events' : e.fd # Listener
    BY <1>1 DEF IInv, EventsOK
  <2> QED
    BY <1>1, <1>3, <1>4, <2>1 DEF IInv, ConnType, EventsOK
<1> QED
  BY <1>5, <1>6, <1>7, <1>8 DEF IInv

LEMMA DeregisterOK == ASSUME IInv, NEW c \in Clients, Deregister(c) PROVE IInv'
<1>1. /\ First(events) \in events /\ First(events).fd = c
      /\ events' = events \ {First(events)}
  BY FirstEvent DEF Deregister, At, IInv
<1>2. /\ socket[c] \in {"open", "closed"} /\ socket' = [socket EXCEPT ![c] = "closed"]
      /\ client_fd' = WithoutClient(client_fd, c)
      /\ UNCHANGED <<backlog, peer, repertoire>>
  BY <1>1 DEF Deregister, IInv, EventsOK, clientVars
<1>3. ConnType'
  BY <1>2 DEF IInv, ConnType, WithoutClient
<1>4. Registered(client_fd') = Registered(client_fd) \ {c}
  BY <1>2 DEF WithoutClient, Registered
<1>5. TableMatches'
  BY <1>2, <1>4 DEF IInv, ConnType, TableMatches, WithoutClient
<1>6. QueueOK'
  BY <1>2 DEF IInv, ConnType, QueueOK
<1>7. EventsOK'
  BY <1>1, <1>2 DEF IInv, ConnType, EventsOK
<1> QED
  BY <1>3, <1>5, <1>6, <1>7 DEF IInv

LEMMA TerminatedOK == IInv /\ Terminated => IInv'
<1> SUFFICES ASSUME IInv, Terminated PROVE IInv'
  OBVIOUS
<1>1. /\ client_fd' = NoClients /\ events' = {} /\ backlog' = <<>>
      /\ socket' = [c \in Clients |-> IF socket[c] = "none" THEN "none" ELSE "closed"]
      /\ UNCHANGED <<peer, repertoire>>
  BY DEF Terminated, clientVars
<1>2. ConnType'
  BY <1>1 DEF IInv, ConnType, NoClients
<1>3. TableMatches'
  BY <1>1 DEF TableMatches, Registered, NoClients
<1>4. QueueOK' /\ EventsOK'
  BY <1>1 DEF IInv, QueueOK, EventsOK
<1> QED
  BY <1>2, <1>3, <1>4 DEF IInv

\* Commands and answers leave the table alone, unless the daemon ends.
LEMMA ExecuteOK == ASSUME IInv, NEW c \in Clients, Execute(c) PROVE IInv'
<1>1. \/ Terminated
      \/ events' \subseteq events /\ UNCHANGED <<client_fd, socket, backlog, clientVars>>
  BY DEF Execute
<1> QED
  BY <1>1, TerminatedOK, Untouched DEF clientVars, IInv, ConnType

LEMMA StepOK == IInv /\ [Next]_cvars => IInv'
<1> SUFFICES ASSUME IInv, [Next]_cvars PROVE IInv'
  OBVIOUS
<1>1. ASSUME NEW c \in DOMAIN repertoire, Client(c) PROVE IInv'
  BY <1>1, ClientOK
<1>2. CASE Server
  <2>1. CASE Answer
    BY <2>1, Untouched DEF Answer, clientVars, IInv, ConnType
  <2> QED
    BY <1>2, <2>1, PollOK, RegisterOK, DeregisterOK, ExecuteOK DEF Server
<1>3. CASE Reset
  BY <1>3, Untouched DEF Reset, serverVars, clientVars, IInv, ConnType
<1>4. CASE Reload
  BY <1>4, Untouched, TerminatedOK DEF Reload, serverVars, clientVars, IInv, ConnType
<1>5. CASE End
  BY <1>5, TerminatedOK DEF End
<1>6. CASE UNCHANGED cvars
  BY <1>6, Untouched DEF cvars, serverVars, clientVars, IInv, ConnType
<1> QED
  BY <1>1, <1>2, <1>3, <1>4, <1>5, <1>6 DEF Next

-----------------------------------------------------------------------------
(* The theorems.                                                           *)

\* Each connection that was accepted and not closed is in one slot of the table, and
\* nothing else is (x52d_client_register, x52d_client_deregister).
THEOREM TableCorrect == Spec => []TableMatches
<1>1. IInv => TableMatches
  BY DEF IInv
<1> QED
  BY InitOK, StepOK, <1>1, PTL DEF Spec

\* A connection is turned away only if MaxClients others are open at that moment.
THEOREM SlotsUsed == Spec => RefusedOnlyWhenFull
<1> DEFINE Refusal(c) == running' /\ socket[c] = "backlog" /\ socket'[c] = "closed"
           Full == Cardinality({d \in Clients : socket[d] = "open"}) = MaxClients
<1>1. ASSUME IInv, [Next]_cvars, NEW c \in Clients, Refusal(c)
      PROVE  FreeSlots(client_fd) = {}
  <2>1. socket' # socket /\ ~Terminated
    BY <1>1 DEF Terminated
  <2>2. ASSUME NEW d \in DOMAIN repertoire, Client(d) PROVE FALSE
    BY <1>1, <2>1, <2>2 DEF Client, Dial, Receive, HangUp, Send, IInv, ConnType
  <2>3. ASSUME NEW d \in Clients, Deregister(d) PROVE FALSE
    <3>1. socket[d] \in {"open", "closed"} /\ socket' = [socket EXCEPT ![d] = "closed"]
      BY <1>1, <2>3, FirstEvent DEF Deregister, At, IInv, EventsOK
    <3> QED
      BY <1>1, <3>1 DEF IInv, ConnType
  <2>4. ASSUME NEW d \in Clients, Execute(d) PROVE FALSE
    BY <2>1, <2>4 DEF Execute
  <2>5. Register
    BY <1>1, <2>1, <2>2, <2>3, <2>4
       DEF Next, Server, Poll, Answer, Reset, Reload, End, cvars
  <2> QED
    BY <1>1, <2>5 DEF Register, IInv, ConnType
<1>2. IInv /\ [Next]_cvars => [\A c \in Clients : Refusal(c) => Full]_cvars
  BY <1>1, FullTable DEF IInv
<1> QED
  BY InitOK, StepOK, <1>2, PTL DEF Spec, RefusedOnlyWhenFull

-----------------------------------------------------------------------------
(* Commands that are refused.                                              *)

LEMMA RejectedKeeps ==
    ASSUME NEW cfg, NEW name, NEW text, ~ProcessKV(cfg, name, text).ok
    PROVE  ProcessKV(cfg, name, text).cfg = cfg
<1>1. CASE name \notin Names
  BY <1>1 DEF ProcessKV
<1>2. CASE name \in Names /\ Parse(TypeOf[name], text).ok
  BY <1>2 DEF ProcessKV
<1>3. CASE name \in Names /\ ~Parse(TypeOf[name], text).ok
  BY <1>3 DEF ProcessKV
<1> QED
  BY <1>1, <1>2, <1>3

\* Of all that may come of a command, what is answered with ERR is the state it was
\* given.
LEMMA ErrKeeps ==
    ASSUME NEW cfg, NEW lv, NEW fs, NEW argv,
           NEW r \in CommandParser([config |-> cfg, level |-> lv, files |-> fs], argv),
           ~r.ends, r.answer[1] = "ERR"
    PROVE  r.st = [config |-> cfg, level |-> lv, files |-> fs]
<1> DEFINE st == [config |-> cfg, level |-> lv, files |-> fs]
<1>1. ASSUME NEW reason, r = ERR(st, reason) PROVE r.st = st
  BY <1>1 DEF ERR, Result
<1>2. ASSUME NEW now, NEW words, r = OK(now, words) \/ r = DATA(now, words) PROVE FALSE
  BY <1>2 DEF OK, DATA, Result
<1>3. ASSUME r = ConfigSet(st, argv) PROVE r.st = st
  <2> DEFINE set == ProcessKV(cfg, <<argv[3], argv[4]>>, argv[5])
  <2>1. CASE set.ok
    <3>1. r = OK([st EXCEPT !.config = set.cfg], argv)
      BY <1>3, <2>1 DEF ConfigSet
    <3> QED
      BY <1>2, <3>1
  <2>2. CASE ~set.ok
    <3>1. set.cfg = cfg
      BY <2>2, RejectedKeeps
    <3>2. r = ERR([st EXCEPT !.config = set.cfg], "value")
      BY <1>3, <2>2 DEF ConfigSet
    <3> QED
      BY <3>1, <3>2 DEF ERR, Result
  <2> QED
    BY <2>1, <2>2
<1>4. ASSUME r \in CmdConfig(st, argv) PROVE r.st = st
  <2>1. ASSUME r \in ConfigLoad(st, argv) PROVE r.st = st
    BY <1>1, <1>2, <2>1 DEF ConfigLoad, Ends
  <2>2. ASSUME r = ConfigDump(st, argv) PROVE r.st = st
    BY <1>1, <1>2, <2>2 DEF ConfigDump
  <2>3. ASSUME r = ConfigGet(st, argv) PROVE r.st = st
    BY <1>1, <1>2, <2>3 DEF ConfigGet
  <2>4. DOMAIN ArgCount = {"load", "reload", "dump", "save", "set", "get"}
    BY DEF ArgCount
  <2> HIDE DEF st
  <2> QED
    BY <1>1, <1>2, <1>3, <1>4, <2>1, <2>2, <2>3, <2>4 DEF CmdConfig
<1>5. ASSUME r = CmdLogging(st, argv) PROVE r.st = st
  <2>1. ASSUME r = LoggingShow(st, argv) PROVE r.st = st
    BY <1>1, <1>2, <2>1 DEF LoggingShow
  <2>2. ASSUME r = LoggingSet(st, argv) PROVE r.st = st
    BY <1>1, <1>2, <2>2 DEF LoggingSet
  <2> HIDE DEF st
  <2> QED
    BY <1>1, <1>5, <2>1, <2>2 DEF CmdLogging
<1> HIDE DEF st
<1>6. r \in CommandParser(st, argv)
  BY DEF st
<1>7. r.st = st
  BY <1>1, <1>4, <1>5, <1>6 DEF CommandParser
<1> QED
  BY <1>7 DEF st

\* A command that is answered with ERR has changed no setting, no file and no level,
\* whatever its words (x52d_command.c, x52d_config_parser.c).
THEOREM RefusedKeeps == Spec => ErrChangesNothing
<1> DEFINE Refusal == reply = NoReply /\ reply' # NoReply /\ reply'[2][1] = "ERR"
<1>1. ASSUME [Next]_cvars, Refusal PROVE UNCHANGED daemonState
  <2>1. \E c \in Clients : Execute(c)
    BY <1>1 DEF Next, Client, Dial, Receive, HangUp, Send, Server, Poll, Register, Deregister,
                Answer, Reset, Reload, End, Terminated, cvars, serverVars
  <2>2. PICK c \in Clients :
          \E r \in CommandParser([config |-> config, level |-> level, files |-> files],
                                 SplitArgs(inbox[c])) :
            /\ ~r.ends /\ reply' = <<c, r.answer>>
            /\ config' = r.st.config /\ level' = r.st.level /\ files' = r.st.files
    BY <1>1, <2>1 DEF Execute, Terminated
  <2>3. PICK r \in CommandParser([config |-> config, level |-> level, files |-> files],
                                 SplitArgs(inbox[c])) :
            /\ ~r.ends /\ reply' = <<c, r.answer>>
            /\ config' = r.st.config /\ level' = r.st.level /\ files' = r.st.files
    BY <2>2
  <2>4. r.answer[1] = "ERR"
    BY <1>1, <2>3
  <2>5. r.st = [config |-> config, level |-> level, files |-> files]
    BY <2>3, <2>4, ErrKeeps
  <2> QED
    BY <2>3, <2>5 DEF daemonState
<1>2. [Next]_cvars => [Refusal => UNCHANGED daemonState]_cvars
  BY <1>1
<1> QED
  BY <1>2, PTL DEF Spec, ErrChangesNothing

-----------------------------------------------------------------------------
(* The configuration: values that a parser has yielded.                    *)

Types == {"bool", "string", "int", "led", "clock_format", "date_format"}

\* The values of a type are those some text stands for.
Meant(type, value) == \E text : Parse(type, text) = Yields(value)

GoodConfig(cfg) ==
    /\ cfg = [n \in Names |-> cfg[n]]
    /\ \A n \in Names : Meant(TypeOf[n], cfg[n])

\* A file is a sequence of lines.
GoodFile(lines) == \E X : lines \in Seq(X)

\* What the table says of the type of a setting, by its name.
Kind(name) ==
    CASE name[1] = "led" -> "led"
      [] name[1] = "brightness" \/ name[2] = "speed" -> "int"
      [] name[2] \in {"enabled", "primaryislocal", "reversescroll", "clutchenabled",
                      "clutchlatched"} -> "bool"
      [] name[2] \in {"secondary", "tertiary", "directory"} -> "string"
      [] name[2] = "dateformat" -> "date_format"
      [] OTHER -> "clock_format"

\* The table has 27 lines.
LEMMA TableTypes ==
    /\ DOMAIN Table = 1..27
    /\ \A i \in 1..27 : Table[i].type = Kind(Table[i].name) /\ Table[i].type \in Types
<1>1. DOMAIN Table = 1..27
  BY DEF Table, S
<1>2. \A i \in 1..27 : Table[i].type = Kind(Table[i].name)
  BY SMTT(20) DEF Table, S, Kind
<1>3. \A i \in 1..27 : Table[i].type \in Types
  BY DEF Table, S, Types
<1> QED
  BY <1>1, <1>2, <1>3

\* The type of a setting is that of each of its lines in the table.
LEMMA TypesAgree ==
    ASSUME NEW n \in Names
    PROVE  /\ TypeOf[n] \in Types
           /\ \E i \in 1..27 : Table[i].name = n
           /\ \A i \in 1..27 : Table[i].name = n => Table[i].type = TypeOf[n]
<1>1. PICK i \in 1..27 : Table[i].name = n
  BY TableTypes DEF Names
<1> DEFINE s == CHOOSE x \in ToSet(Table) : x.name = n
<1>2. \A x \in ToSet(Table) : \E k \in 1..27 : x = Table[k]
  BY TableTypes DEF ToSet
<1>3. Table[i] \in ToSet(Table)
  BY TableTypes DEF ToSet
<1>4. s \in ToSet(Table) /\ s.name = n
  BY <1>1, <1>3
<1>5. TypeOf[n] = s.type
  BY DEF TypeOf
<1> HIDE DEF s
<1>6. PICK k \in 1..27 : s = Table[k]
  BY <1>2, <1>4
<1>7. TypeOf[n] = Kind(n) /\ TypeOf[n] \in Types
  BY <1>4, <1>5, <1>6, TableTypes
<1>8. ASSUME NEW j \in 1..27, Table[j].name = n PROVE Table[j].type = TypeOf[n]
  BY <1>7, <1>8, TableTypes
<1> QED
  BY <1>1, <1>7, <1>8

-----------------------------------------------------------------------------
(* Texts and values.                                                       *)

\* A parser rejects a text or yields a value.
LEMMA ParsedOrNot ==
    ASSUME NEW type \in Types, NEW text
    PROVE  Parse(type, text).ok => Parse(type, text) = Yields(Parse(type, text).value)
<1>1. ASSUME NEW texts PROVE LookUp(texts, text) = Rejected \/ LookUp(texts, text) = Yields(texts[text])
  BY DEF LookUp
<1>2. ParseInt(text) = Rejected \/ ParseInt(text) = Yields(Strtol[text].low)
  BY DEF ParseInt
<1>3. \E v : ParseString(text) = Yields(v)
  BY DEF ParseString
<1>4. Parse(type, text) = Rejected \/ \E v : Parse(type, text) = Yields(v)
  BY <1>1, <1>2, <1>3, Zenon DEF Parse, Types
<1>5. ASSUME NEW v, Parse(type, text) = Yields(v)
      PROVE  Parse(type, text) = Yields(Parse(type, text).value)
  BY <1>5 DEF Yields
<1>6. ~Rejected.ok
  BY DEF Rejected
<1> QED
  BY <1>4, <1>5, <1>6

LEMMA BoolMeant == ASSUME NEW v, Meant("bool", v) PROVE v \in BOOLEAN
<1>1. PICK text : LookUp(BoolTexts, text) = Yields(v)
  BY DEF Meant, Parse
<1>2. text \in DOMAIN BoolTexts /\ v = BoolTexts[text]
  BY <1>1 DEF LookUp, Yields, Rejected
<1>3. text \in {"yes", "true", "no", "false"}
  BY <1>2 DEF BoolTexts
<1>4. /\ BoolTexts["yes"] = TRUE /\ BoolTexts["true"] = TRUE
      /\ BoolTexts["no"] = FALSE /\ BoolTexts["false"] = FALSE
  BY DEF BoolTexts
<1> QED
  BY <1>2, <1>3, <1>4, Zenon

\* The text of a value is read as that value.
LEMMA DumpParses ==
    ASSUME NEW type \in Types \ {"clock_format"}, NEW v, Meant(type, v)
    PROVE  Parse(type, DumpText(type, v)) = Yields(v)
<1>1. CASE type = "bool"
  <2>1. v \in BOOLEAN
    BY <1>1, BoolMeant
  <2>2. /\ "true" \in DOMAIN BoolTexts /\ BoolTexts["true"] = TRUE
        /\ "false" \in DOMAIN BoolTexts /\ BoolTexts["false"] = FALSE
    BY DEF BoolTexts
  <2>3. LookUp(BoolTexts, "true") = Yields(TRUE) /\ LookUp(BoolTexts, "false") = Yields(FALSE)
    BY <2>2 DEF LookUp
  <2>4. CASE v
    <3>1. DumpText(type, v) = "true"
      BY <1>1, <2>4, Zenon DEF DumpText
    <3>2. v = TRUE
      BY <2>1, <2>4
    <3> QED
      BY <1>1, <2>3, <3>1, <3>2, Zenon DEF Parse
  <2>5. CASE ~v
    <3>1. DumpText(type, v) = "false"
      BY <1>1, <2>5, Zenon DEF DumpText
    <3>2. v = FALSE
      BY <2>1, <2>5
    <3> QED
      BY <1>1, <2>3, <3>1, <3>2, Zenon DEF Parse
  <2> QED
    BY <2>4, <2>5
<1>2. CASE type = "string"
  <2>1. PICK text : Yields(IF text \in DOMAIN Cuts THEN Cuts[text] ELSE text) = Yields(v)
    BY <1>2 DEF Meant, Parse, ParseString
  <2>2. v = IF text \in DOMAIN Cuts THEN Cuts[text] ELSE text
    BY <2>1 DEF Yields
  <2>3. v \notin DOMAIN Cuts
    BY <2>2 DEF Cuts
  <2>4. DumpText(type, v) = v
    BY <1>2, Zenon DEF DumpText
  <2> QED
    BY <1>2, <2>3, <2>4, Zenon DEF Parse, ParseString
<1>3. CASE type = "int"
  <2>1. PICK text : ParseInt(text) = Yields(v)
    BY <1>3 DEF Meant, Parse
  <2>2. text \in DOMAIN Strtol /\ ~Strtol[text].range /\ ~Strtol[text].rest /\ v = Strtol[text].low
    BY <2>1 DEF ParseInt, Yields, Rejected
  <2>3. DumpText(type, v) = ToString(v)
    BY <1>3, Zenon DEF DumpText
  <2> DEFINE written == ToString(v)
  <2>4. /\ written \in DOMAIN Strtol
        /\ ~Strtol[written].rest /\ ~Strtol[written].range
        /\ Strtol[written].low = v
    BY <2>2, StrtolAssumption
  <2>5. ParseInt(written) = Yields(v)
    BY <2>4 DEF ParseInt
  <2> QED
    BY <1>3, <2>3, <2>5, Zenon DEF Parse
<1>4. CASE type = "led"
  <2>1. PICK text : LookUp(LedTexts, text) = Yields(v)
    BY <1>4 DEF Meant, Parse
  <2>2. text \in DOMAIN LedTexts /\ v = LedTexts[text]
    BY <2>1 DEF LookUp, Yields, Rejected
  <2>3. LedWords[v] \in DOMAIN LedTexts /\ LedTexts[LedWords[v]] = v
    BY <2>2 DEF LedTexts, LedWords
  <2>4. DumpText(type, v) = LedWords[v]
    BY <1>4, Zenon DEF DumpText
  <2> QED
    BY <1>4, <2>3, <2>4, Zenon DEF Parse, LookUp
<1>5. CASE type = "date_format"
  <2>1. PICK text : LookUp(DateTexts, text) = Yields(v)
    BY <1>5 DEF Meant, Parse
  <2>2. text \in DOMAIN DateTexts /\ v = DateTexts[text]
    BY <2>1 DEF LookUp, Yields, Rejected
  <2>3. DateWords[v] \in DOMAIN DateTexts /\ DateTexts[DateWords[v]] = v
    BY <2>2 DEF DateTexts, DateWords
  <2>4. DumpText(type, v) = DateWords[v]
    BY <1>5, Zenon DEF DumpText
  <2> QED
    BY <1>5, <2>3, <2>4, Zenon DEF Parse, LookUp
<1> QED
  BY <1>1, <1>2, <1>3, <1>4, <1>5 DEF Types

-----------------------------------------------------------------------------
(* Configurations that are loaded.                                         *)

\* The last of the lines there are.
LEMMA MaxIn ==
    ASSUME NEW N \in Nat, NEW I \in SUBSET (1..N), I # {}
    PROVE  Max(I) \in I
<1> DEFINE J == {N - i : i \in I}
<1>1. J \in SUBSET Nat /\ J # {}
  <2>1. \A i \in I : N - i \in Nat
    OBVIOUS
  <2>2. J \in SUBSET Nat
    BY <2>1
  <2>3. PICK i : i \in I
    OBVIOUS
  <2>4. N - i \in J
    BY <2>3
  <2> QED
    BY <2>2, <2>4
<1>2. PICK j \in J : \A k \in J : j <= k
  <2> HIDE DEF J
  <2> QED
    BY <1>1, LeastElement
<1>3. PICK i \in I : j = N - i
  BY <1>2
<1>4. \A k \in I : i >= k
  <2> SUFFICES ASSUME NEW k \in I PROVE i >= k
    OBVIOUS
  <2>1. N - i <= N - k
    BY <1>2, <1>3
  <2> QED
    BY <2>1
<1> QED
  BY <1>3, <1>4 DEF Max

\* Zero is a value of each type.
LEMMA ZeroesGood == GoodConfig(Zeroes)
<1>1. Zeroes = [n \in Names |-> Zeroes[n]]
  BY DEF Zeroes
<1>2. ASSUME NEW n \in Names PROVE Meant(TypeOf[n], ZeroOf(TypeOf[n]))
  <2>1. TypeOf[n] \in Types
    BY TypesAgree
  <2>2. CASE TypeOf[n] = "bool"
    <3>1. ZeroOf(TypeOf[n]) = FALSE
      BY <2>2, Zenon DEF ZeroOf
    <3>2. "no" \in DOMAIN BoolTexts /\ BoolTexts["no"] = FALSE
      BY DEF BoolTexts
    <3>3. Parse("bool", "no") = Yields(FALSE)
      BY <3>2, Zenon DEF Parse, LookUp
    <3> QED
      BY <2>2, <3>1, <3>3, Zenon DEF Meant
  <2>3. CASE TypeOf[n] = "string"
    <3>1. ZeroOf(TypeOf[n]) = ""
      BY <2>3, Zenon DEF ZeroOf
    <3>2. "" \notin DOMAIN Cuts
      BY DEF Cuts
    <3>3. Parse("string", "") = Yields("")
      BY <3>2, Zenon DEF Parse, ParseString
    <3> QED
      BY <2>3, <3>1, <3>3, Zenon DEF Meant
  <2>4. CASE TypeOf[n] = "int"
    <3>1. ZeroOf(TypeOf[n]) = 0
      BY <2>4, Zenon DEF ZeroOf
    <3>2. "0" \in DOMAIN Strtol /\ Strtol["0"].low = 0 /\ ~Strtol["0"].range /\ ~Strtol["0"].rest
      <4>1. "0" \in DOMAIN Strtol
        BY SMT DEF Strtol
      <4>2. Strtol["0"].low = 0
        BY SMT DEF Strtol
      <4>3. ~Strtol["0"].range
        BY Zenon DEF Strtol
      <4>4. ~Strtol["0"].rest
        BY Zenon DEF Strtol
      <4> QED
        BY <4>1, <4>2, <4>3, <4>4
    <3>3. Parse("int", "0") = Yields(0)
      BY <3>2, Zenon DEF Parse, ParseInt
    <3> QED
      BY <2>4, <3>1, <3>3, Zenon DEF Meant
  <2>5. CASE TypeOf[n] = "led"
    <3>1. ZeroOf(TypeOf[n]) = "OFF"
      BY <2>5, Zenon DEF ZeroOf
    <3>2. "off" \in DOMAIN LedTexts /\ LedTexts["off"] = "OFF"
      BY DEF LedTexts
    <3>3. Parse("led", "off") = Yields("OFF")
      BY <3>2, Zenon DEF Parse, LookUp
    <3> QED
      BY <2>5, <3>1, <3>3, Zenon DEF Meant
  <2>6. CASE TypeOf[n] = "clock_format"
    <3>1. ZeroOf(TypeOf[n]) = "12hr"
      BY <2>6, Zenon DEF ZeroOf
    <3>2. "12hr" \in DOMAIN ClockTexts /\ ClockTexts["12hr"] = "12hr"
      BY DEF ClockTexts
    <3>3. Parse("clock_format", "12hr") = Yields("12hr")
      BY <3>2, Zenon DEF Parse, LookUp
    <3> QED
      BY <2>6, <3>1, <3>3, Zenon DEF Meant
  <2>7. CASE TypeOf[n] = "date_format"
    <3>1. ZeroOf(TypeOf[n]) = "DDMMYY"
      BY <2>7, Zenon DEF ZeroOf
    <3>2. "ddmmyy" \in DOMAIN DateTexts /\ DateTexts["ddmmyy"] = "DDMMYY"
      BY DEF DateTexts
    <3>3. Parse("date_format", "ddmmyy") = Yields("DDMMYY")
      BY <3>2, Zenon DEF Parse, LookUp
    <3> QED
      BY <2>7, <3>1, <3>3, Zenon DEF Meant
  <2> QED
    BY <2>1, <2>2, <2>3, <2>4, <2>5, <2>6, <2>7 DEF Types
<1> QED
  BY <1>1, <1>2 DEF GoodConfig, Zeroes

\* Of the lines of a file, the last that is accepted yields the value.
LEMMA LoadedFrom ==
    ASSUME NEW cfg, NEW lines, GoodFile(lines), NEW n \in Names
    PROVE  \/ LoadLines(cfg, lines)[n] = cfg[n]
           \/ \E i \in DOMAIN lines :
                 /\ lines[i].name = n /\ Parse(TypeOf[n], lines[i].text).ok
                 /\ LoadLines(cfg, lines)[n] = Parse(TypeOf[n], lines[i].text).value
<1> DEFINE good == {i \in DOMAIN lines : lines[i].name = n /\ Parse(TypeOf[n], lines[i].text).ok}
<1>1. LoadLines(cfg, lines)[n] =
         IF good = {} THEN cfg[n] ELSE Parse(TypeOf[n], lines[Max(good)].text).value
  BY DEF LoadLines
<1>2. ASSUME good # {} PROVE Max(good) \in good
  <2>1. PICK X : lines \in Seq(X)
    BY DEF GoodFile
  <2>2. Len(lines) \in Nat /\ DOMAIN lines = 1..Len(lines)
    BY <2>1
  <2>3. good \in SUBSET (1..Len(lines))
    BY <2>2
  <2> HIDE DEF good
  <2> QED
    BY <1>2, <2>2, <2>3, MaxIn
<1>3. CASE good = {}
  BY <1>1, <1>3
<1>4. CASE good # {}
  <2> DEFINE i == Max(good)
  <2>1. LoadLines(cfg, lines)[n] = Parse(TypeOf[n], lines[i].text).value
    BY <1>1, <1>4
  <2>2. i \in good
    BY <1>2, <1>4
  <2> HIDE DEF i
  <2> QED
    BY <2>1, <2>2
<1> QED
  BY <1>3, <1>4

LEMMA LoadLinesGood ==
    ASSUME NEW cfg, GoodConfig(cfg), NEW lines, GoodFile(lines)
    PROVE  GoodConfig(LoadLines(cfg, lines))
<1>1. LoadLines(cfg, lines) = [n \in Names |-> LoadLines(cfg, lines)[n]]
  BY DEF LoadLines
<1>2. ASSUME NEW n \in Names PROVE Meant(TypeOf[n], LoadLines(cfg, lines)[n])
  <2> DEFINE now == LoadLines(cfg, lines)[n]
  <2>1. CASE now = cfg[n]
    BY <2>1 DEF GoodConfig
  <2>2. ASSUME NEW i \in DOMAIN lines, Parse(TypeOf[n], lines[i].text).ok,
               now = Parse(TypeOf[n], lines[i].text).value
        PROVE  Meant(TypeOf[n], now)
    <3>1. TypeOf[n] \in Types
      BY TypesAgree
    <3>2. Parse(TypeOf[n], lines[i].text) = Yields(now)
      <4> HIDE DEF now
      <4> QED
        BY <2>2, <3>1, ParsedOrNot
    <3> HIDE DEF now
    <3> QED
      BY <3>2 DEF Meant
  <2>3. \/ now = cfg[n]
        \/ \E i \in DOMAIN lines :
                 /\ lines[i].name = n /\ Parse(TypeOf[n], lines[i].text).ok
                 /\ now = Parse(TypeOf[n], lines[i].text).value
    BY LoadedFrom
  <2>4. CASE now # cfg[n]
    <3>1. PICK i \in DOMAIN lines : /\ Parse(TypeOf[n], lines[i].text).ok
                                   /\ now = Parse(TypeOf[n], lines[i].text).value
      BY <2>3, <2>4
    <3> QED
      BY <2>2, <3>1
  <2> QED
    BY <2>1, <2>4
<1> QED
  BY <1>1, <1>2 DEF GoodConfig

LEMMA StrictLinesGood ==
    ASSUME NEW cfg, GoodConfig(cfg), NEW lines, GoodFile(lines)
    PROVE  GoodConfig(StrictLines(cfg, lines).cfg)
<1> DEFINE bad == {i \in DOMAIN lines : lines[i].name \in Names
                                        /\ ~Parse(TypeOf[lines[i].name], lines[i].text).ok}
           before == IF bad = {} THEN lines ELSE SubSeq(lines, 1, Min(bad) - 1)
<1>1. StrictLines(cfg, lines).cfg = LoadLines(cfg, before)
  BY DEF StrictLines
<1>2. GoodFile(before)
  <2>1. PICK X : lines \in Seq(X)
    BY DEF GoodFile
  <2>2. CASE bad # {}
    <3>1. bad \in SUBSET Nat /\ bad \subseteq 1..Len(lines)
      BY <2>1
    <3>2. \E i \in bad : \A k \in bad : i <= k
      <4> HIDE DEF bad
      <4> QED
        BY <2>2, <3>1, LeastElement
    <3>3. Min(bad) \in bad
      <4> HIDE DEF bad
      <4> QED
        BY <3>2 DEF Min
    <3> DEFINE m == Min(bad)
    <3>4. m \in 1..Len(lines)
      BY <3>1, <3>3
    <3> HIDE DEF m
    <3>5. SubSeq(lines, 1, m - 1) \in Seq(X)
      BY <2>1, <3>4
    <3> QED
      BY <2>2, <3>5 DEF GoodFile, m
  <2> QED
    BY <2>2
<1> HIDE DEF before
<1> QED
  BY <1>1, <1>2, LoadLinesGood

LEMMA TableFile ==
    ASSUME NEW lines, lines = [i \in DOMAIN Table |-> lines[i]]
    PROVE  GoodFile(lines)
<1> DEFINE X == {lines[i] : i \in 1..27}
<1>1. lines \in [1..27 -> X]
  BY TableTypes
<1>2. lines \in Seq(X)
  <2> HIDE DEF X
  <2> QED
    BY <1>1, SeqDef
<1> QED
  BY <1>2 DEF GoodFile

LEMMA DefaultsGood == GoodConfig(Defaults)
<1>1. GoodFile(DefaultLines)
  BY TableFile DEF DefaultLines
<1> QED
  BY <1>1, ZeroesGood, StrictLinesGood DEF Defaults

LEMMA LoadConfigGood ==
    ASSUME NEW fs, NEW path \in DOMAIN fs, GoodFile(fs[path]), NEW overrides, GoodFile(overrides)
    PROVE  GoodConfig(LoadConfig(fs, path, overrides).cfg)
<1>1. GoodConfig(LoadFile(fs[path]))
  BY DefaultsGood, LoadLinesGood DEF LoadFile
<1>2. LoadConfig(fs, path, overrides) = StrictLines(LoadFile(fs[path]), overrides)
  BY DEF LoadConfig
<1> QED
  BY <1>1, <1>2, StrictLinesGood

-----------------------------------------------------------------------------
(* What the daemon keeps.                                                  *)

GoodLevels(lv) == lv \in [Modules \cup {Global} -> Levels \cup {NOTSET}]
GoodState(st) ==
    /\ GoodConfig(st.config) /\ GoodLevels(st.level)
    /\ \A p \in DOMAIN st.files : GoodFile(st.files[p])

LEMMA SetGood ==
    ASSUME NEW cfg, GoodConfig(cfg), NEW name, NEW text
    PROVE  GoodConfig(ProcessKV(cfg, name, text).cfg)
<1> DEFINE v == Parse(TypeOf[name], text)
<1>1. CASE name \notin Names \/ ~v.ok
  <2>1. ProcessKV(cfg, name, text).cfg = cfg
    BY <1>1 DEF ProcessKV
  <2> QED
    BY <2>1
<1>2. CASE name \in Names /\ v.ok
  <2>1. ProcessKV(cfg, name, text).cfg = [cfg EXCEPT ![name] = v.value]
    BY <1>2 DEF ProcessKV
  <2>2. TypeOf[name] \in Types
    BY <1>2, TypesAgree
  <2>3. Meant(TypeOf[name], v.value)
    BY <1>2, <2>2, ParsedOrNot DEF Meant
  <2> HIDE DEF v
  <2> QED
    BY <1>2, <2>1, <2>3 DEF GoodConfig
<1> QED
  BY <1>1, <1>2

LEMMA SavedGood == ASSUME NEW cfg PROVE GoodFile(SaveFile(cfg))
<1>1. SaveFile(cfg) = [i \in DOMAIN Table |-> SaveFile(cfg)[i]]
  BY DEF SaveFile
<1> QED
  BY <1>1, TableFile

\* No command leaves anything else.
LEMMA OutcomeGood ==
    ASSUME NEW cfg, NEW lv, NEW fs, NEW argv,
           GoodConfig(cfg), GoodLevels(lv), \A p \in DOMAIN fs : GoodFile(fs[p]),
           NEW r \in CommandParser([config |-> cfg, level |-> lv, files |-> fs], argv)
    PROVE  GoodState(r.st)
<1> DEFINE st == [config |-> cfg, level |-> lv, files |-> fs]
<1>1. /\ GoodState(st)
      /\ \A x : GoodConfig(x) => GoodState([st EXCEPT !.config = x])
      /\ \A x : GoodLevels(x) => GoodState([st EXCEPT !.level = x])
      /\ \A x : (\A p \in DOMAIN x : GoodFile(x[p])) => GoodState([st EXCEPT !.files = x])
  BY DEF GoodState
<1>2. ASSUME NEW now, GoodState(now), NEW words,
             r \in {OK(now, words), ERR(now, words), DATA(now, words)}
      PROVE  GoodState(r.st)
  <2>1. r.st = now
    BY <1>2 DEF OK, ERR, DATA, Result
  <2> QED
    BY <1>2, <2>1
<1>3. ASSUME r \in CmdConfig(st, argv) PROVE GoodState(r.st)
  <2>1. ASSUME r \in ConfigLoad(st, argv) PROVE GoodState(r.st)
    <3>1. CASE argv[3] \notin DOMAIN fs
      <4>1. r = ERR(st, "file")
        BY <2>1, <3>1 DEF ConfigLoad
      <4> HIDE DEF st
      <4> QED
        BY <1>1, <1>2, <4>1
    <3>2. CASE argv[3] \in DOMAIN fs
      <4> DEFINE loaded == LoadConfig(fs, argv[3], <<>>).cfg
                 now == [st EXCEPT !.config = loaded]
      <4>1. GoodFile(<<>>)
        <5>1. <<>> \in Seq({})
          OBVIOUS
        <5> QED
          BY <5>1 DEF GoodFile
      <4>2. GoodConfig(loaded)
        BY <3>2, <4>1, LoadConfigGood
      <4>3. GoodState(now)
        <5> HIDE DEF loaded, st
        <5> QED
          BY <1>1, <4>2
      <4>4. r = Ends(st) \/ r = OK(now, argv)
        BY <2>1, <3>2 DEF ConfigLoad
      <4>5. Ends(st).st = st
        BY DEF Ends
      <4> HIDE DEF now, st
      <4>6. r = OK(now, argv) => GoodState(r.st)
        BY <1>2, <4>3
      <4> QED
        BY <1>1, <4>4, <4>5, <4>6
    <3> QED
      BY <3>1, <3>2
  <2>2. ASSUME r = ConfigDump(st, argv) PROVE GoodState(r.st)
    <3> DEFINE x == WithFile(fs, argv[3], SaveFile(cfg))
               now == [st EXCEPT !.files = x]
    <3>1. r = ERR(st, "file") \/ r = OK(now, argv)
      BY <2>2 DEF ConfigDump
    <3>2. \A p \in DOMAIN x : GoodFile(x[p])
      BY SavedGood DEF WithFile
    <3>3. GoodState(now)
      <4> HIDE DEF x, st
      <4> QED
        BY <1>1, <3>2
    <3> HIDE DEF now, st
    <3>4. r = OK(now, argv) => GoodState(r.st)
      BY <1>2, <3>3
    <3>5. r = ERR(st, "file") => GoodState(r.st)
      BY <1>1, <1>2
    <3> QED
      BY <3>1, <3>4, <3>5
  <2>3. ASSUME r = ConfigSet(st, argv) PROVE GoodState(r.st)
    <3> DEFINE x == ProcessKV(cfg, <<argv[3], argv[4]>>, argv[5]).cfg
               now == [st EXCEPT !.config = x]
    <3>1. r = ERR(now, "value") \/ r = OK(now, argv)
      BY <2>3 DEF ConfigSet
    <3>2. GoodConfig(x)
      BY SetGood
    <3>3. GoodState(now)
      <4> HIDE DEF x, st
      <4> QED
        BY <1>1, <3>2
    <3> HIDE DEF now, st
    <3>4. r = OK(now, argv) => GoodState(r.st)
      BY <1>2, <3>3
    <3>5. r = ERR(now, "value") => GoodState(r.st)
      BY <1>2, <3>3
    <3> QED
      BY <3>1, <3>4, <3>5
  <2>4. ASSUME r = ConfigGet(st, argv) PROVE GoodState(r.st)
    <3> HIDE DEF st
    <3>1. \E words : r = ERR(st, words) \/ r = DATA(st, words)
      BY <2>4 DEF ConfigGet
    <3> QED
      BY <1>1, <1>2, <3>1
  <2>5. DOMAIN ArgCount = {"load", "reload", "dump", "save", "set", "get"}
    BY DEF ArgCount
  <2> HIDE DEF st
  <2> QED
    BY <1>1, <1>2, <1>3, <2>1, <2>2, <2>3, <2>4, <2>5 DEF CmdConfig
<1>4. ASSUME r = CmdLogging(st, argv) PROVE GoodState(r.st)
  <2>1. ASSUME r = LoggingShow(st, argv) PROVE GoodState(r.st)
    <3> HIDE DEF st
    <3> QED
      BY <1>1, <1>2, <2>1 DEF LoggingShow
  <2>2. ASSUME r = LoggingSet(st, argv) PROVE GoodState(r.st)
    <3>1. \/ \E reason : r = ERR(st, reason)
          \/ r = OK([st EXCEPT !.level[Global] = argv[3]], argv) /\ argv[3] \in Levels
          \/ /\ r = OK([st EXCEPT !.level[argv[3]] = argv[4]], argv)
             /\ argv[3] \in Modules /\ argv[4] \in Levels \cup {NOTSET}
      <4> HIDE DEF st
      <4> QED
        BY <2>2 DEF LoggingSet
    <3>2. \A i, x : [st EXCEPT !.level[i] = x] = [st EXCEPT !.level = [lv EXCEPT ![i] = x]]
      OBVIOUS
    <3>3. ASSUME NEW i \in Modules \cup {Global}, NEW x \in Levels \cup {NOTSET},
                 r = OK([st EXCEPT !.level[i] = x], argv)
          PROVE  GoodState(r.st)
      <4> DEFINE y == [lv EXCEPT ![i] = x]
                 now == [st EXCEPT !.level = y]
      <4>1. GoodLevels(y)
        BY DEF GoodLevels
      <4>2. r = OK(now, argv)
        BY <3>2, <3>3, Zenon
      <4>3. GoodState(now)
        <5> HIDE DEF y, st
        <5> QED
          BY <1>1, <4>1
      <4> HIDE DEF now
      <4> QED
        BY <1>2, <4>2, <4>3
    <3> HIDE DEF st
    <3>4. CASE \E reason : r = ERR(st, reason)
      BY <1>1, <1>2, <3>4
    <3> QED
      BY <3>1, <3>3, <3>4, Zenon
  <2> HIDE DEF st
  <2> QED
    BY <1>1, <1>2, <1>4, <2>1, <2>2 DEF CmdLogging
<1> HIDE DEF st
<1>5. r \in CommandParser(st, argv)
  BY DEF st
<1> QED
  BY <1>1, <1>2, <1>3, <1>4, <1>5 DEF CommandParser

\* The configuration, the levels and the files the daemon has.
Kept ==
    /\ GoodConfig(config) /\ GoodLevels(level)
    /\ \A p \in DOMAIN files : GoodFile(files[p])

LEMMA StartGood ==
    ASSUME NEW options \in Options, Start(options).ok
    PROVE  GoodConfig(Start(options).cfg)
<1> DEFINE saved == [i \in DOMAIN options |-> SaveOverride(options[i])]
           lines == [i \in DOMAIN options |-> saved[i].line]
<1>1. Start(options) = NoFile \/ Start(options) = LoadConfig(InitialFiles, SystemFile, lines)
  BY DEF Start
<1>2. ~NoFile.ok
  BY DEF NoFile
<1> HIDE DEF saved
<1>3. SystemFile \in DOMAIN InitialFiles /\ Start(options) = LoadConfig(InitialFiles, SystemFile, lines)
  <2> HIDE DEF lines
  <2> QED
    BY <1>1, <1>2 DEF LoadConfig
<1>4. GoodFile(lines)
  <2>1. options \in Seq(Seq(STRING))
    BY TextsAssumption
  <2> DEFINE n == Len(options)
             X == {lines[i] : i \in 1..n}
  <2>2. n \in Nat /\ DOMAIN options = 1..n
    BY <2>1
  <2>3. lines \in [1..n -> X]
    BY <2>2
  <2>4. lines \in Seq(X)
    <3> HIDE DEF X, n, lines
    <3> QED
      BY <2>2, <2>3, SeqDef
  <2> HIDE DEF X, lines
  <2> QED
    BY <2>4 DEF GoodFile
<1>5. GoodFile(InitialFiles[SystemFile])
  BY <1>3, TextsAssumption DEF GoodFile
<1> HIDE DEF lines
<1> QED
  BY <1>3, <1>4, <1>5, LoadConfigGood

LEMMA KeptInit == Init => Kept
<1> SUFFICES ASSUME Init PROVE Kept
  OBVIOUS
<1>1. GoodConfig(config)
  BY StartGood DEF Init
<1>2. GoodLevels(level)
  BY DEF Init, GoodLevels, Levels
<1>3. \A p \in DOMAIN files : GoodFile(files[p])
  BY TextsAssumption DEF Init, GoodFile
<1> QED
  BY <1>1, <1>2, <1>3 DEF Kept

LEMMA KeptStep == Kept /\ [Next]_cvars => Kept'
<1> SUFFICES ASSUME Kept, [Next]_cvars PROVE Kept'
  OBVIOUS
<1>1. CASE UNCHANGED daemonState
  BY <1>1 DEF daemonState, Kept
<1>2. ASSUME NEW c \in Clients, Execute(c), ~UNCHANGED daemonState PROVE Kept'
  <2>1. PICK r \in CommandParser([config |-> config, level |-> level, files |-> files],
                                 SplitArgs(inbox[c])) :
           config' = r.st.config /\ level' = r.st.level /\ files' = r.st.files
    BY <1>2 DEF Execute, Terminated
  <2>2. GoodState(r.st)
    BY <2>1, OutcomeGood DEF Kept
  <2> QED
    BY <2>1, <2>2 DEF Kept, GoodState
<1>3. CASE Reset
  BY <1>3, DefaultsGood DEF Reset, Kept
<1>4. CASE Reload
  <2>1. CASE Terminated
    BY <1>1, <2>1 DEF Terminated
  <2>2. CASE ~Terminated
    <3>1. /\ SystemFile \in DOMAIN files /\ config' = LoadLines(config, files[SystemFile])
          /\ UNCHANGED <<level, files>>
      BY <1>4, <2>2 DEF Reload
    <3>2. GoodConfig(LoadLines(config, files[SystemFile]))
      BY <3>1, LoadLinesGood DEF Kept
    <3> QED
      BY <3>1, <3>2 DEF Kept
  <2> QED
    BY <2>1, <2>2
<1>5. \/ UNCHANGED daemonState \/ Reset \/ Reload
      \/ \E c \in Clients : Execute(c)
  BY DEF Next, Client, Dial, Receive, HangUp, Send, Server, Poll, Register, Deregister,
         Answer, End, Terminated, cvars
<1> QED
  BY <1>1, <1>2, <1>3, <1>4, <1>5

\* What is left of the type invariant.
RestType ==
    /\ \A e \in events : /\ e.slot \in Slots \cup {0} /\ e.fd \in Clients \cup {Listener}
                         /\ e.event \in {"in", "hup"}
    /\ reply = NoReply \/ reply[1] \in Clients
    /\ DOMAIN inbox = Clients /\ DOMAIN outbox = Clients /\ DOMAIN asked = Clients
    /\ reloading \in BOOLEAN /\ running \in BOOLEAN

LEMMA RestInit == Init => RestType
  BY DEF Init, RestType

LEMMA RestStep == ConnType /\ RestType /\ [Next]_cvars => RestType'
<1> SUFFICES ASSUME ConnType, RestType, [Next]_cvars PROVE RestType'
  OBVIOUS
<1> USE DEF RestType
<1>1. ASSUME NEW c \in DOMAIN repertoire, Client(c) PROVE RestType'
  BY <1>1 DEF Client, Dial, Receive, HangUp, Send, serverVars
<1>2. CASE Poll
  <2>1. ASSUME NEW e \in events'
        PROVE  e.slot \in Slots \cup {0} /\ e.fd \in Clients \cup {Listener} /\ e.event \in {"in", "hup"}
    <3>1. PICK p \in Polled(client_fd) :
             Event(p.fd) # "none" /\ e = [slot |-> p.slot, fd |-> p.fd, event |-> Event(p.fd)]
      BY <1>2 DEF Poll
    <3>2. p.slot \in Slots \cup {0} /\ p.fd \in Clients \cup {Listener}
      BY DEF Polled, ConnType
    <3>3. Event(p.fd) \in {"in", "hup"}
      BY <3>1 DEF Event
    <3> QED
      BY <3>1, <3>2, <3>3
  <2> QED
    BY <1>2, <2>1 DEF Poll, clientVars
<1>3. CASE Terminated
  BY <1>3 DEF Terminated, clientVars
<1>4. CASE Register
  BY <1>4 DEF Register, clientVars
<1>5. ASSUME NEW c \in Clients, Deregister(c) PROVE RestType'
  BY <1>5 DEF Deregister, clientVars
<1>6. ASSUME NEW c \in Clients, Execute(c) PROVE RestType'
  <2>1. \/ Terminated
        \/ /\ events' \subseteq events /\ \E a : reply' = <<c, a>>
           /\ inbox' = [inbox EXCEPT ![c] = <<>>]
           /\ UNCHANGED <<outbox, clientVars, reloading, running>>
    BY <1>6 DEF Execute
  <2> QED
    BY <1>3, <2>1 DEF clientVars
<1>7. CASE Answer
  BY <1>7 DEF Answer, clientVars
<1>8. CASE Reset \/ Reload \/ End
  BY <1>3, <1>8 DEF Reset, Reload, End, serverVars, clientVars
<1>9. CASE UNCHANGED cvars
  BY <1>9 DEF cvars, serverVars, clientVars
<1> QED
  BY <1>1, <1>2, <1>4, <1>5, <1>6, <1>7, <1>8, <1>9 DEF Next, Server

\* Every variable of the server, its clients and its configuration keeps its type, also
\* when a file is loaded or a client sets a value.
THEOREM Typed == Spec => []TypeOK
<1>1. IInv /\ Kept /\ RestType => TypeOK
  <2> SUFFICES ASSUME IInv, Kept, RestType PROVE TypeOK
    OBVIOUS
  <2>1. \A n \in Names : TypeOf[n] = "bool" => config[n] \in BOOLEAN
    BY BoolMeant DEF Kept, GoodConfig
  <2>2. \A i \in DOMAIN backlog : backlog[i] \in Clients
    BY DEF IInv, ConnType
  <2> QED
    BY <2>1, <2>2 DEF TypeOK, IInv, ConnType, RestType, Kept, GoodLevels
<1>2. IInv => ConnType
  BY DEF IInv
<1> QED
  BY InitOK, StepOK, KeptInit, KeptStep, RestInit, RestStep, <1>1, <1>2, PTL DEF Spec

\* What a client reads of a setting it can set again, and a configuration that was saved
\* is the one that is loaded, whatever files, overrides and commands made it.
THEOREM SavedIsLoaded == Spec => []DumpLoads
<1>1. ASSUME Kept PROVE DumpLoads
  <2> DEFINE KeptNames == {n \in Names : TypeOf[n] # "clock_format"}
             saved == LoadConfig([p \in {"saved"} |-> SaveFile(config)], "saved", <<>>)
  <2>1. ASSUME NEW n \in KeptNames
        PROVE  Parse(TypeOf[n], DumpText(TypeOf[n], config[n])) = Yields(config[n])
    BY <1>1, TypesAgree, DumpParses DEF Kept, GoodConfig
  <2>2. ASSUME NEW n \in KeptNames
        PROVE  ProcessKV(config, n, GetParam(config, n)) = [ok |-> TRUE, cfg |-> config]
    <3> DEFINE v == Parse(TypeOf[n], GetParam(config, n))
    <3>1. v = Yields(config[n])
      BY <2>1 DEF GetParam
    <3>2. v.ok /\ v.value = config[n]
      BY <3>1 DEF Yields
    <3>3. [config EXCEPT ![n] = config[n]] = config
      BY <1>1 DEF Kept, GoodConfig
    <3>4. ProcessKV(config, n, GetParam(config, n)) = [ok |-> TRUE, cfg |-> [config EXCEPT ![n] = v.value]]
      BY <3>2 DEF ProcessKV
    <3> HIDE DEF v
    <3> QED
      BY <3>2, <3>3, <3>4
  <2>3. saved = StrictLines(LoadLines(Defaults, SaveFile(config)), <<>>)
    BY DEF LoadConfig, LoadFile
  <2>4. \A n \in Names : saved.cfg[n] = LoadLines(Defaults, SaveFile(config))[n]
    <3> DEFINE cfg == LoadLines(Defaults, SaveFile(config))
               none == <<>>
    <3>1. DOMAIN none = {}
      OBVIOUS
    <3>2. StrictLines(cfg, none).cfg = LoadLines(cfg, none)
      <4> HIDE DEF none, cfg
      <4> QED
        BY <3>1 DEF StrictLines
    <3>3. \A n \in Names : LoadLines(cfg, none)[n] = cfg[n]
      <4> HIDE DEF none, cfg
      <4> QED
        BY <3>1 DEF LoadLines
    <3>4. saved = StrictLines(cfg, none)
      BY <2>3
    <3> HIDE DEF cfg, none, saved
    <3>5. \A n \in Names : saved.cfg[n] = cfg[n]
      BY <3>2, <3>3, <3>4
    <3> QED
      BY <3>5 DEF cfg
  <2>5. ASSUME NEW n \in KeptNames
        PROVE  LoadLines(Defaults, SaveFile(config))[n] = config[n]
    <3> DEFINE lines == SaveFile(config)
               text == DumpText(TypeOf[n], config[n])
               now == LoadLines(Defaults, lines)[n]
    <3>1. DOMAIN lines = 1..27 /\ \A i \in 1..27 : lines[i].name = Table[i].name
                                    /\ lines[i].text = DumpText(Table[i].type, config[Table[i].name])
      BY TableTypes DEF SaveFile
    <3>2. ASSUME NEW i \in 1..27, lines[i].name = n PROVE lines[i].text = text
      <4>1. Table[i].name = n /\ lines[i].text = DumpText(Table[i].type, config[Table[i].name])
        BY <3>1, <3>2
      <4>2. Table[i].type = TypeOf[n]
        BY <4>1, TypesAgree
      <4> QED
        BY <4>1, <4>2, Zenon
    <3>3. PICK k \in 1..27 : lines[k].name = n
      BY <3>1, TypesAgree
    <3>4. Parse(TypeOf[n], text).ok /\ Parse(TypeOf[n], text).value = config[n]
      <4>1. Parse(TypeOf[n], text) = Yields(config[n])
        BY <2>1
      <4> HIDE DEF text
      <4> QED
        BY <4>1 DEF Yields
    <3> DEFINE good == {i \in DOMAIN lines : lines[i].name = n /\ Parse(TypeOf[n], lines[i].text).ok}
    <3>5. now = IF good = {} THEN Defaults[n] ELSE Parse(TypeOf[n], lines[Max(good)].text).value
      BY DEF LoadLines
    <3> HIDE DEF lines, text, now
    <3>6. k \in good
      BY <3>1, <3>2, <3>3, <3>4
    <3>7. good \in SUBSET (1..27)
      BY <3>1
    <3>8. Max(good) \in good
      <4> HIDE DEF good
      <4> QED
        BY <3>6, <3>7, MaxIn
    <3>9. lines[Max(good)].text = text
      BY <3>1, <3>2, <3>8
    <3>10. now = config[n]
      <4> HIDE DEF good
      <4> QED
        BY <3>4, <3>5, <3>6, <3>9
    <3> QED
      BY <3>10 DEF now, lines
  <2> HIDE DEF saved
  <2>6. \A n \in KeptNames : saved.cfg[n] = config[n]
    BY <2>4, <2>5
  <2> QED
    BY <2>2, <2>6 DEF DumpLoads, saved
<1> QED
  BY <1>1, KeptInit, KeptStep, PTL DEF Spec

-----------------------------------------------------------------------------
(* The format of a command on its way.                                     *)

\* The bytes of words: the words, and the NUL that ends each.
Bytes(W) == W \cup {NUL}

\* The client's loop: every word is put behind those before it, with its NUL.
LEMMA FormatLoop ==
    ASSUME NEW W, NUL \notin W, NEW words \in Seq(W)
    PROVE  \E buffer \in [0..Len(words) -> Seq(Bytes(W))] :
              /\ FormatCommand(words) = buffer[Len(words)]
              /\ buffer[0] = <<>>
              /\ \A n \in 1..Len(words) : buffer[n] = buffer[n - 1] \o Ended(words[n])
<1> DEFINE N == Len(words)
           V == Seq(Bytes(W))
           empty == <<>>
           round == [n \in 1..N |-> [b \in V |-> b \o Ended(words[n])]]
           Is(b) == b = [n \in 0..N |-> IF n = 0 THEN empty ELSE b[n - 1] \o Ended(words[n])]
<1>1. N \in Nat /\ empty \in V
  OBVIOUS
<1>2. \A n \in 1..N : Ended(words[n]) \in V
  <2> SUFFICES ASSUME NEW n \in 1..N PROVE Ended(words[n]) \in V
    OBVIOUS
  <2>1. words[n] \in Bytes(W) /\ NUL \in Bytes(W)
    BY DEF Bytes
  <2>2. <<NUL>> \in V /\ <<words[n], NUL>> \in V
    BY <2>1
  <2> HIDE DEF V
  <2>3. Ended(words[n]) = <<NUL>> \/ Ended(words[n]) = <<words[n], NUL>>
    BY Zenon DEF Ended
  <2> QED
    BY <2>2, <2>3, Zenon
<1>3. \A n \in 1..N : \A b \in V : b \o Ended(words[n]) \in V
  <2> SUFFICES ASSUME NEW n \in 1..N, NEW b \in V PROVE b \o Ended(words[n]) \in V
    OBVIOUS
  <2>1. Ended(words[n]) \in V
    BY <1>2
  <2> QED
    BY <2>1
<1> HIDE DEF N, V, empty
<1>4. PICK v : Runs(v, N, V, empty, round)
  <2>1. round \in [1..N -> [V -> V]]
    BY <1>3
  <2> HIDE DEF round
  <2> QED
    BY <1>1, <2>1, LoopExists
<1>5. /\ v \in [0..N -> V] /\ v[0] = empty
      /\ \A n \in 1..N : v[n] = v[n - 1] \o Ended(words[n])
  <2>1. v \in [0..N -> V] /\ v[0] = empty /\ \A n \in 1..N : v[n] = round[n][v[n - 1]]
    BY <1>4 DEF Runs
  <2>2. ASSUME NEW n \in 1..N PROVE v[n] = v[n - 1] \o Ended(words[n])
    <3>1. n - 1 \in 0..N
      BY <1>1
    <3>2. v[n - 1] \in V
      BY <2>1, <3>1
    <3> QED
      BY <2>1, <3>2
  <2> QED
    BY <2>1, <2>2
<1>6. Is(v)
  <2> DEFINE w == [n \in 0..N |-> IF n = 0 THEN empty ELSE v[n - 1] \o Ended(words[n])]
  <2>1. ASSUME NEW n \in 0..N PROVE v[n] = w[n]
    <3>1. CASE n = 0
      BY <1>5, <3>1
    <3>2. CASE n # 0
      <4>1. n \in 1..N
        BY <1>1, <3>2
      <4> QED
        BY <1>5, <3>2, <4>1
    <3> QED
      BY <3>1, <3>2
  <2>2. v = w
    <3>1. DOMAIN w = 0..N /\ w = [n \in 0..N |-> w[n]]
      OBVIOUS
    <3>2. DOMAIN v = 0..N /\ v = [n \in 0..N |-> v[n]]
      BY <1>5
    <3> HIDE DEF w
    <3> QED
      BY <2>1, <3>1, <3>2, Zenon
  <2> QED
    BY <2>2
<1>7. PICK b : b = (CHOOSE x : Is(x)) /\ Is(b)
  <2> HIDE DEF Is
  <2> QED
    BY <1>6
<1>8. FormatCommand(words) = b[N]
  BY <1>7 DEF FormatCommand, N, empty
<1>9. /\ b[0] = empty
      /\ \A n \in 1..N : b[n] = b[n - 1] \o Ended(words[n])
  <2>1. Is(b)
    BY <1>7
  <2>2. 0 \in 0..N
    BY <1>1
  <2>3. b[0] = empty
    BY <2>1, <2>2
  <2>4. ASSUME NEW n \in 1..N PROVE b[n] = b[n - 1] \o Ended(words[n])
    <3>1. n \in 0..N /\ n # 0
      BY <1>1
    <3> QED
      BY <2>1, <3>1
  <2> QED
    BY <2>3, <2>4
<1>10. b = v
  <2> DEFINE Same == {k \in 0..N : b[k] = v[k]}
  <2>1. 0 \in Same
    BY <1>1, <1>5, <1>9
  <2>2. ASSUME NEW k \in 0..(N - 1), k \in Same PROVE k + 1 \in Same
    <3>1. k + 1 \in 1..N /\ (k + 1) - 1 = k
      BY <1>1
    <3>2. b[k + 1] = b[k] \o Ended(words[k + 1]) /\ v[k + 1] = v[k] \o Ended(words[k + 1])
      BY <1>5, <1>9, <3>1
    <3>3. b[k + 1] = v[k + 1]
      BY <2>2, <3>2
    <3> QED
      BY <3>1, <3>3
  <2>3. \A k \in 0..N : k \in Same
    <3> HIDE DEF Same
    <3> QED
      BY <1>1, <2>1, <2>2, EachRound
  <2>4. b = [n \in 0..N |-> b[n]]
    <3>1. DOMAIN b = 0..N
      BY <1>7
    <3>2. b = [n \in DOMAIN b |-> b[n]]
      BY <1>7
    <3> QED
      BY <3>1, <3>2, Zenon
  <2>5. v = [n \in 0..N |-> v[n]]
    BY <1>5
  <2>6. \A n \in 0..N : b[n] = v[n]
    BY <2>3
  <2> QED
    BY <2>4, <2>5, <2>6, Zenon
<1> QED
  BY <1>5, <1>8, <1>10 DEF N, V, empty

\* The server's loop over the bytes: which words begin up to each.
Splits(argv, bytes) ==
    /\ SplitArgs(bytes) = argv[Len(bytes)]
    /\ argv[0] = <<>>
    /\ \A i \in 1..Len(bytes) :
          argv[i] = IF i = 1 \/ bytes[i - 1] = NUL
                    THEN Append(argv[i - 1], IF bytes[i] = NUL THEN "" ELSE bytes[i])
                    ELSE argv[i - 1]

LEMMA SplitLoop ==
    ASSUME NEW B, NEW bytes \in Seq(B)
    PROVE  \E argv : Splits(argv, bytes)
<1> DEFINE N == Len(bytes)
           V == Seq({bytes[i] : i \in 1..N} \cup {""})
           empty == <<>>
           word(i) == IF bytes[i] = NUL THEN "" ELSE bytes[i]
           round == [i \in 1..N |-> [a \in V |->
                        IF i = 1 \/ bytes[i - 1] = NUL THEN Append(a, word(i)) ELSE a]]
           Is(a) == a = [i \in 0..N |-> IF i = 0 THEN empty
                                        ELSE IF i = 1 \/ bytes[i - 1] = NUL
                                        THEN Append(a[i - 1], word(i)) ELSE a[i - 1]]
<1>1. N \in Nat /\ empty \in V
  OBVIOUS
<1>2. \A i \in 1..N : \A a \in V : Append(a, word(i)) \in V
  <2> SUFFICES ASSUME NEW i \in 1..N, NEW a \in V PROVE Append(a, word(i)) \in V
    OBVIOUS
  <2> DEFINE T == {bytes[k] : k \in 1..N} \cup {""}
  <2>1. word(i) \in T
    <3>1. bytes[i] \in T /\ "" \in T
      OBVIOUS
    <3> HIDE DEF T
    <3> QED
      BY <3>1, Zenon
  <2> HIDE DEF T, word
  <2>2. a \in Seq(T) /\ V = Seq(T)
    BY DEF T
  <2> HIDE DEF V
  <2> QED
    BY <2>1, <2>2
<1> HIDE DEF N, V, empty, word
<1>3. PICK v : Runs(v, N, V, empty, round)
  <2>1. round \in [1..N -> [V -> V]]
    BY <1>2
  <2> HIDE DEF round
  <2> QED
    BY <1>1, <2>1, LoopExists
<1>4. Is(v)
  <2> DEFINE w == [i \in 0..N |-> IF i = 0 THEN empty
                                  ELSE IF i = 1 \/ bytes[i - 1] = NUL
                                  THEN Append(v[i - 1], word(i)) ELSE v[i - 1]]
  <2>1. v \in [0..N -> V] /\ v[0] = empty /\ \A i \in 1..N : v[i] = round[i][v[i - 1]]
    BY <1>3 DEF Runs
  <2>2. ASSUME NEW n \in 0..N PROVE v[n] = w[n]
    <3>1. CASE n = 0
      BY <2>1, <3>1
    <3>2. CASE n # 0
      <4>1. n \in 1..N /\ n - 1 \in 0..N
        BY <1>1, <3>2
      <4>2. v[n - 1] \in V
        BY <2>1, <4>1
      <4> QED
        BY <2>1, <3>2, <4>1, <4>2
    <3> QED
      BY <3>1, <3>2
  <2>3. v = w
    <3>1. DOMAIN w = 0..N /\ w = [n \in 0..N |-> w[n]]
      OBVIOUS
    <3> HIDE DEF w
    <3> QED
      BY <2>1, <2>2, <3>1
  <2> QED
    BY <2>3
<1>5. PICK a : a = (CHOOSE x : Is(x)) /\ Is(a)
  <2> HIDE DEF Is
  <2> QED
    BY <1>4
<1>6. SplitArgs(bytes) = a[N]
  BY <1>5 DEF SplitArgs, N, empty, word
<1>7. a[0] = empty
  <2>1. 0 \in 0..N
    BY <1>1
  <2>2. Is(a)
    BY <1>5
  <2> QED
    BY <2>1, <2>2, Zenon
<1>8. \A i \in 1..N : a[i] = IF i = 1 \/ bytes[i - 1] = NUL THEN Append(a[i - 1], word(i)) ELSE a[i - 1]
  <2> SUFFICES ASSUME NEW i \in 1..N
               PROVE  a[i] = IF i = 1 \/ bytes[i - 1] = NUL THEN Append(a[i - 1], word(i)) ELSE a[i - 1]
    OBVIOUS
  <2>1. i \in 0..N /\ i # 0
    BY <1>1
  <2>2. Is(a)
    BY <1>5
  <2> QED
    BY <2>1, <2>2, Zenon
<1>9. Splits(a, bytes)
  BY <1>6, <1>7, <1>8 DEF N, empty, word, Splits
<1> QED
  BY <1>9

\* A sequence behind which there is one more element, or two.
LEMMA OneMore ==
    ASSUME NEW T, NEW s \in Seq(T), NEW a \in T
    PROVE  /\ s \o <<a>> \in Seq(T) /\ Len(s \o <<a>>) = Len(s) + 1
           /\ \A i \in 1..Len(s) : (s \o <<a>>)[i] = s[i]
           /\ (s \o <<a>>)[Len(s) + 1] = a
  OBVIOUS

LEMMA TwoMore ==
    ASSUME NEW T, NEW s \in Seq(T), NEW a \in T, NEW b \in T
    PROVE  /\ s \o <<a, b>> \in Seq(T) /\ Len(s \o <<a, b>>) = Len(s) + 2
           /\ \A i \in 1..Len(s) : (s \o <<a, b>>)[i] = s[i]
           /\ (s \o <<a, b>>)[Len(s) + 1] = a /\ (s \o <<a, b>>)[Len(s) + 2] = b
  OBVIOUS

\* What the client formats is what the server splits, empty words and all, for any words
\* without a NUL (x52d_format_command, x52d_split_args).
THEOREM RoundTrip ==
    ASSUME NEW W, NUL \notin W, NEW words \in Seq(W)
    PROVE  SplitArgs(FormatCommand(words)) = words
<1> DEFINE N == Len(words)
<1>1. N \in Nat
  OBVIOUS
<1>2. PICK B \in [0..N -> Seq(Bytes(W))] :
              /\ FormatCommand(words) = B[N]
              /\ B[0] = <<>>
              /\ \A n \in 1..N : B[n] = B[n - 1] \o Ended(words[n])
  BY FormatLoop
<1> DEFINE bytes == B[N]
<1>3. bytes \in Seq(Bytes(W))
  BY <1>1, <1>2
<1>0. PICK A : Splits(A, bytes)
  <2> HIDE DEF bytes
  <2> QED
    BY <1>3, SplitLoop
<1>4. /\ SplitArgs(bytes) = A[Len(bytes)]
      /\ A[0] = <<>>
      /\ \A i \in 1..Len(bytes) :
            A[i] = IF i = 1 \/ bytes[i - 1] = NUL
                   THEN Append(A[i - 1], IF bytes[i] = NUL THEN "" ELSE bytes[i])
                   ELSE A[i - 1]
  <2> HIDE DEF bytes
  <2> QED
    BY <1>0 DEF Splits
<1> HIDE DEF N
\* Each round appends one word and its NUL.
<1>5. ASSUME NEW k \in 0..(N - 1)
      PROVE  /\ B[k] \in Seq(Bytes(W)) /\ B[k + 1] \in Seq(Bytes(W))
             /\ \A i \in 1..Len(B[k]) : B[k + 1][i] = B[k][i]
             /\ B[k + 1][Len(B[k + 1])] = NUL
             /\ \/ words[k + 1] = "" /\ Len(B[k + 1]) = Len(B[k]) + 1
                \/ /\ words[k + 1] # "" /\ Len(B[k + 1]) = Len(B[k]) + 2
                   /\ B[k + 1][Len(B[k]) + 1] = words[k + 1]
  <2>1. k + 1 \in 1..N /\ (k + 1) - 1 = k /\ k \in 0..N /\ k + 1 \in 0..N
    BY <1>1
  <2>2. B[k] \in Seq(Bytes(W)) /\ B[k + 1] \in Seq(Bytes(W))
    BY <1>2, <2>1
  <2>3. B[k + 1] = B[k] \o Ended(words[k + 1])
    BY <1>2, <2>1
  <2>4. CASE words[k + 1] = ""
    <3>1. B[k + 1] = B[k] \o <<NUL>>
      BY <2>3, <2>4, Zenon DEF Ended
    <3>2. NUL \in Bytes(W)
      BY DEF Bytes
    <3>3. /\ Len(B[k + 1]) = Len(B[k]) + 1
          /\ \A i \in 1..Len(B[k]) : B[k + 1][i] = B[k][i]
          /\ B[k + 1][Len(B[k]) + 1] = NUL
      <4> DEFINE t == B[k]
      <4>1. t \in Seq(Bytes(W)) /\ NUL \in Bytes(W)
        BY <2>2, <3>2
      <4> HIDE DEF t
      <4>2. /\ Len(t \o <<NUL>>) = Len(t) + 1
            /\ \A i \in 1..Len(t) : (t \o <<NUL>>)[i] = t[i]
            /\ (t \o <<NUL>>)[Len(t) + 1] = NUL
        BY <4>1, OneMore
      <4>3. B[k + 1] = t \o <<NUL>>
        BY <3>1 DEF t
      <4>4. t = B[k]
        BY DEF t
      <4> QED
        BY <4>2, <4>3, <4>4, Zenon
    <3> QED
      BY <2>2, <2>4, <3>3, Zenon
  <2>5. CASE words[k + 1] # ""
    <3>1. B[k + 1] = B[k] \o <<words[k + 1], NUL>>
      BY <2>3, <2>5, Zenon DEF Ended
    <3>2. NUL \in Bytes(W) /\ words[k + 1] \in Bytes(W)
      BY <2>1 DEF Bytes, N
    <3>3. /\ Len(B[k + 1]) = Len(B[k]) + 2
          /\ \A i \in 1..Len(B[k]) : B[k + 1][i] = B[k][i]
          /\ B[k + 1][Len(B[k]) + 1] = words[k + 1]
          /\ B[k + 1][Len(B[k]) + 2] = NUL
      <4> DEFINE t == B[k]
                 u == words[k + 1]
      <4>1. t \in Seq(Bytes(W)) /\ u \in Bytes(W) /\ NUL \in Bytes(W)
        BY <2>2, <3>2
      <4> HIDE DEF t, u
      <4>2. /\ Len(t \o <<u, NUL>>) = Len(t) + 2
            /\ \A i \in 1..Len(t) : (t \o <<u, NUL>>)[i] = t[i]
            /\ (t \o <<u, NUL>>)[Len(t) + 1] = u /\ (t \o <<u, NUL>>)[Len(t) + 2] = NUL
        BY <4>1, TwoMore
      <4>3. B[k + 1] = t \o <<u, NUL>>
        BY <3>1 DEF t, u
      <4>4. t = B[k] /\ u = words[k + 1]
        BY DEF t, u
      <4> QED
        BY <4>2, <4>3, <4>4, Zenon
    <3> QED
      BY <2>2, <2>5, <3>3, Zenon
  <2> QED
    BY <2>4, <2>5
\* What is formatted first comes first.
<1>6. \A k \in 0..N : Len(B[k]) <= Len(bytes) /\ \A i \in 1..Len(B[k]) : bytes[i] = B[k][i]
  <2> DEFINE Prefix(k) == Len(B[k]) <= Len(bytes) /\ \A i \in 1..Len(B[k]) : bytes[i] = B[k][i]
             Left == {j \in 0..N : Prefix(N - j)}
  <2>1. 0 \in Left
    BY <1>1, <1>3
  <2>2. ASSUME NEW j \in 0..(N - 1), j \in Left PROVE j + 1 \in Left
    <3>1. N - (j + 1) \in 0..(N - 1) /\ (N - (j + 1)) + 1 = N - j /\ j + 1 \in 0..N
      BY <1>1
    <3> DEFINE k == N - (j + 1)
    <3>2. k \in 0..(N - 1) /\ Prefix(k + 1)
      BY <2>2, <3>1
    <3> HIDE DEF k
    <3>3. Prefix(k)
      <4>1. Len(B[k]) \in Nat /\ Len(B[k + 1]) \in Nat /\ Len(bytes) \in Nat
        <5>1. B[k] \in Seq(Bytes(W)) /\ B[k + 1] \in Seq(Bytes(W))
          BY <1>5, <3>2
        <5> HIDE DEF bytes
        <5> QED
          BY <1>3, <5>1
      <4>2. Len(B[k + 1]) = Len(B[k]) + 1 \/ Len(B[k + 1]) = Len(B[k]) + 2
        BY <1>5, <3>2
      <4>3. \A i \in 1..Len(B[k]) : B[k + 1][i] = B[k][i]
        BY <1>5, <3>2
      <4>4. Len(B[k + 1]) <= Len(bytes) /\ \A i \in 1..Len(B[k + 1]) : bytes[i] = B[k + 1][i]
        BY <3>2
      <4> HIDE DEF bytes
      <4> QED
        BY <4>1, <4>2, <4>3, <4>4, SMTT(20)
    <3> QED
      BY <3>1, <3>3 DEF k
  <2>3. \A j \in 0..N : j \in Left
    <3> HIDE DEF Left
    <3> QED
      BY <1>1, <2>1, <2>2, EachRound
  <2>4. ASSUME NEW k \in 0..N PROVE Prefix(k)
    <3>1. N - k \in 0..N /\ N - (N - k) = k
      BY <1>1
    <3>2. Prefix(N - (N - k))
      BY <2>3, <3>1
    <3> QED
      BY <3>1, <3>2
  <2> QED
    BY <2>4
<1> DEFINE Split == {k \in 0..N : A[Len(B[k])] = SubSeq(words, 1, k)}
<1>7. 0 \in Split
  <2>1. Len(B[0]) = 0
    BY <1>2
  <2>2. SubSeq(words, 1, 0) = <<>>
    OBVIOUS
  <2>3. A[Len(B[0])] = SubSeq(words, 1, 0)
    BY <1>4, <2>1, <2>2, Zenon
  <2> QED
    BY <1>1, <2>3
<1>8. ASSUME NEW k \in 0..(N - 1), k \in Split PROVE k + 1 \in Split
  <2> DEFINE p == Len(B[k])
             w == words[k + 1]
  <2>1. k \in 0..N /\ k + 1 \in 0..N /\ w \in W
    BY <1>1 DEF N
  <2>2. /\ p \in Nat /\ Len(bytes) \in Nat
        /\ p + 1 \in 1..Len(B[k + 1]) /\ p + 1 \in 1..Len(bytes)
    <3>1. B[k] \in Seq(Bytes(W)) /\ B[k + 1] \in Seq(Bytes(W)) /\ bytes \in Seq(Bytes(W))
      BY <1>3, <1>5
    <3>2. Len(B[k + 1]) = Len(B[k]) + 1 \/ Len(B[k + 1]) = Len(B[k]) + 2
      BY <1>5
    <3>3. Len(B[k + 1]) <= Len(bytes)
      BY <1>6, <2>1
    <3> HIDE DEF bytes
    <3>4. Len(B[k]) \in Nat /\ Len(B[k + 1]) \in Nat /\ Len(bytes) \in Nat
      BY <3>1
    <3> QED
      BY <3>2, <3>3, <3>4
  <2>3. p + 1 = 1 \/ bytes[(p + 1) - 1] = NUL
    <3>1. CASE k = 0
      BY <1>2, <3>1
    <3>2. CASE k # 0
      <4>1. k - 1 \in 0..(N - 1) /\ (k - 1) + 1 = k
        BY <1>1, <3>2
      <4>2. B[k][p] = NUL /\ p >= 1
        <5>1. /\ B[(k - 1) + 1][Len(B[(k - 1) + 1])] = NUL
              /\ B[k - 1] \in Seq(Bytes(W))
              /\ \/ Len(B[(k - 1) + 1]) = Len(B[k - 1]) + 1
                 \/ Len(B[(k - 1) + 1]) = Len(B[k - 1]) + 2
          BY <1>5, <4>1
        <5>2. Len(B[k - 1]) \in Nat
          BY <5>1
        <5>3. B[k][Len(B[k])] = NUL /\ (Len(B[k]) = Len(B[k - 1]) + 1 \/ Len(B[k]) = Len(B[k - 1]) + 2)
          BY <4>1, <5>1, Zenon
        <5> QED
          BY <5>2, <5>3
      <4>3. bytes[p] = B[k][p]
        BY <1>6, <2>1, <2>2, <4>2, SMTT(20)
      <4> QED
        BY <2>2, <4>2, <4>3
    <3> QED
      BY <3>1, <3>2
  <2>4. (IF bytes[p + 1] = NUL THEN "" ELSE bytes[p + 1]) = w
    <3>2. bytes[p + 1] = B[k + 1][p + 1]
      BY <1>6, <2>1, <2>2
    <3>3. CASE w = ""
      <4>1. B[k + 1][p + 1] = NUL
        BY <1>5, <3>3
      <4> QED
        BY <3>2, <3>3, <4>1, Zenon
    <3>4. CASE w # ""
      <4>1. B[k + 1][p + 1] = w
        BY <1>5, <3>4
      <4>2. w # NUL
        BY <2>1
      <4> QED
        BY <3>2, <4>1, <4>2, Zenon
    <3> QED
      BY <3>3, <3>4
  <2>5. A[p + 1] = Append(A[p], w)
    <3>1. A[p + 1] = IF p + 1 = 1 \/ bytes[(p + 1) - 1] = NUL
                     THEN Append(A[(p + 1) - 1], IF bytes[p + 1] = NUL THEN "" ELSE bytes[p + 1])
                     ELSE A[(p + 1) - 1]
      BY <1>4, <2>2
    <3>2. (p + 1) - 1 = p
      BY <2>2
    <3> HIDE DEF p, w, bytes
    <3>3. A[p + 1] = Append(A[(p + 1) - 1], IF bytes[p + 1] = NUL THEN "" ELSE bytes[p + 1])
      BY <2>3, <3>1, Zenon
    <3> QED
      BY <2>4, <3>2, <3>3, Zenon
  <2>6. A[Len(B[k + 1])] = A[p + 1]
    <3>1. CASE w = ""
      BY <1>5, <3>1
    <3>2. CASE w # ""
      <4>1. Len(B[k + 1]) = p + 2 /\ B[k + 1][p + 1] = w /\ w # NUL
        BY <1>5, <2>1, <3>2
      <4>2. p + 2 \in 1..Len(bytes) /\ bytes[p + 1] = w
        BY <1>6, <2>1, <2>2, <4>1
      <4>3. A[p + 2] = IF p + 2 = 1 \/ bytes[(p + 2) - 1] = NUL
                       THEN Append(A[(p + 2) - 1], IF bytes[p + 2] = NUL THEN "" ELSE bytes[p + 2])
                       ELSE A[(p + 2) - 1]
        BY <1>4, <4>2
      <4>4. (p + 2) - 1 = p + 1 /\ p + 2 # 1
        BY <2>2
      <4> HIDE DEF p, w, bytes
      <4> QED
        BY <4>1, <4>2, <4>3, <4>4, Zenon
    <3> QED
      BY <3>1, <3>2
  <2>7. Append(SubSeq(words, 1, k), w) = SubSeq(words, 1, k + 1)
    BY <1>1, <2>1 DEF N
  <2>8. A[Len(B[k + 1])] = SubSeq(words, 1, k + 1)
    <3>1. A[p] = SubSeq(words, 1, k)
      BY <1>8
    <3> HIDE DEF p, w
    <3> QED
      BY <2>5, <2>6, <2>7, <3>1, Zenon
  <2> QED
    BY <2>1, <2>8
<1>9. \A k \in 0..N : k \in Split
  <2> HIDE DEF Split
  <2> QED
    BY <1>1, <1>7, <1>8, EachRound
<1>10. A[Len(bytes)] = SubSeq(words, 1, N)
  BY <1>1, <1>9
<1>11. SubSeq(words, 1, N) = words
  BY <1>1 DEF N
<1> QED
  BY <1>2, <1>4, <1>10, <1>11, Zenon

-----------------------------------------------------------------------------
(* What is on its way between a client and the daemon.                     *)

USE CommandServerAssumption, ClientListAssumption DEF Slots

\* The commands that clients may send.
Commands == (UNION {UNION Range(r) : r \in Repertoires}) \ {<<>>}

Answering(c) == reply # NoReply /\ reply[1] = c

\* A command that was not read is the one its client waits for, or waited for when it
\* left, as the client formatted it.
Unread(c) == inbox[c] # <<>> =>
    /\ socket[c] \in {"backlog", "open"} /\ peer[c] \in {"waiting", "gone"}
    /\ asked[c] \in Commands /\ inbox[c] = FormatCommand(asked[c])
    /\ outbox[c] = <<>> /\ ~Answering(c)

\* An answer that was not read is the only one, and its client waits for it.
Unfetched(c) == outbox[c] # <<>> =>
    /\ \E a : a # NoReply /\ outbox[c] = <<a>>
    /\ peer[c] = "waiting" /\ ~Answering(c)

\* The answer being sent is for a client that is connected and asked.
Underway == reply # NoReply =>
    /\ \E c \in Clients : \E a : a # NoReply /\ reply = <<c, a>>
    /\ running /\ socket[reply[1]] = "open" /\ peer[reply[1]] \in {"waiting", "gone"}

Talk ==
    /\ DOMAIN inbox = Clients /\ DOMAIN outbox = Clients /\ DOMAIN asked = Clients
    /\ repertoire \in Repertoires
    /\ ~running => \A c \in Clients : socket[c] \in {"none", "closed"}
    /\ \A c \in Clients : Unread(c) /\ Unfetched(c)
    /\ Underway
    /\ \A e, f \in events : e.fd = f.fd => e = f
    /\ \A e \in events : e.fd # Listener /\ e.event = "in" => inbox[e.fd] # <<>>

\* A command is not empty on its way.
LEMMA FormatNotEmpty ==
    ASSUME NEW W, NUL \notin W, NEW words \in Seq(W), words # <<>>
    PROVE  FormatCommand(words) # <<>>
<1> SUFFICES ASSUME FormatCommand(words) = <<>> PROVE FALSE
  OBVIOUS
<1>1. SplitArgs(<<>>) = words
  BY RoundTrip
<1>2. <<>> \in Seq({NUL})
  OBVIOUS
<1> DEFINE none == <<>>
<1>3. none \in Seq({NUL}) /\ Len(none) = 0
  OBVIOUS
<1>4. SplitArgs(none) = <<>>
  <2> HIDE DEF none
  <2>1. PICK argv : Splits(argv, none)
    BY <1>3, SplitLoop
  <2>2. SplitArgs(none) = argv[Len(none)] /\ argv[0] = <<>>
    BY <2>1, Zenon DEF Splits
  <2> QED
    BY <1>3, <2>2, Zenon
<1> QED
  BY <1>1, <1>4, Zenon

\* Words of C have no NUL in them.
LEMMA CommandWords ==
    ASSUME NEW words \in Commands
    PROVE  words \in Seq(STRING \ {NUL}) /\ words # <<>>
<1>1. PICK rep \in Repertoires : words \in UNION Range(rep)
  BY DEF Commands
<1>2. PICK c \in DOMAIN rep : words \in rep[c]
  BY <1>1 DEF Range
<1>3. words \in Seq(STRING \ {NUL})
  BY <1>2, WordsAssumption
<1>4. words # <<>>
  <2> DEFINE X == UNION {UNION Range(r) : r \in Repertoires}
  <2>1. words \in X \ {<<>>}
    BY DEF Commands
  <2> HIDE DEF X
  <2> QED
    BY <2>1
<1> QED
  BY <1>3, <1>4

\* So commands arrive as they were formatted.
LEMMA CommandsSplit ==
    ASSUME NEW words \in Commands
    PROVE  /\ SplitArgs(FormatCommand(words)) = words
           /\ FormatCommand(words) # <<>> /\ <<>> \o FormatCommand(words) = FormatCommand(words)
<1> DEFINE W == STRING \ {NUL}
<1>1. words \in Seq(W) /\ words # <<>> /\ NUL \notin W
  BY CommandWords
<1> HIDE DEF W
<1>2. PICK buffer \in [0..Len(words) -> Seq(Bytes(W))] : FormatCommand(words) = buffer[Len(words)]
  BY <1>1, FormatLoop
<1>3. FormatCommand(words) \in Seq(Bytes(W))
  BY <1>1, <1>2
<1>4. <<>> \o FormatCommand(words) = FormatCommand(words)
  BY <1>3
<1> QED
  BY <1>1, <1>4, RoundTrip, FormatNotEmpty

LEMMA SentIsCommand ==
    ASSUME repertoire \in Repertoires, NEW c \in DOMAIN repertoire,
           NEW words \in repertoire[c], ~Unsendable(words)
    PROVE  words \in Commands
<1>1. words # <<>>
  BY Zenon DEF Unsendable
<1>2. words \in UNION Range(repertoire)
  BY DEF Range
<1> DEFINE X == UNION {UNION Range(r) : r \in Repertoires}
<1>3. words \in X
  BY <1>2
<1>4. words \in X \ {<<>>}
  <2> HIDE DEF X
  <2> QED
    BY <1>1, <1>3
<1> QED
  BY <1>4 DEF Commands

LEMMA TalkInit == Init => Talk
<1> SUFFICES ASSUME Init PROVE Talk
  OBVIOUS
<1>1. ASSUME NEW c \in Clients PROVE Unread(c) /\ Unfetched(c)
  BY DEF Init, Unread, Unfetched
<1>2. Underway
  BY DEF Init, Underway
<1> QED
  BY <1>1, <1>2 DEF Init, Talk

\* A client for which nothing changes.
LEMMA SameTalk ==
    ASSUME NEW c \in Clients, Unread(c), Unfetched(c),
           inbox'[c] = inbox[c], outbox'[c] = outbox[c], asked'[c] = asked[c],
           socket'[c] = socket[c], peer'[c] = peer[c], Answering(c)' => Answering(c)
    PROVE  (Unread(c) /\ Unfetched(c))'
  BY DEF Unread, Unfetched

LEMMA DialTalk == ASSUME IInv, Talk, NEW c \in DOMAIN repertoire, Dial(c) PROVE Talk'
<1>1. /\ running /\ c \in Clients /\ peer[c] = "new" /\ socket[c] = "none"
      /\ socket' = [socket EXCEPT ![c] = "backlog"] /\ peer' = [peer EXCEPT ![c] = "idle"]
      /\ UNCHANGED <<inbox, outbox, asked, repertoire, running, reply, events>>
  BY DEF Dial, IInv, ConnType, QueueOK, serverVars
<1>2. ASSUME NEW d \in Clients PROVE (Unread(d) /\ Unfetched(d))'
  <2>1. CASE d = c
    BY <1>1, <2>1 DEF Talk, Unread, Unfetched
  <2>2. CASE d # c
    <3>1. socket'[d] = socket[d] /\ peer'[d] = peer[d]
      BY <1>1, <2>2 DEF IInv, ConnType
    <3> QED
      BY <1>1, <3>1, SameTalk DEF Talk, Answering
  <2> QED
    BY <2>1, <2>2
<1>3. Underway'
  BY <1>1 DEF Talk, Underway, IInv, ConnType
<1> QED
  BY <1>1, <1>2, <1>3 DEF Talk

LEMMA SendTalk ==
    ASSUME IInv, Talk, NEW c \in DOMAIN repertoire, NEW words \in repertoire[c], Send(c, words)
    PROVE  Talk'
<1>1. /\ c \in Clients /\ peer[c] = "idle" /\ repertoire \in Repertoires
      /\ UNCHANGED <<socket, outbox, repertoire, running, reply, events>>
  BY DEF Send, IInv, ConnType, Talk, serverVars
<1>2. inbox[c] = <<>> /\ outbox[c] = <<>> /\ ~Answering(c)
  <2>1. inbox[c] = <<>> /\ outbox[c] = <<>>
    BY <1>1 DEF Talk, Unread, Unfetched
  <2>2. ~Answering(c)
    BY <1>1 DEF Talk, Answering, Underway
  <2> QED
    BY <2>1, <2>2
<1>3. \/ peer' = [peer EXCEPT ![c] = "failed"] /\ UNCHANGED <<inbox, asked>>
      \/ /\ socket[c] \in {"backlog", "open"} /\ words \in Commands
         /\ inbox' = [inbox EXCEPT ![c] = inbox[c] \o FormatCommand(words)]
         /\ asked' = [asked EXCEPT ![c] = words] /\ peer' = [peer EXCEPT ![c] = "waiting"]
  BY <1>1, SentIsCommand DEF Send
<1>4. inbox'[c] # <<>> =>
         /\ socket[c] \in {"backlog", "open"} /\ peer'[c] = "waiting"
         /\ asked'[c] \in Commands /\ inbox'[c] = FormatCommand(asked'[c])
  <2>1. CASE inbox' = inbox
    BY <1>2, <2>1
  <2>2. CASE /\ socket[c] \in {"backlog", "open"} /\ words \in Commands
             /\ inbox' = [inbox EXCEPT ![c] = inbox[c] \o FormatCommand(words)]
             /\ asked' = [asked EXCEPT ![c] = words] /\ peer' = [peer EXCEPT ![c] = "waiting"]
    <3>1. inbox'[c] = inbox[c] \o FormatCommand(words)
      BY <1>1, <2>2 DEF Talk
    <3>2. inbox'[c] = FormatCommand(words)
      <4>1. inbox'[c] = <<>> \o FormatCommand(words)
        BY <1>2, <3>1, Zenon
      <4> QED
        BY <2>2, <4>1, CommandsSplit
    <3>3. asked'[c] = words /\ peer'[c] = "waiting"
      BY <1>1, <2>2 DEF Talk, IInv, ConnType
    <3> QED
      BY <2>2, <3>2, <3>3, Zenon
  <2> QED
    BY <1>3, <2>1, <2>2
<1>5. ASSUME NEW d \in Clients PROVE (Unread(d) /\ Unfetched(d))'
  <2>1. CASE d = c
    <3>1. Unread(c)'
      BY <1>1, <1>2, <1>4 DEF Unread, Answering
    <3>2. Unfetched(c)'
      BY <1>1, <1>2 DEF Unfetched
    <3> QED
      BY <2>1, <3>1, <3>2
  <2>2. CASE d # c
    <3>1. inbox'[d] = inbox[d] /\ asked'[d] = asked[d] /\ peer'[d] = peer[d]
      BY <1>1, <1>3, <2>2 DEF IInv, ConnType, Talk
    <3> QED
      BY <1>1, <3>1, SameTalk DEF Talk, Answering
  <2> QED
    BY <2>1, <2>2
<1>6. Underway'
  <2>1. reply # NoReply => reply[1] # c /\ peer'[reply[1]] = peer[reply[1]]
    BY <1>1, <1>2, <1>3 DEF IInv, ConnType, Talk, Underway, Answering
  <2> QED
    BY <1>1, <2>1 DEF Talk, Underway
<1>7. DOMAIN inbox' = Clients /\ DOMAIN asked' = Clients
  BY <1>3 DEF Talk
<1>8. \A e \in events' : e.fd # Listener /\ e.event = "in" => inbox'[e.fd] # <<>>
  <2> SUFFICES ASSUME NEW e \in events, e.fd # Listener, e.event = "in" PROVE inbox'[e.fd] # <<>>
    BY <1>1
  <2>1. e.fd \in Clients /\ inbox[e.fd] # <<>> /\ e.fd # c
    BY <1>2 DEF IInv, EventsOK, Talk
  <2>2. inbox'[e.fd] = inbox[e.fd]
    BY <1>3, <2>1 DEF Talk
  <2> QED
    BY <2>1, <2>2
<1> QED
  BY <1>1, <1>5, <1>6, <1>7, <1>8 DEF Talk

\* What was put into an outbox comes out of it.
LEMMA ReceiveTalk == ASSUME IInv, Talk, NEW c \in DOMAIN repertoire, Receive(c) PROVE Talk'
<1>1. /\ c \in Clients /\ peer[c] = "waiting"
      /\ UNCHANGED <<socket, inbox, repertoire, running, reply, events>>
      /\ asked' = [asked EXCEPT ![c] = <<>>]
      /\ \E s \in {"idle", "failed"} : peer' = [peer EXCEPT ![c] = s]
  BY DEF Receive, IInv, ConnType, serverVars
<1>2. \/ outbox[c] # <<>> /\ outbox' = [outbox EXCEPT ![c] = Tail(outbox[c])]
      \/ outbox[c] = <<>> /\ socket[c] = "closed" /\ outbox' = outbox
  BY DEF Receive
<1>3. inbox[c] = <<>> /\ ~Answering(c)
  <2>1. CASE outbox[c] # <<>>
    BY <1>1, <2>1 DEF Talk, Unread, Unfetched
  <2>2. CASE outbox[c] = <<>> /\ socket[c] = "closed"
    BY <1>1, <2>2 DEF Talk, Unread, Underway, Answering
  <2> QED
    BY <1>2, <2>1, <2>2
<1>4. outbox'[c] = <<>> /\ DOMAIN outbox' = Clients /\ DOMAIN asked' = Clients
  <2>1. CASE outbox[c] # <<>> /\ outbox' = [outbox EXCEPT ![c] = Tail(outbox[c])]
    <3>1. PICK a : outbox[c] = <<a>>
      BY <1>1, <2>1 DEF Talk, Unfetched
    <3>2. outbox'[c] = Tail(outbox[c])
      BY <1>1, <2>1 DEF Talk
    <3>3. outbox'[c] = <<>>
      BY <3>1, <3>2, Single, Zenon
    <3> QED
      BY <1>1, <2>1, <3>3 DEF Talk
  <2>2. CASE outbox[c] = <<>> /\ outbox' = outbox
    BY <1>1, <2>2 DEF Talk
  <2> QED
    BY <1>2, <2>1, <2>2
<1>5. ASSUME NEW d \in Clients PROVE (Unread(d) /\ Unfetched(d))'
  <2>1. CASE d = c
    BY <1>1, <1>3, <1>4, <2>1 DEF Unread, Unfetched
  <2>2. CASE d # c
    <3>1. outbox'[d] = outbox[d] /\ asked'[d] = asked[d] /\ peer'[d] = peer[d]
      BY <1>1, <1>2, <2>2 DEF IInv, ConnType, Talk
    <3> QED
      BY <1>1, <3>1, SameTalk DEF Talk, Answering
  <2> QED
    BY <2>1, <2>2
<1>6. Underway'
  <2>1. reply # NoReply => reply[1] # c /\ peer'[reply[1]] = peer[reply[1]]
    BY <1>1, <1>3 DEF IInv, ConnType, Talk, Underway, Answering
  <2> QED
    BY <1>1, <2>1 DEF Talk, Underway
<1> QED
  BY <1>1, <1>4, <1>5, <1>6 DEF Talk

LEMMA HangUpTalk == ASSUME IInv, Talk, NEW c \in DOMAIN repertoire, HangUp(c) PROVE Talk'
<1>1. /\ c \in Clients /\ peer[c] \in {"idle", "waiting", "failed"}
      /\ UNCHANGED <<socket, inbox, asked, repertoire, running, reply, events>>
      /\ peer' = [peer EXCEPT ![c] = "gone"] /\ outbox' = [outbox EXCEPT ![c] = <<>>]
  BY DEF HangUp, IInv, ConnType, serverVars
<1>2. ASSUME NEW d \in Clients PROVE (Unread(d) /\ Unfetched(d))'
  <2>1. CASE d = c
    <3>1. outbox'[c] = <<>> /\ peer'[c] = "gone"
      BY <1>1 DEF IInv, ConnType, Talk
    <3> QED
      BY <1>1, <2>1, <3>1 DEF Talk, Unread, Unfetched, Answering
  <2>2. CASE d # c
    <3>1. outbox'[d] = outbox[d] /\ peer'[d] = peer[d]
      BY <1>1, <2>2 DEF IInv, ConnType, Talk
    <3> QED
      BY <1>1, <3>1, SameTalk DEF Talk, Answering
  <2> QED
    BY <2>1, <2>2
<1>3. Underway'
  BY <1>1 DEF IInv, ConnType, Talk, Underway
<1> QED
  BY <1>1, <1>2, <1>3 DEF Talk

LEMMA PollTalk == ASSUME IInv, Talk, Poll PROVE Talk'
<1>1. UNCHANGED <<client_fd, reply, clientVars, socket, inbox, outbox, running>>
  BY DEF Poll
<1>2. ASSUME NEW e \in events'
      PROVE  /\ e.event = Event(e.fd)
             /\ [slot |-> e.slot, fd |-> e.fd] \in Polled(client_fd)
             /\ e = [slot |-> e.slot, fd |-> e.fd, event |-> e.event]
  <2>1. PICK p \in Polled(client_fd) : e = [slot |-> p.slot, fd |-> p.fd, event |-> Event(p.fd)]
    BY DEF Poll
  <2>2. p = [slot |-> p.slot, fd |-> p.fd]
    BY DEF Polled
  <2> QED
    BY <2>1, <2>2
<1>3. ASSUME NEW p \in Polled(client_fd), NEW q \in Polled(client_fd), p.fd = q.fd PROVE p = q
  <2>1. \/ p = [slot |-> 0, fd |-> Listener]
        \/ \E i \in Slots : p = [slot |-> i, fd |-> client_fd[i]] /\ client_fd[i] # INVALID_CLIENT
    BY DEF Polled
  <2>2. \/ q = [slot |-> 0, fd |-> Listener]
        \/ \E i \in Slots : q = [slot |-> i, fd |-> client_fd[i]] /\ client_fd[i] # INVALID_CLIENT
    BY DEF Polled
  <2>3. \A i \in Slots : client_fd[i] # Listener \/ client_fd[i] = INVALID_CLIENT
    BY DEF IInv, ConnType
  <2>4. \A i, j \in Slots : client_fd[i] = client_fd[j] => i = j \/ client_fd[i] = INVALID_CLIENT
    BY DEF IInv, TableMatches
  <2> QED
    BY <1>3, <2>1, <2>2, <2>3, <2>4
<1>4. \A e, f \in events' : e.fd = f.fd => e = f
  <2> SUFFICES ASSUME NEW e \in events', NEW f \in events', e.fd = f.fd PROVE e = f
    OBVIOUS
  <2>1. [slot |-> e.slot, fd |-> e.fd] = [slot |-> f.slot, fd |-> f.fd]
    <3>1. [slot |-> e.slot, fd |-> e.fd].fd = [slot |-> f.slot, fd |-> f.fd].fd
      OBVIOUS
    <3> QED
      BY <1>2, <1>3, <3>1
  <2>2. e.slot = f.slot
    BY <2>1
  <2>3. e.event = f.event
    BY <1>2
  <2> QED
    BY <1>2, <2>2, <2>3
<1>5. \A e \in events' : e.fd # Listener /\ e.event = "in" => inbox'[e.fd] # <<>>
  BY <1>1, <1>2 DEF Event
<1>6. \A d \in Clients : (Unread(d) /\ Unfetched(d))'
  BY <1>1, SameTalk DEF Talk, Answering, clientVars
<1>7. Underway'
  BY <1>1 DEF Talk, Underway, clientVars
<1> QED
  BY <1>1, <1>4, <1>5, <1>6, <1>7 DEF Talk, clientVars

\* A connection that is not read any more: turned away, or hung up.
LEMMA DropTalk ==
    ASSUME IInv, Talk, NEW c \in Clients, reply = NoReply, reply' = NoReply,
           socket' = [socket EXCEPT ![c] = "closed"], inbox' = [inbox EXCEPT ![c] = <<>>],
           events' \subseteq events, \A e \in events' : e.fd # c,
           UNCHANGED <<outbox, clientVars, running>>
    PROVE  Talk'
<1>1. ASSUME NEW d \in Clients PROVE (Unread(d) /\ Unfetched(d))'
  <2>1. CASE d = c
    <3>1. inbox'[c] = <<>>
      BY DEF Talk
    <3> QED
      BY <2>1, <3>1 DEF Talk, Unread, Unfetched, Answering, clientVars
  <2>2. CASE d # c
    <3>1. inbox'[d] = inbox[d] /\ socket'[d] = socket[d]
      BY <2>2 DEF IInv, ConnType, Talk
    <3> QED
      BY <3>1, SameTalk DEF Talk, Answering, clientVars
  <2> QED
    BY <2>1, <2>2
<1>2. Underway'
  BY DEF Underway
<1>3. \A e \in events' : e.fd # Listener /\ e.event = "in" => inbox'[e.fd] # <<>>
  BY DEF Talk, IInv, EventsOK
<1>4. ~running' => \A d \in Clients : socket'[d] \in {"none", "closed"}
  BY DEF Talk, IInv, ConnType
<1> QED
  BY <1>1, <1>2, <1>3, <1>4 DEF Talk, clientVars

LEMMA RegisterTalk == ASSUME IInv, Talk, Register PROVE Talk'
<1> DEFINE c == Head(backlog)
<1>1. /\ First(events) \in events /\ First(events).fd = Listener /\ First(events).event = "in"
      /\ events' = events \ {First(events)} /\ running /\ reply = NoReply
      /\ UNCHANGED <<reply, outbox, clientVars, running>>
  BY FirstEvent DEF Register, At, IInv
<1>2. c \in Clients /\ socket[c] = "backlog"
  <2>1. backlog # <<>> /\ backlog \in Seq(Clients)
    BY <1>1 DEF IInv, EventsOK, ConnType
  <2>2. c = backlog[1] /\ c \in Clients /\ 1 \in 1..Len(backlog)
    BY <2>1
  <2> QED
    BY <2>2 DEF IInv, QueueOK
<1>3. \A e \in events' : e.fd # c
  BY <1>1, <1>2 DEF IInv, EventsOK
<1>4. CASE FreeSlots(client_fd) # {}
  <2>1. socket' = [socket EXCEPT ![c] = "open"] /\ inbox' = inbox
    BY <1>4 DEF Register
  <2> HIDE DEF c
  <2>2. ASSUME NEW d \in Clients PROVE (Unread(d) /\ Unfetched(d))'
    <3>1. CASE d = c
      BY <1>1, <1>2, <2>1, <3>1 DEF IInv, ConnType, Talk, Unread, Unfetched, Answering, clientVars
    <3>2. CASE d # c
      <4>1. socket'[d] = socket[d]
        BY <2>1, <3>2 DEF IInv, ConnType
      <4> QED
        BY <1>1, <2>1, <4>1, SameTalk DEF Talk, Answering, clientVars
    <3> QED
      BY <3>1, <3>2
  <2>3. Underway'
    BY <1>1 DEF Underway
  <2> QED
    BY <1>1, <2>1, <2>2, <2>3 DEF Talk, clientVars
<1>5. CASE FreeSlots(client_fd) = {}
  <2>1. socket' = [socket EXCEPT ![c] = "closed"] /\ inbox' = [inbox EXCEPT ![c] = <<>>]
    BY <1>5 DEF Register
  <2> HIDE DEF c
  <2> QED
    BY <1>1, <1>2, <1>3, <2>1, DropTalk
<1> QED
  BY <1>4, <1>5

LEMMA DeregisterTalk == ASSUME IInv, Talk, NEW c \in Clients, Deregister(c) PROVE Talk'
<1>1. /\ First(events) \in events /\ First(events).fd = c
      /\ events' = events \ {First(events)} /\ running /\ reply = NoReply
  BY FirstEvent DEF Deregister, At, IInv
<1>2. \A e \in events' : e.fd # c
  BY <1>1 DEF Talk
<1> QED
  BY <1>1, <1>2, DropTalk DEF Deregister

LEMMA TerminatedTalk == ASSUME IInv, Talk, Terminated PROVE Talk'
<1>1. /\ running' = FALSE /\ events' = {} /\ reply' = NoReply
      /\ socket' = [c \in Clients |-> IF socket[c] = "none" THEN "none" ELSE "closed"]
      /\ inbox' = [c \in Clients |-> <<>>] /\ UNCHANGED <<outbox, clientVars>>
  BY DEF Terminated
<1>2. ASSUME NEW d \in Clients PROVE (Unread(d) /\ Unfetched(d))'
  BY <1>1 DEF Talk, Unread, Unfetched, Answering, clientVars
<1>3. Underway'
  BY <1>1 DEF Underway
<1>4. \A d \in Clients : socket'[d] \in {"none", "closed"}
  BY <1>1
<1> QED
  BY <1>1, <1>2, <1>3, <1>4 DEF Talk, clientVars

\* What a client has been told of its command is not nothing.
LEMMA AnswerNotEmpty ==
    ASSUME NEW st, NEW argv, NEW r \in CommandParser(st, argv), ~r.ends
    PROVE  r.answer # NoReply
<1>1. ASSUME NEW now, NEW type, NEW words, r = Result(now, type, words) PROVE r.answer # NoReply
  BY <1>1 DEF Result, NoReply
<1>2. ASSUME NEW now, NEW words, r \in {OK(now, words), ERR(now, words), DATA(now, words)}
      PROVE  r.answer # NoReply
  BY <1>1, <1>2 DEF OK, ERR, DATA
<1>3. ASSUME r \in CmdConfig(st, argv) PROVE r.answer # NoReply
  <2>1. ASSUME r \in ConfigLoad(st, argv) PROVE r.answer # NoReply
    <3>1. r # Ends(st)
      BY DEF Ends
    <3>2. \E now, words : r \in {OK(now, words), ERR(now, words)}
      BY <2>1, <3>1 DEF ConfigLoad
    <3> QED
      BY <1>2, <3>2
  <2>2. ASSUME r = ConfigDump(st, argv) PROVE r.answer # NoReply
    <3> DEFINE now == [st EXCEPT !.files = WithFile(st.files, argv[3], SaveFile(st.config))]
    <3>1. r = ERR(st, "file") \/ r = OK(now, argv)
      BY <2>2 DEF ConfigDump
    <3> HIDE DEF now
    <3> QED
      BY <1>2, <3>1
  <2>3. ASSUME r = ConfigGet(st, argv) PROVE r.answer # NoReply
    BY <1>2, <2>3 DEF ConfigGet
  <2>4. ASSUME r = ConfigSet(st, argv) PROVE r.answer # NoReply
    BY <1>2, <2>4 DEF ConfigSet
  <2>5. DOMAIN ArgCount = {"load", "reload", "dump", "save", "set", "get"}
    BY DEF ArgCount
  <2> QED
    BY <1>2, <1>3, <2>1, <2>2, <2>3, <2>4, <2>5 DEF CmdConfig
<1>4. ASSUME r = CmdLogging(st, argv) PROVE r.answer # NoReply
  <2>1. ASSUME r = LoggingShow(st, argv) PROVE r.answer # NoReply
    BY <1>2, <2>1 DEF LoggingShow
  <2>2. ASSUME r = LoggingSet(st, argv) PROVE r.answer # NoReply
    BY <1>2, <2>2 DEF LoggingSet
  <2> QED
    BY <1>2, <1>4, <2>1, <2>2 DEF CmdLogging
<1> QED
  BY <1>2, <1>3, <1>4 DEF CommandParser

\* The state a command leaves has the parts it had.
LEMMA OutcomeShape ==
    ASSUME NEW cfg, NEW lv, NEW fs, NEW argv,
           NEW r \in CommandParser([config |-> cfg, level |-> lv, files |-> fs], argv)
    PROVE  r.st = [config |-> r.st.config, level |-> r.st.level, files |-> r.st.files]
<1> DEFINE st == [config |-> cfg, level |-> lv, files |-> fs]
           Shape(x) == x = [config |-> x.config, level |-> x.level, files |-> x.files]
<1>1. /\ Shape(st)
      /\ \A x : Shape([st EXCEPT !.config = x])
      /\ \A x : Shape([st EXCEPT !.level = x])
      /\ \A x : Shape([st EXCEPT !.files = x])
  OBVIOUS
<1>2. ASSUME NEW now, Shape(now), NEW words,
             r \in {OK(now, words), ERR(now, words), DATA(now, words)}
      PROVE  Shape(r.st)
  <2>1. r.st = now
    BY <1>2 DEF OK, ERR, DATA, Result
  <2> QED
    BY <1>2, <2>1
<1>3. ASSUME r \in CmdConfig(st, argv) PROVE Shape(r.st)
  <2>1. ASSUME r \in ConfigLoad(st, argv) PROVE Shape(r.st)
    <3> DEFINE now == [st EXCEPT !.config = LoadConfig(st.files, argv[3], <<>>).cfg]
    <3>1. r = Ends(st) \/ r = ERR(st, "file") \/ r = OK(now, argv)
      BY <2>1 DEF ConfigLoad
    <3>2. Ends(st).st = st
      BY DEF Ends
    <3>3. Shape(now)
      BY <1>1
    <3> HIDE DEF now, st
    <3>4. r = OK(now, argv) => Shape(r.st)
      BY <1>2, <3>3
    <3>5. r = ERR(st, "file") => Shape(r.st)
      BY <1>1, <1>2
    <3> QED
      BY <1>1, <3>1, <3>2, <3>4, <3>5
  <2>2. ASSUME r = ConfigDump(st, argv) PROVE Shape(r.st)
    <3> DEFINE now == [st EXCEPT !.files = WithFile(st.files, argv[3], SaveFile(st.config))]
    <3>1. r = ERR(st, "file") \/ r = OK(now, argv)
      BY <2>2 DEF ConfigDump
    <3>2. Shape(now)
      BY <1>1
    <3> HIDE DEF now, st
    <3>3. r = OK(now, argv) => Shape(r.st)
      BY <1>2, <3>2
    <3>4. r = ERR(st, "file") => Shape(r.st)
      BY <1>1, <1>2
    <3> QED
      BY <3>1, <3>3, <3>4
  <2>3. ASSUME r = ConfigSet(st, argv) PROVE Shape(r.st)
    <3> DEFINE now == [st EXCEPT !.config = ProcessKV(st.config, <<argv[3], argv[4]>>, argv[5]).cfg]
    <3>1. r = ERR(now, "value") \/ r = OK(now, argv)
      BY <2>3 DEF ConfigSet
    <3>2. Shape(now)
      BY <1>1
    <3> HIDE DEF now, st
    <3>3. r = OK(now, argv) => Shape(r.st)
      BY <1>2, <3>2
    <3>4. r = ERR(now, "value") => Shape(r.st)
      BY <1>2, <3>2
    <3> QED
      BY <3>1, <3>3, <3>4
  <2>4. ASSUME r = ConfigGet(st, argv) PROVE Shape(r.st)
    <3> HIDE DEF st
    <3>1. \E words : r = ERR(st, words) \/ r = DATA(st, words)
      BY <2>4 DEF ConfigGet
    <3> QED
      BY <1>1, <1>2, <3>1
  <2>5. DOMAIN ArgCount = {"load", "reload", "dump", "save", "set", "get"}
    BY DEF ArgCount
  <2> HIDE DEF st
  <2> QED
    BY <1>1, <1>2, <1>3, <2>1, <2>2, <2>3, <2>4, <2>5 DEF CmdConfig
<1>4. ASSUME r = CmdLogging(st, argv) PROVE Shape(r.st)
  <2>1. ASSUME r = LoggingShow(st, argv) PROVE Shape(r.st)
    <3> HIDE DEF st
    <3> QED
      BY <1>1, <1>2, <2>1 DEF LoggingShow
  <2>2. ASSUME r = LoggingSet(st, argv) PROVE Shape(r.st)
    <3>1. \E x, words : \/ r = ERR(st, words)
                        \/ r = OK([st EXCEPT !.level = x], words)
      <4>1. \A i, x : [st EXCEPT !.level[i] = x] = [st EXCEPT !.level = [st.level EXCEPT ![i] = x]]
        OBVIOUS
      <4>2. \/ \E reason : r = ERR(st, reason)
            \/ r = OK([st EXCEPT !.level[Global] = argv[3]], argv)
            \/ r = OK([st EXCEPT !.level[argv[3]] = argv[4]], argv)
        <5> HIDE DEF st
        <5> QED
          BY <2>2 DEF LoggingSet
      <4> HIDE DEF st
      <4> QED
        BY <4>1, <4>2, Zenon DEF ERR
    <3>2. PICK x, words : r = ERR(st, words) \/ r = OK([st EXCEPT !.level = x], words)
      BY <3>1
    <3> DEFINE now == [st EXCEPT !.level = x]
    <3>3. Shape(now)
      BY <1>1
    <3> HIDE DEF now, st
    <3>4. r = OK(now, words) => Shape(r.st)
      BY <1>2, <3>3
    <3>5. r = ERR(st, words) => Shape(r.st)
      BY <1>1, <1>2
    <3> QED
      BY <3>2, <3>4, <3>5 DEF now
  <2> HIDE DEF st
  <2> QED
    BY <1>1, <1>2, <1>4, <2>1, <2>2 DEF CmdLogging
<1> HIDE DEF st
<1>5. r \in CommandParser(st, argv)
  BY DEF st
<1> QED
  BY <1>1, <1>2, <1>3, <1>4, <1>5 DEF CommandParser

LEMMA ExecuteTalk == ASSUME IInv, Talk, NEW c \in Clients, Execute(c) PROVE Talk'
<1>1. CASE Terminated
  BY <1>1, TerminatedTalk
<1>2. CASE ~Terminated
  <2>1. /\ First(events) \in events /\ First(events).fd = c /\ First(events).event = "in"
        /\ running /\ reply = NoReply
    BY FirstEvent DEF Execute, At, IInv
  <2>2. PICK r \in CommandParser([config |-> config, level |-> level, files |-> files],
                                 SplitArgs(inbox[c])) :
           /\ ~r.ends /\ reply' = <<c, r.answer>>
           /\ events' = events \ {First(events)}
           /\ inbox' = [inbox EXCEPT ![c] = <<>>]
           /\ UNCHANGED <<client_fd, socket, backlog, outbox, clientVars, reloading, running>>
    BY <1>2 DEF Execute
  <2>3. r.answer # NoReply /\ reply' # NoReply /\ reply'[1] = c
    BY <2>2, AnswerNotEmpty DEF NoReply
  <2>4. inbox[c] # <<>>
    BY <2>1 DEF Talk, IInv, EventsOK
  <2>5. socket[c] = "open" /\ peer[c] \in {"waiting", "gone"} /\ outbox[c] = <<>>
    BY <2>1, <2>4 DEF Talk, Unread, IInv, EventsOK
  <2>6. ASSUME NEW d \in Clients PROVE (Unread(d) /\ Unfetched(d))'
    <3>1. CASE d = c
      <4>1. inbox'[c] = <<>>
        BY <2>2 DEF Talk
      <4> QED
        BY <2>2, <2>5, <3>1, <4>1 DEF Unread, Unfetched
    <3>2. CASE d # c
      <4>1. inbox'[d] = inbox[d] /\ ~Answering(d)'
        BY <2>2, <2>3, <3>2 DEF Talk, Answering
      <4> QED
        BY <2>2, <4>1, SameTalk DEF Talk, clientVars
    <3> QED
      BY <3>1, <3>2
  <2>7. Underway'
    BY <2>1, <2>2, <2>3, <2>5 DEF Underway, clientVars
  <2>8. \A e \in events' : e.fd # Listener /\ e.event = "in" => inbox'[e.fd] # <<>>
    <3> SUFFICES ASSUME NEW e \in events', e.fd # Listener, e.event = "in" PROVE inbox'[e.fd] # <<>>
      OBVIOUS
    <3>1. e \in events /\ e # First(events)
      BY <2>2
    <3>2. e.fd # c /\ e.fd \in Clients /\ inbox[e.fd] # <<>>
      BY <2>1, <3>1 DEF Talk, IInv, EventsOK
    <3> QED
      BY <2>2, <3>2 DEF Talk
  <2> QED
    BY <2>2, <2>6, <2>7, <2>8 DEF Talk, clientVars
<1> QED
  BY <1>1, <1>2

LEMMA AnswerTalk == ASSUME IInv, Talk, Answer PROVE Talk'
<1>0. PICK c \in Clients : \E a : a # NoReply /\ reply = <<c, a>>
  BY DEF Answer, Talk, Underway
<1>1. PICK a : a # NoReply /\ reply = <<c, a>>
  BY <1>0
<1>2. /\ reply' = NoReply
      /\ outbox' = [outbox EXCEPT ![c] = IF peer[c] = "gone" THEN outbox[c] ELSE Append(outbox[c], a)]
      /\ UNCHANGED <<events, socket, inbox, clientVars, running>>
  BY <1>1 DEF Answer
<1>3. Answering(c) /\ inbox[c] = <<>> /\ outbox[c] = <<>> /\ peer[c] \in {"waiting", "gone"}
  <2>1. reply # NoReply /\ reply[1] = c
    BY <1>1 DEF Answer
  <2> QED
    BY <2>1 DEF Talk, Unread, Unfetched, Underway, Answering
<1>4. \/ outbox'[c] = <<>>
      \/ outbox'[c] = <<a>> /\ peer[c] = "waiting"
  <2>1. CASE peer[c] = "gone"
    BY <1>2, <1>3, <2>1 DEF Talk
  <2>2. CASE peer[c] # "gone"
    <3>1. outbox'[c] = Append(outbox[c], a)
      BY <1>2, <2>2 DEF Talk
    <3>2. outbox'[c] = <<a>>
      BY <1>3, <3>1, Single, Zenon
    <3> QED
      BY <1>3, <2>2, <3>2
  <2> QED
    BY <2>1, <2>2
<1>5. ASSUME NEW d \in Clients PROVE (Unread(d) /\ Unfetched(d))'
  <2>1. CASE d = c
    <3>1. ~Answering(d)' /\ inbox'[d] = <<>> /\ peer'[d] = peer[d]
      BY <1>2, <1>3, <2>1 DEF Answering, clientVars
    <3>2. Unread(d)'
      BY <3>1 DEF Unread
    <3>3. Unfetched(d)'
      BY <1>1, <1>4, <2>1, <3>1 DEF Unfetched
    <3> QED
      BY <3>2, <3>3
  <2>2. CASE d # c
    <3>1. outbox'[d] = outbox[d] /\ ~Answering(d)'
      BY <1>2, <2>2 DEF Talk, Answering
    <3> QED
      BY <1>2, <3>1, SameTalk DEF Talk, clientVars
  <2> QED
    BY <2>1, <2>2
<1>6. Underway'
  BY <1>2 DEF Underway
<1> QED
  BY <1>2, <1>5, <1>6 DEF Talk, clientVars

\* What the daemon does with its configuration is no part of the talk.
LEMMA ElsewhereTalk ==
    ASSUME Talk, UNCHANGED <<serverVars, clientVars, socket, inbox, outbox, running>> PROVE Talk'
<1>1. \A d \in Clients : (Unread(d) /\ Unfetched(d))'
  BY SameTalk DEF Talk, Answering, clientVars, serverVars
<1>2. Underway'
  BY DEF Talk, Underway, clientVars, serverVars
<1> QED
  BY <1>1, <1>2 DEF Talk, clientVars, serverVars

LEMMA TalkStep == IInv /\ Talk /\ [Next]_cvars => Talk'
<1> SUFFICES ASSUME IInv, Talk, [Next]_cvars PROVE Talk'
  OBVIOUS
<1>1. ASSUME NEW c \in DOMAIN repertoire, Client(c) PROVE Talk'
  BY <1>1, DialTalk, SendTalk, ReceiveTalk, HangUpTalk DEF Client
<1>2. CASE Server
  BY <1>2, PollTalk, RegisterTalk, AnswerTalk, DeregisterTalk, ExecuteTalk DEF Server
<1>3. CASE Reset \/ Reload \/ End
  BY <1>3, TerminatedTalk, ElsewhereTalk DEF Reset, Reload, End
<1>4. CASE UNCHANGED cvars
  BY <1>4, ElsewhereTalk DEF cvars
<1> QED
  BY <1>1, <1>2, <1>3, <1>4 DEF Next

-----------------------------------------------------------------------------
(* The refinement.                                                         *)

\* What the variables of the service stand for, by name.
Present == {c \in Clients : peer[c] # "gone"}
Requests == [c \in Clients |-> Pending(c)]
Answers == [c \in Clients |-> AnswerTo(c)]
State == [config |-> config, level |-> level, files |-> files]
ServiceVars == <<Present, Requests, Answers, State, running>>

LEMMA ServiceStutters == ASSUME UNCHANGED ServiceVars PROVE UNCHANGED Service!svars
  BY DEF ServiceVars, Service!svars, Present, Requests, Answers, State

LEMMA Asks ==
    ASSUME NEW c \in Clients, NEW words \in Commands, running, c \in Present, Requests[c] = <<>>,
           Answers[c] = <<>>, Requests' = [Requests EXCEPT ![c] = words],
           UNCHANGED <<Present, Answers, State, running>>
    PROVE  Service!Next
<1>1. Service!Ask(c)
  BY DEF Service!Ask, Commands, Present, Requests, Answers, State
<1> QED
  BY <1>1 DEF Service!Next

LEMMA Serves ==
    ASSUME NEW c \in Clients, running, Requests[c] # <<>>,
           NEW r \in CommandParser(State, Requests[c]), ~r.ends, State' = r.st,
           Requests' = [Requests EXCEPT ![c] = <<>>],
           Answers' = [Answers EXCEPT ![c] = IF c \in Present THEN r.answer ELSE <<>>],
           UNCHANGED <<Present, running>>
    PROVE  Service!Next
<1>1. Service!Serve(c)
  BY DEF Service!Serve, Present, Requests, Answers, State
<1> QED
  BY <1>1 DEF Service!Next

LEMMA Takes ==
    ASSUME NEW c \in Clients, Answers[c] # <<>>, Answers' = [Answers EXCEPT ![c] = <<>>],
           UNCHANGED <<Present, Requests, State, running>>
    PROVE  Service!Next
<1>1. Service!Take(c)
  BY DEF Service!Take, Present, Requests, Answers, State
<1> QED
  BY <1>1 DEF Service!Next

LEMMA Leaves ==
    ASSUME NEW c \in Clients, Present' = Present \ {c}, Answers' = [Answers EXCEPT ![c] = <<>>],
           UNCHANGED <<Requests, State, running>>
    PROVE  Service!Next
<1>1. Service!Leave(c)
  BY DEF Service!Leave, Present, Requests, Answers, State
<1> QED
  BY <1>1 DEF Service!Next

LEMMA Forgets ==
    ASSUME NEW c \in Clients, Requests' = [Requests EXCEPT ![c] = <<>>],
           UNCHANGED <<Present, Answers, State, running>>
    PROVE  Service!Next
<1>1. Service!Forget(c)
  BY DEF Service!Forget, Present, Requests, Answers, State
<1> QED
  BY <1>1 DEF Service!Next

LEMMA Reconfigures ==
    ASSUME running, UNCHANGED <<level, files, running, Present, Requests, Answers>>
    PROVE  Service!Next
<1>1. Service!Reconfigure
  BY DEF Service!Reconfigure, Present, Requests, Answers, State
<1> QED
  BY <1>1 DEF Service!Next

LEMMA GoesDown ==
    ASSUME running, running' = FALSE, Requests' = [c \in Clients |-> <<>>],
           \A c \in Clients : Answers'[c] \in {Answers[c], <<>>}, UNCHANGED <<Present, State>>
    PROVE  Service!Next
<1>1. Service!Down
  BY DEF Service!Down, Present, Requests, Answers, State
<1> QED
  BY <1>1 DEF Service!Next

\* A client for which nothing changes but what it remembers when nothing is under way.
LEMMA SameRequest ==
    ASSUME NEW c \in Clients, inbox'[c] = inbox[c], asked'[c] = asked[c] \/ inbox[c] = <<>>
    PROVE  Requests'[c] = Requests[c]
  BY DEF Requests, Pending

LEMMA SameAnswer ==
    ASSUME NEW c \in Clients, outbox'[c] = outbox[c], reply' = reply,
           (peer'[c] = "gone") = (peer[c] = "gone")
    PROVE  Answers'[c] = Answers[c]
  BY DEF Answers, AnswerTo

\* Functions that agree everywhere, or everywhere else.
LEMMA SameFunctions ==
    /\ (\A c \in Clients : Requests'[c] = Requests[c]) => Requests' = Requests
    /\ (\A c \in Clients : Answers'[c] = Answers[c]) => Answers' = Answers
  BY DEF Requests, Answers

LEMMA OneRequest ==
    ASSUME NEW c \in Clients, NEW words, Requests'[c] = words,
           \A d \in Clients \ {c} : Requests'[d] = Requests[d]
    PROVE  Requests' = [Requests EXCEPT ![c] = words]
  BY DEF Requests

LEMMA OneAnswer ==
    ASSUME NEW c \in Clients, NEW words, Answers'[c] = words,
           \A d \in Clients \ {c} : Answers'[d] = Answers[d]
    PROVE  Answers' = [Answers EXCEPT ![c] = words]
  BY DEF Answers

LEMMA DialServes ==
    ASSUME IInv, Talk, NEW c \in DOMAIN repertoire, Dial(c)
    PROVE  [Service!Next]_(Service!svars)
<1>1. /\ c \in Clients /\ peer[c] = "new" /\ peer' = [peer EXCEPT ![c] = "idle"]
      /\ UNCHANGED <<inbox, outbox, asked, running, reply, daemonState>>
  BY DEF Dial, IInv, ConnType, serverVars
<1>2. \A d \in Clients : (peer'[d] = "gone") = (peer[d] = "gone")
  BY <1>1 DEF IInv, ConnType
<1>3. UNCHANGED ServiceVars
  BY <1>1, <1>2, SameRequest, SameAnswer, SameFunctions DEF ServiceVars, Present, State, daemonState
<1> QED
  BY <1>3, ServiceStutters

LEMMA SendServes ==
    ASSUME IInv, Talk, NEW c \in DOMAIN repertoire, NEW words \in repertoire[c], Send(c, words)
    PROVE  [Service!Next]_(Service!svars)
<1>1. /\ c \in Clients /\ peer[c] = "idle" /\ repertoire \in Repertoires
      /\ UNCHANGED <<outbox, running, reply, daemonState>>
      /\ peer' \in {[peer EXCEPT ![c] = "failed"], [peer EXCEPT ![c] = "waiting"]}
  BY DEF Send, IInv, ConnType, Talk, serverVars
<1>2. UNCHANGED <<Present, Answers, State, running>>
  <2>1. \A d \in Clients : (peer'[d] = "gone") = (peer[d] = "gone")
    BY <1>1 DEF IInv, ConnType
  <2> QED
    BY <1>1, <2>1, SameAnswer, SameFunctions DEF Present, State, daemonState
<1>3. CASE UNCHANGED <<inbox, asked>>
  <2>1. Requests' = Requests
    BY <1>3, SameRequest, SameFunctions
  <2> QED
    BY <1>2, <2>1, ServiceStutters DEF ServiceVars
<1>4. CASE /\ ~Unsendable(words) /\ socket[c] \in {"backlog", "open"}
           /\ inbox' = [inbox EXCEPT ![c] = inbox[c] \o FormatCommand(words)]
           /\ asked' = [asked EXCEPT ![c] = words]
  <2>1. words \in Commands /\ running
    BY <1>1, <1>4, SentIsCommand DEF Talk
  <2>2. inbox[c] = <<>> /\ outbox[c] = <<>> /\ ~Answering(c)
    <3>1. inbox[c] = <<>> /\ outbox[c] = <<>>
      BY <1>1 DEF Talk, Unread, Unfetched
    <3>2. ~Answering(c)
      BY <1>1 DEF Talk, Answering, Underway
    <3> QED
      BY <3>1, <3>2
  <2>3. c \in Present /\ Requests[c] = <<>> /\ Answers[c] = <<>>
    BY <1>1, <2>2 DEF Present, Requests, Answers, Pending, AnswerTo, Answering, NoReply
  <2>4. inbox'[c] # <<>> /\ asked'[c] = words
    <3>1. inbox'[c] = <<>> \o FormatCommand(words)
      <4>1. inbox'[c] = inbox[c] \o FormatCommand(words)
        BY <1>1, <1>4 DEF Talk
      <4> QED
        BY <2>2, <4>1, Zenon
    <3>2. asked'[c] = words
      BY <1>1, <1>4 DEF Talk
    <3> QED
      BY <2>1, <3>1, <3>2, CommandsSplit, Zenon
  <2>5. Requests'[c] = words
    BY <1>1, <2>4, Zenon DEF Requests, Pending
  <2>6. \A d \in Clients \ {c} : Requests'[d] = Requests[d]
    BY <1>4, SameRequest DEF Talk
  <2> QED
    BY <1>1, <1>2, <2>1, <2>3, <2>5, <2>6, OneRequest, Asks
<1> QED
  BY <1>3, <1>4 DEF Send

LEMMA ReceiveServes ==
    ASSUME IInv, Talk, NEW c \in DOMAIN repertoire, Receive(c)
    PROVE  [Service!Next]_(Service!svars)
<1>1. /\ c \in Clients /\ peer[c] = "waiting"
      /\ UNCHANGED <<socket, inbox, running, reply, daemonState>>
      /\ asked' = [asked EXCEPT ![c] = <<>>]
      /\ peer' \in {[peer EXCEPT ![c] = "idle"], [peer EXCEPT ![c] = "failed"]}
  BY DEF Receive, IInv, ConnType, serverVars
<1>2. \A d \in Clients : (peer'[d] = "gone") = (peer[d] = "gone")
  BY <1>1 DEF IInv, ConnType
<1>3. UNCHANGED <<Present, State, running>>
  BY <1>1, <1>2 DEF Present, State, daemonState
<1>4. CASE outbox[c] # <<>> /\ outbox' = [outbox EXCEPT ![c] = Tail(outbox[c])]
  <2>1. PICK a : a # NoReply /\ outbox[c] = <<a>>
    BY <1>1, <1>4 DEF Talk, Unfetched
  <2>2. ~Answering(c) /\ inbox[c] = <<>>
    BY <1>1, <1>4 DEF Talk, Unread, Unfetched
  <2>3. Answers[c] # <<>>
    <3>1. Answers[c] = Head(outbox[c])
      BY <1>1, <1>4 DEF Answers, AnswerTo
    <3>2. Head(outbox[c]) = a
      BY <2>1, Single, Zenon
    <3> QED
      BY <2>1, <3>1, <3>2 DEF NoReply
  <2>4. Answers'[c] = <<>>
    <3>1. outbox'[c] = Tail(outbox[c])
      BY <1>1, <1>4 DEF Talk
    <3>2. outbox'[c] = <<>>
      BY <2>1, <3>1, Single, Zenon
    <3>3. reply' = NoReply \/ reply'[1] # c
      BY <1>1, <2>2 DEF Answering
    <3> QED
      BY <1>1, <3>2, <3>3 DEF Answers, AnswerTo, NoReply
  <2>5. \A d \in Clients \ {c} : Answers'[d] = Answers[d]
    BY <1>1, <1>2, <1>4, SameAnswer DEF Talk
  <2>6. Requests' = Requests
    BY <1>1, <2>2, SameRequest, SameFunctions DEF Talk
  <2> QED
    BY <1>1, <1>3, <2>3, <2>4, <2>5, <2>6, OneAnswer, Takes
<1>5. CASE outbox[c] = <<>> /\ socket[c] = "closed" /\ outbox' = outbox
  <2>1. inbox[c] = <<>>
    BY <1>1, <1>5 DEF Talk, Unread
  <2>2. Requests' = Requests
    BY <1>1, <2>1, SameRequest, SameFunctions DEF Talk
  <2>3. Answers' = Answers
    BY <1>1, <1>2, <1>5, SameAnswer, SameFunctions
  <2> QED
    BY <1>3, <2>2, <2>3, ServiceStutters DEF ServiceVars
<1> QED
  BY <1>4, <1>5 DEF Receive

LEMMA HangUpServes ==
    ASSUME IInv, Talk, NEW c \in DOMAIN repertoire, HangUp(c)
    PROVE  [Service!Next]_(Service!svars)
<1>1. /\ c \in Clients /\ peer' = [peer EXCEPT ![c] = "gone"] /\ outbox' = [outbox EXCEPT ![c] = <<>>]
      /\ UNCHANGED <<inbox, asked, running, reply, daemonState>>
  BY DEF HangUp, IInv, ConnType, serverVars
<1>2. /\ peer'[c] = "gone" /\ outbox'[c] = <<>>
      /\ \A d \in Clients \ {c} : peer'[d] = peer[d] /\ outbox'[d] = outbox[d]
  BY <1>1 DEF IInv, ConnType, Talk
<1>3. Present' = Present \ {c}
  BY <1>2 DEF Present
<1>4. Answers'[c] = <<>>
  BY <1>1, <1>2 DEF Answers, AnswerTo, NoReply
<1>5. \A d \in Clients \ {c} : Answers'[d] = Answers[d]
  BY <1>1, <1>2, SameAnswer
<1>6. Requests' = Requests /\ State' = State
  BY <1>1, SameRequest, SameFunctions DEF State, daemonState
<1> QED
  BY <1>1, <1>3, <1>4, <1>5, <1>6, OneAnswer, Leaves

\* What was not read of a connection is forgotten when it is closed.
LEMMA DropServes ==
    ASSUME IInv, Talk, NEW c \in Clients, inbox' = [inbox EXCEPT ![c] = <<>>],
           UNCHANGED <<reply, outbox, clientVars, daemonState, running>>
    PROVE  [Service!Next]_(Service!svars)
<1>1. /\ inbox'[c] = <<>> /\ \A d \in Clients \ {c} : inbox'[d] = inbox[d]
  BY DEF Talk
<1>2. Requests'[c] = <<>>
  BY <1>1 DEF Requests, Pending
<1>3. \A d \in Clients \ {c} : Requests'[d] = Requests[d]
  BY <1>1, SameRequest DEF clientVars
<1>4. UNCHANGED <<Present, Answers, State, running>>
  BY SameAnswer, SameFunctions DEF Present, State, daemonState, clientVars
<1> QED
  BY <1>2, <1>3, <1>4, OneRequest, Forgets

LEMMA RegisterServes ==
    ASSUME IInv, Talk, Register
    PROVE  [Service!Next]_(Service!svars)
<1> DEFINE c == Head(backlog)
<1>1. UNCHANGED <<reply, outbox, clientVars, daemonState, running>>
  BY DEF Register
<1>2. c \in Clients
  <2>1. First(events) \in events /\ First(events).fd = Listener /\ First(events).event = "in"
    BY FirstEvent DEF Register, At, IInv
  <2>2. backlog # <<>> /\ backlog \in Seq(Clients)
    BY <2>1 DEF IInv, EventsOK, ConnType
  <2> QED
    BY <2>2
<1>3. CASE inbox' = inbox
  <2>1. UNCHANGED ServiceVars
    BY <1>1, <1>3, SameRequest, SameAnswer, SameFunctions
       DEF ServiceVars, Present, State, daemonState, clientVars
  <2> QED
    BY <2>1, ServiceStutters
<1>4. CASE inbox' = [inbox EXCEPT ![c] = <<>>]
  <2> HIDE DEF c
  <2> QED
    BY <1>1, <1>2, <1>4, DropServes
<1> QED
  BY <1>3, <1>4 DEF Register

LEMMA TerminatedServes ==
    ASSUME IInv, Talk, running, Terminated
    PROVE  [Service!Next]_(Service!svars)
<1>1. /\ running' = FALSE /\ reply' = NoReply /\ inbox' = [c \in Clients |-> <<>>]
      /\ UNCHANGED <<outbox, clientVars, daemonState>>
  BY DEF Terminated
<1>2. Requests' = [c \in Clients |-> <<>>]
  BY <1>1 DEF Requests, Pending
<1>3. \A c \in Clients : Answers'[c] \in {Answers[c], <<>>}
  BY <1>1 DEF Answers, AnswerTo, clientVars, NoReply
<1>4. UNCHANGED <<Present, State>>
  BY <1>1 DEF Present, State, daemonState, clientVars
<1> QED
  BY <1>1, <1>2, <1>3, <1>4, GoesDown

LEMMA ExecuteServes ==
    ASSUME IInv, Talk, NEW c \in Clients, Execute(c)
    PROVE  [Service!Next]_(Service!svars)
<1>1. /\ First(events) \in events /\ First(events).fd = c /\ First(events).event = "in"
      /\ running /\ reply = NoReply
  BY FirstEvent DEF Execute, At, IInv
<1>2. CASE Terminated
  BY <1>1, <1>2, TerminatedServes
<1>3. CASE ~Terminated
  <2>1. PICK r \in CommandParser([config |-> config, level |-> level, files |-> files],
                                 SplitArgs(inbox[c])) :
           /\ ~r.ends /\ reply' = <<c, r.answer>>
           /\ inbox' = [inbox EXCEPT ![c] = <<>>]
           /\ config' = r.st.config /\ level' = r.st.level /\ files' = r.st.files
           /\ UNCHANGED <<client_fd, socket, backlog, outbox, clientVars, reloading, running>>
    BY <1>3 DEF Execute
  <2>2. inbox[c] # <<>>
    BY <1>1 DEF Talk, IInv, EventsOK
  <2>3. /\ asked[c] \in Commands /\ inbox[c] = FormatCommand(asked[c]) /\ outbox[c] = <<>>
    BY <2>2 DEF Talk, Unread
  <2>4. Requests[c] = asked[c] /\ SplitArgs(inbox[c]) = asked[c] /\ asked[c] # <<>>
    <3>1. Requests[c] = asked[c]
      BY <2>2 DEF Requests, Pending
    <3>2. SplitArgs(inbox[c]) = asked[c]
      BY <2>3, CommandsSplit, Zenon
    <3>3. asked[c] # <<>>
      BY <2>3, CommandWords
    <3> QED
      BY <3>1, <3>2, <3>3
  <2>5. r \in CommandParser(State, Requests[c]) /\ Requests[c] # <<>>
    BY <2>1, <2>4, Zenon DEF State
  <2>6. State' = r.st
    <3>1. r.st = [config |-> r.st.config, level |-> r.st.level, files |-> r.st.files]
      BY <2>1, OutcomeShape
    <3> QED
      BY <2>1, <3>1, Zenon DEF State
  <2>7. inbox'[c] = <<>> /\ \A d \in Clients \ {c} : inbox'[d] = inbox[d]
    BY <2>1 DEF Talk
  <2>8. Requests' = [Requests EXCEPT ![c] = <<>>]
    <3>1. Requests'[c] = <<>>
      BY <2>7 DEF Requests, Pending
    <3>2. \A d \in Clients \ {c} : Requests'[d] = Requests[d]
      BY <2>1, <2>7, SameRequest DEF clientVars
    <3> QED
      BY <3>1, <3>2, OneRequest
  <2>9. Answers' = [Answers EXCEPT ![c] = IF c \in Present THEN r.answer ELSE <<>>]
    <3> DEFINE told == IF c \in Present THEN r.answer ELSE <<>>
    <3>0. reply' # NoReply /\ reply'[1] = c /\ reply'[2] = r.answer
      BY <2>1 DEF NoReply
    <3>1. Answers'[c] = told
      BY <2>1, <2>3, <3>0 DEF Answers, AnswerTo, Present, clientVars, NoReply
    <3>2. \A d \in Clients \ {c} : Answers'[d] = Answers[d]
      BY <1>1, <2>1, <3>0 DEF Answers, AnswerTo, clientVars
    <3> HIDE DEF told
    <3>3. Answers' = [Answers EXCEPT ![c] = told]
      BY <3>1, <3>2, OneAnswer
    <3> QED
      BY <3>3 DEF told
  <2>10. UNCHANGED <<Present, running>>
    BY <2>1 DEF Present, clientVars
  <2> QED
    BY <1>1, <2>1, <2>5, <2>6, <2>8, <2>9, <2>10, Serves
<1> QED
  BY <1>2, <1>3

\* The answer is the client's from when the command was carried out.
LEMMA AnswerServes ==
    ASSUME IInv, Talk, Answer
    PROVE  [Service!Next]_(Service!svars)
<1>0. PICK c \in Clients : \E a : a # NoReply /\ reply = <<c, a>>
  BY DEF Answer, Talk, Underway
<1>1. PICK a : a # NoReply /\ reply = <<c, a>>
  BY <1>0
<1>2. /\ reply' = NoReply
      /\ outbox' = [outbox EXCEPT ![c] = IF peer[c] = "gone" THEN outbox[c] ELSE Append(outbox[c], a)]
      /\ UNCHANGED <<inbox, clientVars, daemonState, running>>
  BY <1>1 DEF Answer
<1>3. reply # NoReply /\ reply[1] = c /\ reply[2] = a
  BY <1>1 DEF Answer
<1>4. outbox[c] = <<>>
  BY <1>3 DEF Talk, Unfetched, Answering
<1>5. Answers'[c] = Answers[c]
  <2>1. CASE peer[c] = "gone"
    <3>1. outbox'[c] = <<>>
      BY <1>2, <1>4, <2>1 DEF Talk
    <3> QED
      BY <1>2, <1>4, <2>1, <3>1 DEF Answers, AnswerTo, clientVars
  <2>2. CASE peer[c] # "gone"
    <3>1. outbox'[c] = Append(outbox[c], a)
      BY <1>2, <2>2 DEF Talk
    <3>2. outbox'[c] # <<>> /\ Head(outbox'[c]) = a
      BY <1>4, <3>1, Single, Zenon
    <3>3. Answers'[c] = a
      BY <3>2, Zenon DEF Answers, AnswerTo
    <3>4. Answers[c] = a
      BY <1>3, <1>4, <2>2, Zenon DEF Answers, AnswerTo
    <3> QED
      BY <3>3, <3>4
  <2> QED
    BY <2>1, <2>2
<1>6. ASSUME NEW d \in Clients \ {c} PROVE Answers'[d] = Answers[d]
  <2>1. outbox'[d] = outbox[d] /\ peer'[d] = peer[d]
    BY <1>2 DEF Talk, clientVars
  <2> QED
    BY <1>2, <1>3, <2>1 DEF Answers, AnswerTo
<1>7. Answers' = Answers
  BY <1>5, <1>6, SameFunctions
<1>8. UNCHANGED <<Present, Requests, State, running>>
  BY <1>2, SameRequest, SameFunctions DEF Present, State, daemonState, clientVars
<1> QED
  BY <1>7, <1>8, ServiceStutters DEF ServiceVars

\* The main thread loads another configuration.
LEMMA ReloadServes ==
    ASSUME IInv, Talk, Reset \/ Reload
    PROVE  [Service!Next]_(Service!svars)
<1>1. CASE Terminated
  BY <1>1, TerminatedServes DEF Reset, Reload
<1>2. CASE ~Terminated
  <2>1. running /\ UNCHANGED <<serverVars, clientVars, inbox, outbox, level, files, running>>
    BY <1>2 DEF Reset, Reload
  <2>2. UNCHANGED <<Present, Requests, Answers>>
    BY <2>1, SameRequest, SameAnswer, SameFunctions DEF Present, serverVars, clientVars
  <2> QED
    BY <2>1, <2>2, Reconfigures
<1> QED
  BY <1>1, <1>2

LEMMA StepServes == IInv /\ Talk /\ [Next]_cvars => [Service!Next]_(Service!svars)
<1> SUFFICES ASSUME IInv, Talk, [Next]_cvars PROVE [Service!Next]_(Service!svars)
  OBVIOUS
<1>1. ASSUME NEW c \in DOMAIN repertoire, Client(c) PROVE [Service!Next]_(Service!svars)
  BY <1>1, DialServes, SendServes, ReceiveServes, HangUpServes DEF Client
<1>2. CASE Server
  <2>1. CASE Poll
    <3>1. UNCHANGED ServiceVars
      BY <2>1, SameRequest, SameAnswer, SameFunctions
         DEF Poll, ServiceVars, Present, State, daemonState, clientVars
    <3> QED
      BY <3>1, ServiceStutters
  <2>2. ASSUME NEW c \in Clients, Deregister(c) PROVE [Service!Next]_(Service!svars)
    BY <2>2, DropServes DEF Deregister
  <2> QED
    BY <1>2, <2>1, <2>2, RegisterServes, AnswerServes, ExecuteServes DEF Server
<1>3. CASE Reset \/ Reload
  BY <1>3, ReloadServes
<1>4. CASE End
  BY <1>4, TerminatedServes DEF End
<1>5. CASE UNCHANGED cvars
  <2>1. UNCHANGED ServiceVars
    BY <1>5, SameRequest, SameAnswer, SameFunctions
       DEF cvars, serverVars, ServiceVars, Present, State, daemonState, clientVars
  <2> QED
    BY <2>1, ServiceStutters
<1> QED
  BY <1>1, <1>2, <1>3, <1>4, <1>5 DEF Next

\* To its clients the daemon is a service that carries out one command at a time, each
\* at most once, and answers the one who asked, whatever else happens: what they format
\* is what it splits, and no hang-up, refusal, reload or end leaves a trace but a
\* request forgotten or an answer lost (x52d_command.c, x52d_comm_client.c).
THEOREM SocketServes == Spec => ServiceSpec
<1>1. Init => Service!Init
  <2> SUFFICES ASSUME Init PROVE Service!Init
    OBVIOUS
  <2>1. Present = Clients /\ running = TRUE
    BY DEF Init, Present
  <2>2. Requests = [c \in Clients |-> <<>>]
    BY DEF Init, Requests, Pending
  <2>3. Answers = [c \in Clients |-> <<>>]
    BY DEF Init, Answers, AnswerTo, NoReply
  <2> QED
    BY <2>1, <2>2, <2>3 DEF Service!Init, Present, Requests, Answers
<1> QED
  BY <1>1, InitOK, StepOK, TalkInit, TalkStep, StepServes, PTL DEF Spec, ServiceSpec, Service!Spec
=============================================================================
