--------------------------- MODULE CommandService ---------------------------
(***************************************************************************)
(* What the command socket promises its clients, without sockets, slots    *)
(* or threads: requests are carried out one at a time and atomically.      *)
(***************************************************************************)
EXTENDS Sequences

CONSTANTS
    Clients,
    Words,          \* commands, sequences that are not empty
    Outcome(_, _)   \* what may come of a state and a command: records [st, answer, ends]

VARIABLES
    present,    \* the clients that have not left
    request,    \* a command that waits, or <<>>
    answer,     \* an answer not yet read, or <<>>
    st,         \* the state of the daemon
    up          \* does it run?

svars == <<present, request, answer, st, up>>

Init ==
    /\ present = Clients /\ up = TRUE
    /\ request = [c \in Clients |-> <<>>] /\ answer = [c \in Clients |-> <<>>]

\* Whoever has no command under way may ask.
Ask(c) ==
    /\ up /\ c \in present /\ request[c] = <<>> /\ answer[c] = <<>>
    /\ \E w \in Words : request' = [request EXCEPT ![c] = w]
    /\ UNCHANGED <<present, answer, st, up>>

\* All requests end with the service; so do the answers on their way.
Down ==
    /\ up' = FALSE
    /\ request' = [c \in Clients |-> <<>>]
    /\ DOMAIN answer' = Clients
    /\ \A c \in Clients : answer'[c] \in {answer[c], <<>>}
    /\ UNCHANGED <<present, st>>

\* One request is carried out, once; nobody is told if the client has left.
Serve(c) ==
    /\ up /\ request[c] # <<>>
    /\ \E r \in Outcome(st, request[c]) :
        \/ /\ ~r.ends
           /\ st' = r.st
           /\ request' = [request EXCEPT ![c] = <<>>]
           /\ answer' = [answer EXCEPT ![c] = IF c \in present THEN r.answer ELSE <<>>]
           /\ UNCHANGED <<present, up>>
        \/ r.ends /\ Down

Take(c) ==
    /\ answer[c] # <<>>
    /\ answer' = [answer EXCEPT ![c] = <<>>]
    /\ UNCHANGED <<present, request, st, up>>

\* A client leaves; a request of one who left, or was turned away, is forgotten.
Leave(c) ==
    /\ present' = present \ {c}
    /\ answer' = [answer EXCEPT ![c] = <<>>]
    /\ UNCHANGED <<request, st, up>>

Forget(c) ==
    /\ request' = [request EXCEPT ![c] = <<>>]
    /\ UNCHANGED <<present, answer, st, up>>

\* The daemon itself loads another configuration, and touches nothing else.
Reconfigure ==
    /\ up /\ st' = [st EXCEPT !.config = st'.config]
    /\ UNCHANGED <<present, request, answer, up>>

Next ==
    \/ \E c \in Clients : Ask(c) \/ Serve(c) \/ Take(c) \/ Leave(c) \/ Forget(c)
    \/ up /\ Down
    \/ Reconfigure

Spec == Init /\ [][Next]_svars
=============================================================================
