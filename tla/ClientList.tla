----------------------------- MODULE ClientList -----------------------------
(***************************************************************************)
(* The fixed table of client descriptors that both servers of the daemon   *)
(* keep (x52d_client.c): slots hold a connection or INVALID_CLIENT.        *)
(***************************************************************************)
EXTENDS Naturals

CONSTANTS
    MaxClients,         \* X52D_MAX_CLIENTS
    INVALID_CLIENT,     \* an empty slot
    Listener            \* the descriptor of the listening socket

ASSUME ClientListAssumption == MaxClients \in Nat \ {0} /\ Listener # INVALID_CLIENT

Slots == 1..MaxClients
NoClients == [i \in Slots |-> INVALID_CLIENT]
Registered(fds) == {fds[i] : i \in Slots} \ {INVALID_CLIENT}

\* Faulty: the search ends before the last slot.
FreeSlots_OneShort(fds) == {i \in Slots \ {MaxClients} : fds[i] = INVALID_CLIENT}

FreeSlots(fds) == {i \in Slots : fds[i] = INVALID_CLIENT}

\* The first free slot takes a new connection.
WithClient(fds, c) ==
    [fds EXCEPT ![CHOOSE i \in FreeSlots(fds) : \A j \in FreeSlots(fds) : i <= j] = c]

\* Faulty: the slot is kept.
WithoutClient_Kept(fds, c) == fds
WithoutClient(fds, c) == [i \in Slots |-> IF fds[i] = c THEN INVALID_CLIENT ELSE fds[i]]

\* Faulty: the last slot is not polled.
Polled_OneShort(fds) ==
    {[slot |-> 0, fd |-> Listener]}
        \cup {[slot |-> i, fd |-> fds[i]] : i \in {j \in Slots \ {MaxClients} : fds[j] # INVALID_CLIENT}}

\* What poll() is asked about: the listening socket, then the clients by slot.
Polled(fds) ==
    {[slot |-> 0, fd |-> Listener]}
        \cup {[slot |-> i, fd |-> fds[i]] : i \in {j \in Slots : fds[j] # INVALID_CLIENT}}

\* The first of the entries that are still to be handled.
First(entries) == CHOOSE p \in entries : \A q \in entries : p.slot <= q.slot
=============================================================================
