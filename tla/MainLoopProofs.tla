--------------------------- MODULE MainLoopProofs ---------------------------
(***************************************************************************)
(* Theorems about MainLoop: which thread has which signals blocked when,   *)
(* and that SIGPIPE never reaches a thread that does not block it.         *)
(***************************************************************************)
EXTENDS MainLoop, TLAPS

\* The threads and masks by the place of the main thread.  What the command thread got
\* itself stays with it; no SIGPIPE is sent to the process, whose signals the mouse
\* thread may take.
Masks ==
    /\ pc \in {"load first", "block"} => alive = {"main"} /\ blocked = {}
    /\ pc = "threads" => alive = {"main"} /\ blocked = {"main"}
    /\ pc = "unblock" => {"main", "cmd"} \subseteq blocked
    /\ pc \in Serving \ {"unblock"} => "main" \in alive \ blocked /\ "cmd" \in blocked
    /\ pc = "cleanup" => "cmd" \in blocked
    /\ "SIGPIPE" \notin posted

IInv == MainTypeOK /\ Masks /\ NeverKilled

USE DEF Threads, Booting, Looping, Ended, Serving, Running, Go, MainTypeOK, Masks, NeverKilled, IInv

LEMMA InitOK == MainInit => IInv
  BY DEF MainInit, Signals

\* The mouse thread comes and goes: the masks of the others stay.
LEMMA SetMouseOK ==
    ASSUME IInv, NEW t \in Threads, SetMouse(t)
    PROVE  /\ blocked' \subseteq alive' /\ alive' \subseteq Threads
           /\ \A u \in {"main", "cmd"} : (u \in alive' <=> u \in alive) /\ (u \in blocked' <=> u \in blocked)
<1>1. CASE UNCHANGED <<alive, blocked>>
  BY <1>1
<1>2. CASE alive' = alive \cup {"mouse"} /\ blocked' = blocked \cup {m \in {"mouse"} : t \in blocked}
  BY <1>2
<1>3. CASE alive' = alive \ {"mouse"} /\ blocked' = blocked \ {"mouse"}
  BY <1>3
<1> QED
  BY <1>1, <1>2, <1>3 DEF SetMouse

\* The main thread's own steps.
LEMMA MainOK == IInv /\ Main => IInv'
<1> SUFFICES ASSUME IInv, Main PROVE IInv'
  OBVIOUS
<1>1. CASE Block
  BY <1>1 DEF Block
<1>2. CASE StartThreads
  BY <1>2 DEF StartThreads
<1>3. CASE Unblock
  BY <1>3 DEF Unblock
<1>4. CASE Apply
  BY <1>4, SetMouseOK DEF Apply
<1>5. CASE ClearQuit
  BY <1>5 DEF ClearQuit
<1>6. CASE MoveOn
  BY <1>6 DEF MoveOn
<1>7. CASE ClearReload
  BY <1>7 DEF ClearReload
<1>8. CASE ClearSave
  BY <1>8 DEF ClearSave
<1> QED
  BY <1>1, <1>2, <1>3, <1>4, <1>5, <1>6, <1>7, <1>8 DEF Main

LEMMA OthersApplyOK == IInv /\ OthersApply => IInv'
  BY SetMouseOK DEF OthersApply

\* A thread takes a signal: main, which then leaves pause(), or the mouse thread, as the
\* others block them.
LEMMA DeliverOK ==
    ASSUME IInv, NEW t \in Threads, NEW sig \in Signals, Deliver(t, sig)
    PROVE  IInv'
<1>1. t # "cmd"
  <2>1. t \in alive \ blocked /\ Running
    BY DEF Deliver
  <2> QED
    BY <2>1
<1>2. sig \in posted /\ sig # "SIGPIPE" /\ posted' \subseteq posted /\ raised' = raised
  BY <1>1 DEF Deliver, Own
<1>3. pc' = IF t = "main" /\ pc = "pause" THEN "reload?" ELSE pc
  BY <1>2 DEF Deliver, After
<1>4. flags' \subseteq {"quit", "reload", "save"}
  <2>1. \A s \in DOMAIN Flag : Flag[s] \in {"quit", "reload", "save"}
    <3>1. DOMAIN Flag = {"SIGTERM", "SIGHUP", "SIGUSR1"}
      BY DEF Flag
    <3>2. Flag["SIGTERM"] = "quit" /\ Flag["SIGHUP"] = "reload" /\ Flag["SIGUSR1"] = "save"
      BY DEF Flag
    <3> QED
      BY <3>1, <3>2
  <2>2. flags' = flags \cup {Flag[s] : s \in {sig} \cap DOMAIN Flag}
    BY DEF Deliver
  <2> HIDE DEF MainTypeOK
  <2> QED
    BY <2>1, <2>2 DEF MainTypeOK
<1>5. alive' = alive /\ blocked' = blocked
  BY DEF Deliver
<1> QED
  BY <1>2, <1>3, <1>4, <1>5

LEMMA KillOK ==
    ASSUME IInv, NEW sig \in DOMAIN Flag, Kill(sig)
    PROVE  IInv'
<1>1. sig \in Signals /\ sig # "SIGPIPE"
  BY DEF Flag, Signals
<1> QED
  BY <1>1 DEF Kill

LEMMA RaiseOK ==
    ASSUME IInv, NEW sig \in {"SIGHUP", "SIGUSR1", "SIGPIPE"}, Raise(sig)
    PROVE  IInv'
<1>1. sig \in Signals
  BY DEF Flag, Signals
<1> QED
  BY <1>1 DEF Raise

LEMMA Invariance == MainSpec => []IInv
<1>1. IInv /\ [MainNext]_mainvars => IInv'
  <2> SUFFICES ASSUME IInv, [MainNext]_mainvars PROVE IInv'
    OBVIOUS
  <2>1. CASE UNCHANGED mainvars
    BY <2>1 DEF mainvars
  <2>2. CASE MainNext
    BY <2>2, MainOK, OthersApplyOK, DeliverOK, KillOK, RaiseOK DEF MainNext
  <2> QED
    BY <2>1, <2>2
<1> QED
  BY InitOK, <1>1, PTL DEF MainSpec

\* Once the daemon is in its loop main takes signals, and the threads created at
\* start-up take none (x52d_main.c blocks them, creates these threads and unblocks them
\* again), whoever enables and disables the mouse and whatever its thread blocks.
THEOREM MasksCorrect == MainSpec => []MainTypeOK
<1>1. IInv => MainTypeOK
  OBVIOUS
<1> QED
  BY Invariance, <1>1, PTL

\* No client that hangs up before it is answered ends the daemon.
THEOREM NoBrokenPipe == MainSpec => []NeverKilled
<1>1. IInv => NeverKilled
  OBVIOUS
<1> QED
  BY Invariance, <1>1, PTL
=============================================================================
