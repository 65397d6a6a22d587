--------------------------- MODULE AdapterSession ---------------------------
(***************************************************************************)
(* A session of the jcan GUI: the adapters that are connected, the thread  *)
(* that receives from each of them, the thread that transmits periodic     *)
(* messages on one of them, and the GUI thread that connects and           *)
(* disconnects adapters, moves the transmit mark, edits the transmit list, *)
(* imports a log and quits.                                                *)
(*                                                                         *)
(* The GUI thread is a program with a counter, gui: "idle" between two     *)
(* user commands, otherwise the place inside a command where another       *)
(* thread can run before the GUI does (a device that opens slowly, a       *)
(* thread to join, a mutex to take).  Each I/O thread and the transmit     *)
(* thread have a counter of their own.                                     *)
(*                                                                         *)
(* Operators named after a slip (TxDetach, EraseKeepsMark...) are mutants: *)
(* what the definition that follows would be with that slip.               *)
(***************************************************************************)
EXTENDS Integers, FiniteSets, SequencesExt

CONSTANTS Devices,    \* what discovery lists; a device stands for its port
          Unbound,    \* those no driver is loaded for
          Jobs,       \* entries the transmit list may hold
          None        \* no device, no job

ASSUME SessionConstants == Unbound \subseteq Devices /\ None \notin Devices \cup Jobs

VARIABLES
  gui,                \* where the GUI thread is
  dev,                \* the device being opened
  at,                 \* the slot being disconnected, counted from 1
  after,              \* where the GUI thread goes after disconnect()
  slots,              \* adapter_slots, as the sequence of their devices
  open,               \* devices whose adapter is open
  connected, log_mode, recording,
  tx_slot_idx,        \* counted from 0, as in the code
  io, ioStop,         \* the I/O threads, and those asked to stop
  paused,             \* slots with io_paused
  tx, txStop,         \* the transmit thread, and whether it was asked to stop
  hw,                 \* the adapter run() refers to; None once it is destroyed
  todo, cur,          \* jobs this round has still to look at, job being sent
  jobs, mtx           \* the transmit list and the mutex that guards it

guiVars == <<gui, dev, at, after>>
flags == <<connected, log_mode, recording>>
ioVars == <<io, ioStop, paused>>
txVars == <<tx, txStop, hw, todo, cur>>
jobVars == <<jobs, mtx>>
vars == <<guiVars, slots, open, flags, tx_slot_idx, ioVars, txVars, jobVars>>

Init == /\ gui = "idle" /\ dev = None /\ at = 0 /\ after = "idle"
        /\ slots = << >> /\ open = {}
        /\ connected = FALSE /\ log_mode = FALSE /\ recording = FALSE
        /\ tx_slot_idx = 0
        /\ io = [d \in Devices |-> "none"] /\ ioStop = {} /\ paused = {}
        /\ tx = "none" /\ txStop = FALSE /\ hw = None /\ todo = {} /\ cur = None
        /\ jobs = [j \in Jobs |-> "absent"] /\ mtx = "free"
-----------------------------------------------------------------------------
(* Threads.  std::jthread::reset() asks the thread to stop and joins it.    *)

TxRunning == tx # "none"

\* run() has returned, or there is no thread.
TxStopped == tx \in {"none", "done"}

AskTxToStop == txStop' = TxRunning

TxDetach == UNCHANGED <<tx, txStop, hw, todo, cur>>

TxJoin == /\ TxStopped
          /\ tx' = "none" /\ txStop' = FALSE /\ hw' = None
          /\ UNCHANGED <<todo, cur>>

IoDetach(d) == UNCHANGED io

IoJoin(d) == io[d] = "done" /\ io' = [io EXCEPT ![d] = "none"]

\* The adapter tx_adapter() returns.
Marked == slots[tx_slot_idx + 1]
-----------------------------------------------------------------------------
(* connect().                                                               *)

\* No driver, or already connected.  Confirming a connection while a log is
\* shown has cleared log_mode before connect() finds out.
ConnectRefused(d) ==
  /\ gui = "idle" /\ d \in Unbound \cup ToSet(slots)
  /\ log_mode' = FALSE
  /\ UNCHANGED <<guiVars, slots, open, connected, recording, tx_slot_idx,
                 ioVars, txVars, jobVars>>

Connect(d) ==
  /\ gui = "idle" /\ d \in Devices \ (Unbound \cup ToSet(slots))
  /\ gui' = "opening" /\ dev' = d
  /\ log_mode' = FALSE
  /\ paused' = ToSet(slots)
  /\ UNCHANGED <<at, after, slots, open, connected, recording, tx_slot_idx,
                 io, ioStop, txVars, jobVars>>

OpenFailedStaysPaused ==
  /\ gui \in {"opening", "retry"}
  /\ gui' = "idle" /\ dev' = None
  /\ UNCHANGED <<at, after, slots, open, flags, tx_slot_idx, ioVars,
                 txVars, jobVars>>

\* Any error, or a device that stays inaccessible after the udev rule.
OpenFailed ==
  /\ gui \in {"opening", "retry"}
  /\ gui' = "idle" /\ dev' = None
  /\ paused' = {}
  /\ UNCHANGED <<at, after, slots, open, flags, tx_slot_idx, io, ioStop,
                 txVars, jobVars>>

\* permission_denied: install the udev rule, wait, open once more.
OpenDenied ==
  /\ gui = "opening"
  /\ gui' = "retry"
  /\ paused' = {}
  /\ UNCHANGED <<dev, at, after, slots, open, flags, tx_slot_idx, io, ioStop,
                 txVars, jobVars>>

Opened ==
  /\ gui \in {"opening", "retry"}
  /\ dev' = None /\ paused' = {}
  /\ open' = open \cup {dev}
  /\ io' = [io EXCEPT ![dev] = "check"]
  /\ slots' = Append(slots, dev)
  /\ connected' = TRUE /\ log_mode' = FALSE
  /\ IF slots = << >> THEN gui' = "startFirst" /\ tx_slot_idx' = 0
                      ELSE gui' = "idle" /\ UNCHANGED tx_slot_idx
  /\ UNCHANGED <<at, after, recording, ioStop, txVars, jobVars>>

\* tx_sched.start(): join the thread there was, then begin a new one.  The
\* first adapter also begins the session log, which may fail to open.
StartTx ==
  /\ gui \in {"startTx", "startFirst"} /\ TxStopped
  /\ gui' = "idle"
  /\ tx' = "check" /\ txStop' = FALSE /\ hw' = Marked
  /\ \/ UNCHANGED recording
     \/ gui = "startFirst" /\ recording' = TRUE
  /\ UNCHANGED <<dev, at, after, slots, open, connected, log_mode, tx_slot_idx,
                 ioVars, todo, cur, jobVars>>
-----------------------------------------------------------------------------
(* The "Set TX" button, for a slot that is not marked.                      *)

SetTx(i) ==
  /\ gui = "idle" /\ i \in 1 .. Len(slots) /\ i # tx_slot_idx + 1
  /\ gui' = "startTx" /\ tx_slot_idx' = i - 1
  /\ AskTxToStop
  /\ UNCHANGED <<dev, at, after, slots, open, flags, ioVars, tx, hw, todo, cur,
                 jobVars>>
-----------------------------------------------------------------------------
(* disconnect_slot(): join the transmit thread if this slot is marked, join *)
(* the slot's I/O thread, close the adapter and erase the slot, and restart *)
(* or stop transmitting.                                                    *)

DisconnectSlot(i) ==
  /\ gui = "idle" /\ i \in 1 .. Len(slots)
  /\ at' = i
  /\ IF i = tx_slot_idx + 1
     THEN gui' = "dropTx" /\ AskTxToStop /\ UNCHANGED ioStop
     ELSE gui' = "dropIo" /\ ioStop' = ioStop \cup {slots[i]} /\ UNCHANGED txStop
  /\ UNCHANGED <<dev, after, slots, open, flags, tx_slot_idx, io, paused, tx, hw,
                 todo, cur, jobVars>>

DropJoinTx ==
  /\ gui = "dropTx"
  /\ TxJoin
  /\ gui' = "dropIo" /\ ioStop' = ioStop \cup {slots[at]}
  /\ UNCHANGED <<dev, at, after, slots, open, flags, tx_slot_idx, io, paused,
                 jobVars>>

EraseToMinusOne(i) ==
  /\ slots' = RemoveAt(slots, i)
  /\ tx_slot_idx' = IF tx_slot_idx < Len(slots) - 1 THEN tx_slot_idx
                                                    ELSE Len(slots) - 2

EraseKeepsMark(i) ==
  slots' = RemoveAt(slots, i) /\ UNCHANGED tx_slot_idx

\* Erasing a slot shifts those after it; the mark is an index, kept in range.
Erase(i) ==
  /\ slots' = RemoveAt(slots, i)
  /\ tx_slot_idx' = IF tx_slot_idx < Len(slots) - 1 THEN tx_slot_idx
                    ELSE IF Len(slots) > 1 THEN Len(slots) - 2 ELSE 0

DropJoinIo ==
  /\ gui = "dropIo"
  /\ IoJoin(slots[at]) /\ ioStop' = ioStop \ {slots[at]}
  /\ open' = open \ {slots[at]}
  /\ hw' = IF hw = slots[at] THEN None ELSE hw
  /\ Erase(at) /\ at' = 0
  /\ \/ /\ Len(slots) = 1
        /\ gui' = "dropLast" /\ connected' = FALSE /\ AskTxToStop
     \/ /\ Len(slots) > 1
        /\ gui' = IF TxRunning THEN "idle" ELSE "startTx"
        /\ UNCHANGED <<connected, txStop>>
  /\ UNCHANGED <<dev, after, log_mode, recording, paused, tx, todo, cur, jobVars>>

DropLast ==
  /\ gui = "dropLast"
  /\ TxJoin
  /\ gui' = "idle" /\ recording' = FALSE
  /\ UNCHANGED <<dev, at, after, slots, open, connected, log_mode, tx_slot_idx,
                 ioVars, jobVars>>
-----------------------------------------------------------------------------
(* disconnect(), called by "Disconnect All", by the confirmation that       *)
(* precedes an import, and on the way out; then what the caller does next.  *)

DisconnectAll(next) ==
  /\ gui = "idle"
  /\ \/ next = "idle" /\ connected
     \/ next = "import" /\ connected
     \/ next = "exit"
  /\ gui' = "allTx" /\ after' = next
  /\ AskTxToStop
  /\ recording' = IF next = "exit" THEN FALSE ELSE recording
  /\ UNCHANGED <<dev, at, slots, open, connected, log_mode, tx_slot_idx, ioVars,
                 tx, hw, todo, cur, jobVars>>

NextSlotStopsShort(i) ==
  IF i < Len(slots)
  THEN /\ gui' = "allIo" /\ at' = i
       /\ UNCHANGED <<after, slots, connected>>
  ELSE /\ gui' = after /\ at' = 0 /\ after' = "idle"
       /\ slots' = << >> /\ connected' = FALSE

\* The GUI thread comes to the i-th slot, or is past the last one.
NextSlot(i) ==
  IF i <= Len(slots)
  THEN /\ gui' = "allIo" /\ at' = i
       /\ UNCHANGED <<after, slots, connected>>
  ELSE /\ gui' = after /\ at' = 0 /\ after' = "idle"
       /\ slots' = << >> /\ connected' = FALSE

AllJoinTx ==
  /\ gui = "allTx"
  /\ TxJoin
  /\ recording' = FALSE
  /\ NextSlot(1)
  /\ ioStop' = IF slots = << >> THEN ioStop ELSE ioStop \cup {slots[1]}
  /\ UNCHANGED <<dev, open, log_mode, tx_slot_idx, io, paused, jobVars>>

AllJoinIo ==
  /\ gui = "allIo"
  /\ IoJoin(slots[at])
  /\ open' = open \ {slots[at]}
  /\ NextSlot(at + 1)
  /\ ioStop' = (ioStop \ {slots[at]}) \cup
               (IF at < Len(slots) THEN {slots[at + 1]} ELSE {})
  /\ UNCHANGED <<dev, log_mode, recording, tx_slot_idx, paused, txVars, jobVars>>
-----------------------------------------------------------------------------
(* Logs.  The file dialog blocks the GUI thread; its result is handled in   *)
(* the same frame.                                                          *)

ImportDialogUnguarded ==
  /\ gui = "idle"
  /\ gui' = "import"
  /\ UNCHANGED <<dev, at, after, slots, open, flags, tx_slot_idx, ioVars, txVars,
                 jobVars>>

ImportDialog ==
  /\ gui = "idle" /\ ~connected
  /\ gui' = "import"
  /\ UNCHANGED <<dev, at, after, slots, open, flags, tx_slot_idx, ioVars, txVars,
                 jobVars>>

\* A readable log is shown; the dialog may be cancelled or the file be bad.
ImportResult ==
  /\ gui = "import"
  /\ gui' = "idle"
  /\ log_mode' \in {log_mode, TRUE}
  /\ UNCHANGED <<dev, at, after, slots, open, connected, recording, tx_slot_idx,
                 ioVars, txVars, jobVars>>

\* "New Log" stops the recording and tries to begin another.
NewLog ==
  /\ gui = "idle" /\ recording
  /\ recording' \in BOOLEAN
  /\ UNCHANGED <<guiVars, slots, open, connected, log_mode, tx_slot_idx, ioVars,
                 txVars, jobVars>>
-----------------------------------------------------------------------------
(* The transmitter panel.  Adding a message and drawing the list each hold  *)
(* the scheduler's mutex; a frame of the GUI handles at most one click.     *)

DrawTransmitter ==
  /\ gui = "idle" /\ connected
  /\ gui' = "lock"
  /\ UNCHANGED <<dev, at, after, slots, open, flags, tx_slot_idx, ioVars, txVars,
                 jobVars>>

GuiLocksAlways == gui = "lock"

\* The GUI thread gets the mutex.
GuiLocks == gui = "lock" /\ mtx = "free"

\* Add, Start, Stop, Remove, or nothing, with the mutex held throughout.
EditJobs ==
  /\ GuiLocks
  /\ gui' = "idle"
  /\ \/ UNCHANGED jobs
     \/ \E j \in Jobs :
          \/ jobs[j] = "absent" /\ jobs' = [jobs EXCEPT ![j] = "off"]
          \/ jobs[j] = "off" /\ jobs' = [jobs EXCEPT ![j] = "on"]
          \/ jobs[j] = "on" /\ jobs' = [jobs EXCEPT ![j] = "off"]
          \/ jobs[j] # "absent" /\ jobs' = [jobs EXCEPT ![j] = "absent"]
  /\ UNCHANGED <<dev, at, after, slots, open, flags, tx_slot_idx, ioVars, txVars,
                 mtx>>

\* adapter_send() on the GUI thread, inside with_jobs().
SendOnce ==
  /\ GuiLocks
  /\ \E j \in Jobs : jobs[j] # "absent"
  /\ gui' = "send" /\ mtx' = "gui"
  /\ UNCHANGED <<dev, at, after, slots, open, flags, tx_slot_idx, ioVars, txVars,
                 jobs>>

SentOnce ==
  /\ gui = "send"
  /\ gui' = "idle" /\ mtx' = "free"
  /\ UNCHANGED <<dev, at, after, slots, open, flags, tx_slot_idx, ioVars, txVars,
                 jobs>>
-----------------------------------------------------------------------------
(* tx_scheduler::run().  The mutex is held from the first job of a round to *)
(* the last, while the adapter sends as well.                               *)

TxStep(from, to) == tx = from /\ tx' = to /\ UNCHANGED <<txStop, hw>>

other == <<guiVars, slots, open, flags, tx_slot_idx>>

TxCheck ==
  /\ TxStep("check", IF txStop THEN "done" ELSE "lock")
  /\ UNCHANGED <<other, ioVars, todo, cur, jobVars>>

TxLock ==
  /\ TxStep("lock", "scan")
  /\ mtx = "free" /\ mtx' = "tx"
  /\ todo' = {j \in Jobs : jobs[j] = "on"}
  /\ UNCHANGED <<other, ioVars, cur, jobs>>

TxNotDue(j) ==
  /\ TxStep("scan", "scan")
  /\ j \in todo /\ todo' = todo \ {j}
  /\ UNCHANGED <<other, ioVars, cur, jobVars>>

TxSend(j) ==
  /\ TxStep("scan", "send")
  /\ j \in todo /\ todo' = todo \ {j} /\ cur' = j
  /\ UNCHANGED <<other, ioVars, jobVars>>

TxSent ==
  /\ TxStep("send", "scan")
  /\ cur' = None
  /\ UNCHANGED <<other, ioVars, todo, jobVars>>

TxUnlock ==
  /\ TxStep("scan", "sleep")
  /\ todo = {}
  /\ mtx' = "free"
  /\ UNCHANGED <<other, ioVars, todo, cur, jobs>>

TxWake ==
  /\ TxStep("sleep", "check")
  /\ UNCHANGED <<other, ioVars, todo, cur, jobVars>>

TxNext == \/ TxCheck \/ TxLock \/ TxSent \/ TxUnlock \/ TxWake
          \/ \E j \in Jobs : TxNotDue(j) \/ TxSend(j)
-----------------------------------------------------------------------------
(* adapter_slot::start_io().                                                *)

IoCheckIgnoresStop(d) ==
  /\ io[d] = "check"
  /\ io' = [io EXCEPT ![d] = IF d \in paused THEN "nap" ELSE "recv"]
  /\ UNCHANGED <<other, ioStop, paused, txVars, jobVars>>

IoCheck(d) ==
  /\ io[d] = "check"
  /\ io' = [io EXCEPT ![d] = CASE d \in ioStop -> "done"
                               [] d \in paused \ ioStop -> "nap"
                               [] OTHER -> "recv"]
  /\ UNCHANGED <<other, ioStop, paused, txVars, jobVars>>

\* The nap is over, or adapter_recv_many() has returned frames or an error.
IoBack(d) ==
  /\ io[d] \in {"nap", "recv"}
  /\ io' = [io EXCEPT ![d] = "check"]
  /\ UNCHANGED <<other, ioStop, paused, txVars, jobVars>>
-----------------------------------------------------------------------------

Command == \/ \E d \in Devices : ConnectRefused(d) \/ Connect(d)
           \/ \E i \in 1 .. Len(slots) : SetTx(i) \/ DisconnectSlot(i)
           \/ \E next \in {"idle", "import", "exit"} : DisconnectAll(next)
           \/ ImportDialog \/ NewLog \/ DrawTransmitter

\* What the GUI thread does to finish a command.
Finish == \/ OpenFailed \/ OpenDenied \/ Opened \/ StartTx
          \/ DropJoinTx \/ DropJoinIo \/ DropLast \/ AllJoinTx \/ AllJoinIo
          \/ ImportResult \/ EditJobs \/ SendOnce \/ SentOnce

\* main() has returned.
Terminated == gui = "exit" /\ UNCHANGED vars

Next == \/ Command \/ Finish \/ TxNext
        \/ \E d \in Devices : IoCheck(d) \/ IoBack(d)
        \/ Terminated

(* Every thread is scheduled, and every call into an adapter or a dialog    *)
(* returns.  A mutex that is free again and again is obtained: the          *)
(* scheduler leaves it between two rounds, mostly for a sleep.  The user is *)
(* not obliged to do anything.                                              *)
Fairness == /\ WF_vars(Finish) /\ SF_vars(EditJobs \/ SendOnce)
            /\ WF_vars(TxNext)
            /\ \A d \in Devices : WF_vars(IoCheck(d) \/ IoBack(d))

Spec == Init /\ [][Next]_vars
FairSpec == Spec /\ Fairness
-----------------------------------------------------------------------------

TypeOK == /\ gui \in {"idle", "opening", "retry", "startTx", "startFirst",
                      "dropTx", "dropIo", "dropLast", "allTx", "allIo", "import",
                      "exit", "lock", "send"}
          /\ dev \in Devices \cup {None}
          /\ at \in Nat
          /\ after \in {"idle", "import", "exit"}
          /\ slots \in Seq(Devices) /\ IsInjective(slots)
          /\ open \in SUBSET Devices
          /\ connected \in BOOLEAN /\ log_mode \in BOOLEAN /\ recording \in BOOLEAN
          /\ tx_slot_idx \in Nat
          /\ io \in [Devices -> {"none", "check", "recv", "nap", "done"}]
          /\ ioStop \in SUBSET Devices /\ paused \in SUBSET Devices
          /\ tx \in {"none", "check", "lock", "scan", "send", "sleep", "done"}
          /\ txStop \in BOOLEAN
          /\ hw \in Devices \cup {None}
          /\ todo \in SUBSET Jobs /\ cur \in Jobs \cup {None}
          /\ jobs \in [Jobs -> {"absent", "off", "on"}]
          /\ mtx \in {"free", "gui", "tx"}

(* An I/O thread refers to its slot and its slot's adapter: while the       *)
(* thread exists the slot is in the list and the adapter is open, through   *)
(* every step of connecting and disconnecting, in any order, the others     *)
(* (app_state.hpp:138-156, 552-586).                                        *)
IoOwned == \A d \in Devices : io[d] # "none" => d \in ToSet(slots) \cap open

(* Between two commands the session agrees with itself: the flag            *)
(* `connected', the list of slots, the transmit thread and the recording    *)
(* come and go together; every slot has an open adapter and a thread that   *)
(* receives, none of them left paused or on its way to stop; the mark is a  *)
(* slot (app_state.hpp:454-586).                                            *)
SessionConsistent ==
  gui = "idle" =>
    /\ connected <=> slots # << >>
    /\ TxRunning <=> slots # << >>
    /\ recording => connected
    /\ open = ToSet(slots) /\ paused = {} /\ ioStop = {} /\ ~txStop
    /\ \A d \in open : io[d] \in {"check", "recv", "nap"}
    /\ connected => tx_slot_idx < Len(slots)

(* "Send Once" and the scheduler never transmit at the same time, and the   *)
(* scheduler transmits nothing the user has stopped or removed              *)
(* (tx_scheduler.hpp:82-86, 105-126).                                       *)
SendSerialised == tx = "send" => gui # "send" /\ cur \in Jobs /\ jobs[cur] = "on"

(* A log is shown only while no adapter is connected: importing disconnects *)
(* first, connecting leaves the log (gui_main.cpp:300-310, 520-541,         *)
(* connection.hpp:133-158).                                                 *)
LogModeExclusive == log_mode => ~connected

(* When main() returns no thread is left, nothing is open or recorded.      *)
ExitClean == gui = "exit" => /\ \A d \in Devices : io[d] = "none"
                             /\ tx = "none" /\ open = {} /\ ~recording

(* Between two commands the scheduler transmits on the slot the panel marks *)
(* with [TX] (connection.hpp:29-31, tx_scheduler.hpp:88-91).                *)
TxOnMarked == gui = "idle" /\ connected =>
                tx_slot_idx < Len(slots) /\ hw = Marked

(* A frame is sent only on an adapter that is open: no thread sends on one  *)
(* that a command is closing or has destroyed.                              *)
SendsOnOpen == /\ tx = "send" => hw \in open
               /\ gui = "send" => Marked \in open

(* Every command comes to its end: the GUI thread never waits for ever for  *)
(* a thread to join or for the mutex, whatever the other threads were doing *)
(* when it asked.  That a mutex which is free again and again is obtained   *)
(* is assumed.                                                              *)
GuiReturns == gui # "idle" ~> gui \in {"idle", "exit"}
=============================================================================
