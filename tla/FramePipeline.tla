--------------------------- MODULE FramePipeline ---------------------------
(***************************************************************************)
(* From the buffers to the screen: what the GUI thread does with the       *)
(* frames that the I/O threads and the replay thread hand over.  A frame   *)
(* of the GUI is a menu command or none, poll_frames(), and a panel        *)
(* command or none; gui says where the GUI thread is in it.  The rows, the *)
(* scrollback, the statistics and the signals are filled in two ways: one  *)
(* by one as frames are polled, and from a log that is imported.           *)
(*                                                                         *)
(* Connecting and disconnecting are those of AdapterSession without their  *)
(* threads; the session log that poll_frames() also writes is not here.    *)
(*                                                                         *)
(* A frame's field `from' is not in the code: it tells where the frame     *)
(* came from.                                                              *)
(*                                                                         *)
(* Operators named after a slip (ClearKeepsFrozen...) are mutants: what    *)
(* the definition that follows would be with that slip.                    *)
(***************************************************************************)
EXTENDS Integers, SequencesExt

CONSTANTS Devices,        \* adapters
          Ids,            \* CAN ids, as numbers: standard and extended ones alike
          OnBus,          \* what the adapters receive: ids, standard or extended
          Described,      \* those a DBC file that is loaded describes
          Logs,           \* logs that may be imported or replayed
          Capacity,       \* of a frame buffer
          MaxScrollback,  \* k_max_scrollback
          MaxFrames       \* bounds what is under way and counted; not in the code

Unset == 255              \* can_frame::source before anybody sets it
Channels == 0 .. Unset
Record == [id : Ids, extended : BOOLEAN, source : Channels]
Frame == [id : Ids, extended : BOOLEAN, source : Channels, error : BOOLEAN,
          from : {"bus", "replay", "log"}]
Row == [frame : Frame, count : Nat \ {0}]

ASSUME PipelineConstants ==
  /\ IsFiniteSet(Ids) /\ Described \subseteq Ids
  /\ OnBus \subseteq [id : Ids, extended : BOOLEAN]
  /\ Logs \subseteq Seq(Record) \ {<< >>}
  /\ Capacity \in Nat \ {0} /\ MaxScrollback \in Nat \ {0} /\ MaxFrames \in Nat

VARIABLES
  gui, at, batch,           \* the GUI thread, next slot and frames of a poll
  slots, slotDbc, rx,       \* adapter_slots, those with a DBC, their buffers
  log_mode, log_dbc,        \* a log is shown; its channels with a DBC
  imported, todo,           \* imported_frames, what import_log() has still to do
  rows, index,              \* monitor_rows, monitor_index (counted from 1)
  frozen_rows, freeze,      \* what Freeze kept, monitor_freeze
  scrollback, has_first,    \* has_first_frame
  per_id, errors,           \* bus_stats
  signals,                  \* samples in the signal store, by id
  missed,                   \* not in the code: frames no row counts, by id
  replay, stop,             \* the replay thread, and whether it was asked to stop
  played, pos, next,        \* its log, its place in it, the log to start with
  replaying, paused,        \* replay_paused
  replay_buf

guiVars == <<gui, at, batch>>
slotVars == <<slots, slotDbc, rx>>
logVars == <<log_mode, log_dbc, imported, todo>>
rowVars == <<rows, index, missed>>
statVars == <<per_id, errors, has_first>>
shownVars == <<rowVars, statVars, frozen_rows, scrollback, signals>>
threadVars == <<replay, stop, played, pos, next, replaying, paused>>
vars == <<guiVars, slotVars, logVars, shownVars, freeze, threadVars, replay_buf>>

None == [i \in Ids |-> 0]
NoIndex == [k \in {} |-> 0]

Init == /\ gui = "menu" /\ at = 1 /\ batch = << >>
        /\ slots = << >> /\ slotDbc = {} /\ rx = [d \in Devices |-> << >>]
        /\ log_mode = FALSE /\ log_dbc = {} /\ imported = << >> /\ todo = << >>
        /\ rows = << >> /\ index = NoIndex /\ missed = None
        /\ frozen_rows = << >> /\ freeze = FALSE
        /\ scrollback = << >> /\ has_first = FALSE
        /\ per_id = None /\ errors = 0 /\ signals = None
        /\ replay = "none" /\ stop = FALSE /\ played = << >> /\ pos = 1
        /\ next = << >> /\ replaying = FALSE /\ paused = FALSE
        /\ replay_buf = << >>
-----------------------------------------------------------------------------
(* The threads that fill the buffers.  A full buffer drops its oldest frame *)
(* (FrameBuffer).                                                           *)

Push(q, f) == Append(IF Len(q) < Capacity THEN q ELSE Tail(q), f)

Total(count) == MapThenSumSet(LAMBDA i : count[i], Ids)

\* Frames counted since the last clear, and those that will be.
Load == Total(per_id) + errors + Len(batch) + Len(todo) + Len(replay_buf) + Len(next)
        + (IF replay \in {"none", "done"} THEN 0 ELSE Len(played) + 1 - pos)
        + MapThenSumSet(LAMBDA d : Len(rx[d]), Devices)

Receive(d, m, e) ==
  /\ d \in ToSet(slots) /\ Load < MaxFrames
  /\ rx' = [rx EXCEPT ![d] = Push(@, [id |-> m.id, extended |-> m.extended, source |-> Unset,
                                      error |-> e, from |-> "bus"])]
  /\ UNCHANGED <<guiVars, slots, slotDbc, logVars, shownVars, freeze, threadVars,
                 replay_buf>>

\* What the replay thread leaves alone.
others == <<guiVars, slotVars, logVars, shownVars, freeze, stop, played, next, paused>>

ReplayEndKeepsFlag ==
  /\ \/ replay = "head" /\ (stop \/ pos > Len(played))
     \/ replay = "pause" /\ stop
  /\ replay' = "done"
  /\ UNCHANGED <<others, pos, replaying, replay_buf>>

ReplayEndNaps ==
  \/ /\ replay = "head" /\ (stop \/ pos > Len(played))
     /\ replay' = "done" /\ replaying' = FALSE
     /\ UNCHANGED <<others, pos, replay_buf>>
  \/ /\ replay = "pause" /\ stop
     /\ UNCHANGED <<others, replay, pos, replaying, replay_buf>>

\* The log is played, or the thread is asked to stop.
ReplayEnd ==
  /\ \/ replay = "head" /\ (stop \/ pos > Len(played))
     \/ replay = "pause" /\ stop
  /\ replay' = "done" /\ replaying' = FALSE
  /\ UNCHANGED <<others, pos, replay_buf>>

ReplayNext ==
  /\ replay = "head" /\ ~stop /\ pos <= Len(played)
  /\ replay' = "pause"
  /\ UNCHANGED <<others, pos, replaying, replay_buf>>

\* While it is paused the thread naps and looks again.
ReplayGoesOn ==
  /\ replay = "pause" /\ ~stop /\ ~paused
  /\ replay' = "wait"
  /\ UNCHANGED <<others, pos, replaying, replay_buf>>

LoggedFrame(r, from) == [id |-> r.id, extended |-> r.extended, source |-> r.source,
                         error |-> FALSE, from |-> from]

\* The frame's time has come.  A stop asked for meanwhile waits for it.
ReplayPush ==
  /\ replay = "wait"
  /\ replay' = "head" /\ pos' = pos + 1
  /\ replay_buf' = Push(replay_buf, LoggedFrame(played[pos], "replay"))
  /\ UNCHANGED <<others, replaying>>

ReplayThread == ReplayEnd \/ ReplayNext \/ ReplayGoesOn \/ ReplayPush
-----------------------------------------------------------------------------
(* What is shown.                                                           *)

\* monitor_key
Key(f) == [id |-> f.id, extended |-> f.extended, source |-> f.source]

NewestOffByOne(s) == IF Len(s) > MaxScrollback
                     THEN SubSeq(s, Len(s) - MaxScrollback, Len(s))
                     ELSE s

\* The oldest frames go.
Newest(s) == IF Len(s) > MaxScrollback
             THEN SubSeq(s, Len(s) - MaxScrollback + 1, Len(s))
             ELSE s

Add1(count, i) == [count EXCEPT ![i] = @ + 1]

\* bus_stats::record(), by the number of the id alone.
RecordStats(f) == IF f.error THEN errors' = errors + 1 /\ UNCHANGED per_id
                             ELSE per_id' = Add1(per_id, f.id) /\ UNCHANGED errors

\* dbc_for_frame(f).has_message(f.id): standard or extended is not asked.
Decodable(f) ==
  /\ f.id \in Described
  /\ \/ log_mode /\ f.source \in log_dbc
     \/ ~log_mode /\ f.source < Len(slots) /\ slots[f.source + 1] \in slotDbc

Decode(f) == signals' = IF Decodable(f) THEN Add1(signals, f.id) ELSE signals

CountIn(f, i) == rows' = [rows EXCEPT ![i] = [frame |-> f, count |-> @.count + 1]]
NewRow(f) == rows' = Append(rows, [frame |-> f, count |-> 1])

ClearKeepsIndex(first) ==
  /\ rows' = << >> /\ missed' = None /\ frozen_rows' = << >>
  /\ scrollback' = << >> /\ has_first' = first
  /\ per_id' = None /\ errors' = 0 /\ signals' = None
  /\ UNCHANGED index

ClearKeepsFrozen(first) ==
  /\ rows' = << >> /\ index' = NoIndex /\ missed' = None
  /\ scrollback' = << >> /\ has_first' = first
  /\ per_id' = None /\ errors' = 0 /\ signals' = None
  /\ UNCHANGED frozen_rows

ClearKeepsStats(first) ==
  /\ rows' = << >> /\ index' = NoIndex /\ missed' = None
  /\ frozen_rows' = << >> /\ scrollback' = << >> /\ has_first' = first
  /\ signals' = None
  /\ UNCHANGED <<per_id, errors>>

\* clear_monitor(); a MoTeC log sets has_first_frame afterwards.
Clear(first) ==
  /\ rows' = << >> /\ index' = NoIndex /\ missed' = None
  /\ frozen_rows' = << >> /\ scrollback' = << >> /\ has_first' = first
  /\ per_id' = None /\ errors' = 0 /\ signals' = None
-----------------------------------------------------------------------------
(* poll_frames(): drain the slots in turn, then the replay's buffer, and    *)
(* show what came, frame by frame.                                          *)

Tagged(q, source) == [k \in DOMAIN q |-> [q[k] EXCEPT !.source = source]]

BeginPoll ==
  /\ gui = "menu"
  /\ gui' = "poll"
  /\ UNCHANGED <<at, batch, slotVars, logVars, shownVars, freeze, threadVars,
                 replay_buf>>

DrainSlotNotLast ==
  /\ gui = "poll" /\ at <= Len(slots)
  /\ IF at < Len(slots)
     THEN /\ batch' = batch \o Tagged(rx[slots[at]], (at - 1) % 256)
          /\ rx' = [rx EXCEPT ![slots[at]] = << >>]
     ELSE UNCHANGED <<batch, rx>>
  /\ at' = at + 1
  /\ UNCHANGED <<gui, slots, slotDbc, logVars, shownVars, freeze, threadVars,
                 replay_buf>>

DrainSlot ==
  /\ gui = "poll" /\ at <= Len(slots)
  /\ batch' = batch \o Tagged(rx[slots[at]], (at - 1) % 256)
  /\ rx' = [rx EXCEPT ![slots[at]] = << >>]
  /\ at' = at + 1
  /\ UNCHANGED <<gui, slots, slotDbc, logVars, shownVars, freeze, threadVars,
                 replay_buf>>

DrainWhileReplaying ==
  /\ gui = "poll" /\ at > Len(slots)
  /\ IF replaying THEN batch' = batch \o replay_buf /\ replay_buf' = << >>
                  ELSE UNCHANGED <<batch, replay_buf>>
  /\ gui' = "show" /\ at' = 1
  /\ UNCHANGED <<slotVars, logVars, shownVars, freeze, threadVars>>

DrainReplay ==
  /\ gui = "poll" /\ at > Len(slots)
  /\ batch' = batch \o replay_buf /\ replay_buf' = << >>
  /\ gui' = "show" /\ at' = 1
  /\ UNCHANGED <<slotVars, logVars, shownVars, freeze, threadVars>>

ShowError ==
  /\ gui = "show" /\ batch # << >> /\ Head(batch).error
  /\ batch' = Tail(batch)
  /\ has_first' = TRUE /\ RecordStats(Head(batch))
  /\ UNCHANGED <<gui, at, slotVars, logVars, rowVars, frozen_rows, scrollback,
                 signals, freeze, threadVars, replay_buf>>

PutRowFromZero(f) ==
  LET k == Key(f)
  IN IF k \in DOMAIN index
     THEN CountIn(f, index[k]) /\ UNCHANGED index
     ELSE /\ NewRow(f)
          /\ index' = [j \in DOMAIN index \cup {k} |->
                         IF j = k THEN Len(rows) ELSE index[j]]

PutRow(f) ==
  LET k == Key(f)
  IN IF k \in DOMAIN index
     THEN CountIn(f, index[k]) /\ UNCHANGED index
     ELSE /\ NewRow(f)
          /\ index' = [j \in DOMAIN index \cup {k} |->
                         IF j = k THEN Len(rows) + 1 ELSE index[j]]

ShowFrame ==
  /\ gui = "show" /\ batch # << >> /\ ~Head(batch).error
  /\ batch' = Tail(batch)
  /\ has_first' = TRUE /\ RecordStats(Head(batch))
  /\ scrollback' = Newest(Append(scrollback, Head(batch)))
  /\ Decode(Head(batch))
  /\ \/ ~freeze /\ PutRow(Head(batch)) /\ UNCHANGED missed
     \/ freeze /\ missed' = Add1(missed, Head(batch).id) /\ UNCHANGED <<rows, index>>
  /\ UNCHANGED <<gui, at, slotVars, logVars, frozen_rows, freeze, threadVars,
                 replay_buf>>

EndPoll ==
  /\ gui = "show" /\ batch = << >>
  /\ gui' = "panels"
  /\ UNCHANGED <<at, batch, slotVars, logVars, shownVars, freeze, threadVars,
                 replay_buf>>
-----------------------------------------------------------------------------
(* The menu: replays.                                                       *)

ToJoin == gui = "menu" /\ gui' = "join"

\* "Replay Log...", with a log that holds frames; start_replay() stops first.
OpenReplay(log) ==
  /\ ToJoin
  /\ ~replaying /\ Load + Len(log) <= MaxFrames
  /\ stop' = (replay # "none") /\ next' = log
  /\ UNCHANGED <<at, batch, slotVars, logVars, shownVars, freeze, replay, played,
                 pos, replaying, paused, replay_buf>>

\* "Stop Replay"
StopReplay ==
  /\ ToJoin
  /\ replaying
  /\ stop' = (replay # "none")
  /\ UNCHANGED <<at, batch, slotVars, logVars, shownVars, freeze, replay, played,
                 pos, next, replaying, paused, replay_buf>>

\* "Pause Replay" and "Resume Replay"
PauseReplay ==
  /\ gui = "menu" /\ replaying
  /\ gui' = "poll" /\ paused' = ~paused
  /\ UNCHANGED <<at, batch, slotVars, logVars, shownVars, freeze, replay, stop,
                 played, pos, next, replaying, replay_buf>>

\* The thread has ended; if there is a log to start with, it is played.
Joined ==
  /\ gui = "join" /\ replay \in {"none", "done"}
  /\ gui' = "poll"
  /\ stop' = FALSE /\ paused' = FALSE /\ next' = << >>
  /\ \/ /\ next = << >> /\ replay' = "none" /\ replaying' = FALSE
        /\ UNCHANGED <<played, pos>>
     \/ /\ next # << >> /\ replay' = "head" /\ replaying' = TRUE
        /\ played' = next /\ pos' = 1
  /\ UNCHANGED <<at, batch, slotVars, logVars, shownVars, freeze, replay_buf>>
-----------------------------------------------------------------------------
(* The menu: logs.                                                          *)

\* Slots go, and their buffers and DBC files with them.
NoSlots == slots' = << >> /\ slotDbc' = {} /\ rx' = [d \in Devices |-> << >>]

InPanel == gui = "panels" /\ gui' = "menu"

DisconnectAll ==
  /\ \/ gui = "menu" /\ slots # << >> /\ gui' = "poll"
     \/ InPanel /\ Len(slots) > 1
  /\ NoSlots
  /\ UNCHANGED <<at, batch, logVars, shownVars, freeze, threadVars, replay_buf>>

\* import_log(), after the adapters were disconnected.
ImportLog(log) ==
  /\ gui = "menu" /\ Len(log) <= MaxFrames
  /\ gui' = "import" /\ todo' = log
  /\ NoSlots
  /\ log_mode' = TRUE /\ log_dbc' = {} /\ imported' = << >>
  /\ Clear(FALSE)
  /\ UNCHANGED <<at, batch, freeze, threadVars, replay_buf>>

RowsOf(k) == {i \in DOMAIN rows : Key(rows[i].frame) = k}

\* One turn of its loop: rows are found by looking at them.
ImportFrame ==
  /\ gui = "import" /\ todo # << >>
  /\ LET f == LoggedFrame(Head(todo), "log")
     IN /\ todo' = Tail(todo)
        /\ has_first' = TRUE /\ RecordStats(f)
        /\ imported' = Append(imported, f) /\ scrollback' = Append(scrollback, f)
        /\ Decode(f)
        /\ \/ RowsOf(Key(f)) = {} /\ NewRow(f)
           \/ RowsOf(Key(f)) # {} /\ CountIn(f, Min(RowsOf(Key(f))))
  /\ UNCHANGED <<gui, at, batch, slotVars, log_mode, log_dbc, index, missed,
                 frozen_rows, freeze, threadVars, replay_buf>>

ImportDone ==
  /\ gui = "import" /\ todo = << >>
  /\ gui' = "poll"
  /\ scrollback' = Newest(scrollback)
  /\ UNCHANGED <<at, batch, slotVars, logVars, rowVars, statVars, frozen_rows,
                 signals, freeze, threadVars, replay_buf>>

\* import_motec(): signals of its own, no frames.
ImportMotec ==
  /\ gui = "menu"
  /\ gui' = "poll"
  /\ NoSlots
  /\ log_mode' = TRUE /\ log_dbc' = {} /\ imported' = << >>
  /\ Clear(TRUE)
  /\ UNCHANGED <<at, batch, todo, freeze, threadVars, replay_buf>>

log_channels == {imported[k].source : k \in DOMAIN imported}

\* Samples that decoding `frames' with the DBC files of `channels' gives.
Decoded(frames, channels) ==
  [i \in Ids |-> IF i \in Described
                 THEN Cardinality({k \in DOMAIN frames :
                        frames[k].id = i /\ frames[k].source \in channels})
                 ELSE 0]

RedecodeNothing(channels) == UNCHANGED signals

\* redecode_log(), with the DBC files of `channels'.
Redecode(channels) ==
  signals' = IF imported = << >> THEN signals ELSE Decoded(imported, channels)

\* Load a DBC file for a channel of the log, or unload it.
LogDbc(channels) ==
  /\ gui = "menu" /\ log_mode
  /\ gui' = "poll" /\ log_dbc' = channels
  /\ Redecode(channels)
  /\ UNCHANGED <<at, batch, slotVars, log_mode, imported, todo, rowVars, statVars,
                 frozen_rows, scrollback, freeze, threadVars, replay_buf>>

LoadLogDbc(c) == (c \in log_channels \/ (log_channels = {} /\ c = 0))
                 /\ LogDbc(log_dbc \cup {c})
UnloadLogDbc(c) == c \in log_channels \cap log_dbc /\ LogDbc(log_dbc \ {c})
-----------------------------------------------------------------------------
(* The panels: adapters.                                                    *)

\* connect() succeeds; a log was not shown.
Connect(d) ==
  /\ InPanel /\ ~log_mode
  /\ d \in Devices \ ToSet(slots)
  /\ slots' = Append(slots, d)
  /\ imported' = << >> /\ log_dbc' = {}
  /\ UNCHANGED <<at, batch, slotDbc, rx, log_mode, todo, shownVars, freeze,
                 threadVars, replay_buf>>

LeaveLogKeepsRows(d, connects) ==
  /\ InPanel /\ log_mode
  /\ log_mode' = FALSE /\ imported' = << >>
  /\ IF connects THEN slots' = Append(slots, d) /\ log_dbc' = {}
                 ELSE UNCHANGED <<slots, log_dbc>>
  /\ UNCHANGED <<at, batch, slotDbc, rx, todo, shownVars, freeze, threadVars,
                 replay_buf>>

\* A log was shown: the user confirms, and connect() succeeds or not.
LeaveLog(d, connects) ==
  /\ InPanel /\ log_mode
  /\ log_mode' = FALSE /\ imported' = << >>
  /\ Clear(FALSE)
  /\ IF connects THEN slots' = Append(slots, d) /\ log_dbc' = {}
                 ELSE UNCHANGED <<slots, log_dbc>>
  /\ UNCHANGED <<at, batch, slotDbc, rx, todo, freeze, threadVars, replay_buf>>

DisconnectSlot(i) ==
  /\ InPanel /\ i \in DOMAIN slots
  /\ slots' = RemoveAt(slots, i)
  /\ slotDbc' = slotDbc \ {slots[i]} /\ rx' = [rx EXCEPT ![slots[i]] = << >>]
  /\ UNCHANGED <<at, batch, logVars, shownVars, freeze, threadVars, replay_buf>>

\* A slot's "Load DBC..." and "Unload".
SlotDbc(d) ==
  /\ InPanel /\ d \in ToSet(slots)
  /\ slotDbc' = IF d \in slotDbc THEN slotDbc \ {d} ELSE slotDbc \cup {d}
  /\ UNCHANGED <<at, batch, slots, rx, logVars, shownVars, freeze, threadVars,
                 replay_buf>>
-----------------------------------------------------------------------------
(* The panels: the monitor.                                                 *)

ToggleFreeze ==
  /\ InPanel
  /\ freeze' = ~freeze
  /\ frozen_rows' = IF freeze' THEN rows ELSE frozen_rows
  /\ UNCHANGED <<at, batch, slotVars, logVars, rowVars, statVars, scrollback,
                 signals, threadVars, replay_buf>>

ClearMonitor ==
  /\ InPanel
  /\ Clear(FALSE)
  /\ UNCHANGED <<at, batch, slotVars, logVars, freeze, threadVars, replay_buf>>

ClearDelta ==
  /\ InPanel /\ frozen_rows # << >>
  /\ frozen_rows' = << >>
  /\ UNCHANGED <<at, batch, slotVars, logVars, rowVars, statVars, scrollback,
                 signals, freeze, threadVars, replay_buf>>

NoPanelCommand ==
  /\ InPanel
  /\ UNCHANGED <<at, batch, slotVars, logVars, shownVars, freeze, threadVars,
                 replay_buf>>
-----------------------------------------------------------------------------

Menu == \/ BeginPoll \/ StopReplay \/ PauseReplay \/ DisconnectAll \/ ImportMotec
        \/ \E log \in Logs : OpenReplay(log) \/ ImportLog(log)
        \/ \E c \in log_channels \cup {0} : LoadLogDbc(c) \/ UnloadLogDbc(c)

Working == \/ Joined \/ ImportFrame \/ ImportDone
           \/ DrainSlot \/ DrainReplay \/ ShowError \/ ShowFrame \/ EndPoll

Panels == \/ ToggleFreeze \/ ClearMonitor \/ ClearDelta \/ NoPanelCommand
          \/ \E d \in Devices : \/ Connect(d) \/ SlotDbc(d)
                                \/ \E connects \in BOOLEAN : LeaveLog(d, connects)
          \/ \E i \in DOMAIN slots : DisconnectSlot(i)

Gui == Menu \/ Working \/ Panels

Next == \/ Gui \/ ReplayThread
        \/ \E d \in Devices, m \in OnBus, e \in BOOLEAN : Receive(d, m, e)

(* The GUI loop goes round, the replay thread is scheduled, and the user    *)
(* is not obliged to resume a replay that is paused.                        *)
Fairness == WF_vars(Gui) /\ WF_vars(ReplayThread)

Spec == Init /\ [][Next]_vars
FairSpec == Spec /\ Fairness
-----------------------------------------------------------------------------

GuiType ==
  /\ gui \in {"menu", "join", "import", "poll", "show", "panels"}
  /\ at \in Nat \ {0} /\ batch \in Seq(Frame)

SlotType == /\ slots \in Seq(Devices) /\ slotDbc \in SUBSET Devices
            /\ rx \in [Devices -> Seq(Frame)]

LogType == /\ log_mode \in BOOLEAN /\ log_dbc \in SUBSET Channels
           /\ imported \in Seq(Frame) /\ todo \in Seq(Record)

RowType == /\ rows \in Seq(Row) /\ frozen_rows \in Seq(Row)
           /\ index \in [DOMAIN index -> Nat \ {0}]
           /\ freeze \in BOOLEAN /\ missed \in [Ids -> Nat]

StatType == /\ scrollback \in Seq(Frame) /\ has_first \in BOOLEAN
            /\ per_id \in [Ids -> Nat] /\ errors \in Nat
            /\ signals \in [Ids -> Nat]

ReplayType ==
  /\ replay \in {"none", "head", "pause", "wait", "done"} /\ stop \in BOOLEAN
  /\ played \in Seq(Record) /\ pos \in Nat \ {0} /\ next \in Seq(Record)
  /\ replaying \in BOOLEAN /\ paused \in BOOLEAN
  /\ replay_buf \in Seq(Frame)

TypeOK == GuiType /\ SlotType /\ LogType /\ RowType /\ StatType /\ ReplayType

(* The index and the rows agree: an entry leads to the row of its key, and  *)
(* while no log is shown every row has its entry, so that no key has two    *)
(* rows, whatever was connected, cleared, imported, replayed or frozen      *)
(* before (app_state.hpp:623-636, 705-715, 764-778).                        *)
RowsIndexed ==
  /\ \A k \in DOMAIN index : /\ index[k] \in DOMAIN rows
                             /\ Key(rows[index[k]].frame) = k
  /\ ~log_mode => \A n \in DOMAIN rows : /\ Key(rows[n].frame) \in DOMAIN index
                                         /\ index[Key(rows[n].frame)] = n

(* What Freeze kept is an earlier state of the rows shown, row by row: the  *)
(* changes that are marked are changes since then, and never differences to *)
(* rows of a session that was cleared (app_state.hpp:640-645, 708).         *)
FrozenIsPast ==
  \A n \in DOMAIN frozen_rows :
    /\ n \in DOMAIN rows
    /\ Key(frozen_rows[n].frame) = Key(rows[n].frame)
    /\ frozen_rows[n].count <= rows[n].count

(* The rows and the statistics count the same frames.  Statistics are kept  *)
(* by the number of the id, rows by number, extended flag and channel: for  *)
(* each number, the rows of all its channels, standard and extended, add up *)
(* to the statistics, but for frames that were polled while the monitor was *)
(* frozen (app_state.hpp:102, 606-636, 749-778).                            *)
CountsAgree ==
  \A i \in Ids :
    MapThenSumSet(LAMBDA n : rows[n].count, {n \in DOMAIN rows : rows[n].frame.id = i})
      + missed[i] = per_id[i]

(* The scrollback holds every frame counted since the last clear, up to its *)
(* limit, and errors are no part of it (app_state.hpp:608-611, 781).        *)
ScrollbackFull ==
  /\ gui # "import" =>
       Len(scrollback) = IF Total(per_id) < MaxScrollback THEN Total(per_id)
                                                          ELSE MaxScrollback
  /\ \A n \in DOMAIN scrollback : ~scrollback[n].error

\* The scrollback holds frames of the imported log only.
OnlyLog == /\ log_mode /\ gui # "import"
           /\ scrollback # << >>
           /\ \A n \in DOMAIN scrollback : scrollback[n].from = "log"

(* An imported log is shown whole and alone until something is replayed or  *)
(* the monitor is cleared: statistics and signals, both by the number of    *)
(* the id, are what the log and the DBC files loaded for its channels give, *)
(* in whichever order they were loaded and unloaded, and nothing of an      *)
(* earlier session is added (app_state.hpp:717-799).                        *)
LogShown ==
  OnlyLog => /\ signals = Decoded(imported, log_dbc)
             /\ \A i \in Ids : per_id[i] =
                  Cardinality({n \in DOMAIN imported : imported[n].id = i})
             /\ errors = 0

(* Connecting leaves nothing of a log that was shown, whether the adapter   *)
(* opens or not (connection.hpp:142-158, app_state.hpp:511-515).            *)
LiveHasNoLog ==
  ~log_mode => /\ imported = << >>
               /\ \A n \in DOMAIN scrollback : scrollback[n].from # "log"
               /\ \A n \in DOMAIN rows : rows[n].frame.from # "log"

(* The menu offers "Stop Replay" exactly while the replay thread plays,     *)
(* whether it was stopped, replaced or came to the end of its log at any    *)
(* moment in between (gui_main.cpp:349-383, app_state.hpp:647-701).         *)
ReplayFlag == replaying <=> replay \notin {"none", "done"}

(* Frames a replay had pushed before it was stopped are shown in the same   *)
(* frame of the GUI and none later (app_state.hpp:588-600, 696-701).        *)
NothingLeftOver ==
  replay = "none" /\ gui \in {"panels", "menu"} => replay_buf = << >> /\ batch = << >>

(* Stopping a replay ends, although the thread may be paused, or waiting    *)
(* for the time of its next frame (app_state.hpp:664-681, 696-701).         *)
JoinEnds == gui = "join" ~> gui # "join"

\* Frames from the bus of the slot that has d now are in the batch.
InBatch(d) ==
  \E i \in DOMAIN slots, k \in DOMAIN batch :
    slots[i] = d /\ batch[k].from = "bus" /\ batch[k].source = (i - 1) % 256

(* Frames that wait in a buffer when a frame of the GUI begins come to be   *)
(* shown, under the tag their slot has then, however many adapters there    *)
(* are and whatever the user does, unless the user disconnects the slot,    *)
(* which throws them away (app_state.hpp:555-557, 588-593).                 *)
FramesArePolled ==
  \A d \in Devices : gui = "menu" /\ rx[d] # << >> ~> InBatch(d) \/ d \notin ToSet(slots)
=============================================================================
