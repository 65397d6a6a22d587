------------------------ MODULE FramePipelineProofs ------------------------
(***************************************************************************)
(* For any adapters, ids, logs and bounds: what FramePipeline keeps true   *)
(* of the rows, of what Freeze kept, of logs and of replays; that the rows *)
(* and the statistics count the same frames, that the scrollback holds as  *)
(* many as were counted, and that an imported log is shown whole and alone.*)
(***************************************************************************)
EXTENDS FramePipeline, SequenceTheorems, FiniteSetTheorems, WellFoundedInduction, NaturalsInduction, TLAPS

-----------------------------------------------------------------------------
(* The invariant: what the runs check, and what holds inside a command.     *)

\* No frame of s is of an imported log.
NotLogged(s) == \A n \in DOMAIN s : s[n].from # "log"

FlowInv ==
  /\ replay \in {"pause", "wait"} => pos \in DOMAIN played
  /\ gui = "import" => log_mode /\ DOMAIN index = {} /\ frozen_rows = << >>
  /\ replay = "none" => gui = "poll" \/ replay_buf = << >>
  /\ gui \notin {"poll", "show"} => batch = << >>

\* Imported frames never pass through a buffer.
BufferInv == /\ NotLogged(batch) /\ NotLogged(replay_buf)
             /\ \A d \in Devices : NotLogged(rx[d])

MonitorInv == RowsIndexed /\ FrozenIsPast /\ LiveHasNoLog

IInv == TypeOK /\ FlowInv /\ BufferInv /\ MonitorInv /\ ReplayFlag

-----------------------------------------------------------------------------
(* Which steps change which part of the state.                              *)

\* The slots and their buffers: an I/O thread pushes, the poll drains, and
\* adapters come and go (app_state.hpp:138-156, 447-600).
LEMMA SlotSteps ==
  ASSUME [Next]_vars
  PROVE  \/ UNCHANGED slotVars
         \/ \E d \in Devices, m \in OnBus, e \in BOOLEAN : Receive(d, m, e)
         \/ DrainSlot
         \/ NoSlots
         \/ \E d \in Devices : slots' = Append(slots, d) /\ UNCHANGED <<slotDbc, rx>>
         \/ \E i \in DOMAIN slots : DisconnectSlot(i)
         \/ \E d \in Devices : SlotDbc(d)
  BY DEF Next, Gui, Menu, Working, Panels, ReplayThread, vars, slotVars,
     BeginPoll, StopReplay, PauseReplay, DisconnectAll, ImportMotec, OpenReplay,
     ImportLog, LoadLogDbc, UnloadLogDbc, LogDbc, Joined, ImportFrame, ImportDone,
     DrainReplay, ShowError, ShowFrame, EndPoll, ToggleFreeze, ClearMonitor,
     ClearDelta, NoPanelCommand, Connect, LeaveLog, ReplayEnd, ReplayNext,
     ReplayGoesOn, ReplayPush, others

\* The replay: its thread, the menu, and the poll that empties its buffer
\* (app_state.hpp:647-701, gui_main.cpp:349-383).
LEMMA ReplaySteps ==
  ASSUME [Next]_vars
  PROVE  \/ UNCHANGED <<threadVars, replay_buf>>
         \/ ReplayEnd \/ ReplayNext \/ ReplayGoesOn \/ ReplayPush
         \/ \E log \in Logs : OpenReplay(log)
         \/ StopReplay \/ PauseReplay \/ Joined \/ DrainReplay
  BY DEF Next, Gui, Menu, Working, Panels, ReplayThread, vars, threadVars,
     BeginPoll, DisconnectAll, ImportMotec, ImportLog, LoadLogDbc, UnloadLogDbc,
     LogDbc, ImportFrame, ImportDone, DrainSlot, ShowError, ShowFrame, EndPoll,
     ToggleFreeze, ClearMonitor, ClearDelta, NoPanelCommand, Connect, LeaveLog,
     DisconnectSlot, SlotDbc, Receive

\* What is shown, and of which log (app_state.hpp:588-799).
LEMMA MonitorSteps ==
  ASSUME [Next]_vars
  PROVE  \/ UNCHANGED <<logVars, shownVars, freeze>>
         \/ ShowError \/ ShowFrame
         \/ \E log \in Logs : ImportLog(log)
         \/ ImportMotec \/ ImportFrame \/ ImportDone
         \/ \E c \in log_channels \cup {0} : LoadLogDbc(c) \/ UnloadLogDbc(c)
         \/ \E d \in Devices : Connect(d) \/ \E connects \in BOOLEAN : LeaveLog(d, connects)
         \/ ToggleFreeze \/ ClearMonitor \/ ClearDelta
  BY DEF Next, Gui, Menu, Working, Panels, ReplayThread, vars, logVars, shownVars,
     rowVars, statVars, BeginPoll, StopReplay, PauseReplay, DisconnectAll, OpenReplay,
     Joined, DrainSlot, DrainReplay, EndPoll, NoPanelCommand, DisconnectSlot, SlotDbc,
     Receive, ReplayEnd, ReplayNext, ReplayGoesOn, ReplayPush, others

\* Where the GUI thread is, and the frames it is showing.
LEMMA GuiSteps ==
  ASSUME [Next]_vars
  PROVE  \/ UNCHANGED guiVars
         \/ /\ UNCHANGED <<at, batch>>
            /\ gui' \in {"menu", "poll", "join", "panels", "import"}
            /\ gui' = "panels" => gui = "show" /\ batch = << >>
            /\ gui = "show" => gui' = "panels"
            /\ gui = "poll" => FALSE
         \/ DrainSlot \/ DrainReplay \/ ShowError \/ ShowFrame
         \/ ImportFrame
  BY DEF Next, Gui, Menu, Working, Panels, ReplayThread, vars, guiVars, InPanel,
     ToJoin, BeginPoll, StopReplay, PauseReplay, DisconnectAll, ImportMotec,
     OpenReplay, ImportLog, LoadLogDbc, UnloadLogDbc, LogDbc, Joined, ImportDone,
     EndPoll, ToggleFreeze, ClearMonitor, ClearDelta, NoPanelCommand, Connect,
     LeaveLog, DisconnectSlot, SlotDbc, Receive, ReplayEnd, ReplayNext,
     ReplayGoesOn, ReplayPush, others

-----------------------------------------------------------------------------
(* What the helpers make of well formed frames.                             *)

\* Pushing into a buffer keeps at most what was there and adds the new frame
\* (frame_buffer.hpp:16-26).
LEMMA PushFacts ==
  ASSUME NEW q \in Seq(Frame), NEW f \in Frame
  PROVE  /\ Push(q, f) \in Seq(Frame)
         /\ NotLogged(q) /\ f.from # "log" => NotLogged(Push(q, f))
  <1> DEFINE p == IF Len(q) < Capacity THEN q ELSE Tail(q)
  <1>1. p \in Seq(Frame) /\ (NotLogged(q) => NotLogged(p))
    <2>1. CASE Len(q) < Capacity
      BY <2>1
    <2>2. CASE ~(Len(q) < Capacity)
      <3>1. q # << >>
        BY <2>2, PipelineConstants
      <3>2. Tail(q) \in Seq(Frame) /\ Len(Tail(q)) = Len(q) - 1
            /\ \A n \in 1 .. Len(Tail(q)) : Tail(q)[n] = q[n + 1]
        BY <3>1
      <3>3. NotLogged(q) => NotLogged(Tail(q))
        BY <3>2 DEF NotLogged
      <3>4. QED
        BY <2>2, <3>2, <3>3
    <2>3. QED
      BY <2>1, <2>2
  <1>2. Push(q, f) = Append(p, f)
    BY DEF Push
  <1> HIDE DEF p
  <1>3. Append(p, f) \in Seq(Frame)
        /\ (NotLogged(p) /\ f.from # "log" => NotLogged(Append(p, f)))
    BY <1>1 DEF NotLogged
  <1>4. QED
    BY <1>1, <1>2, <1>3

\* Tagging frames with their slot keeps them frames, and where they came from
\* (app_state.hpp:592).
LEMMA TaggedFacts ==
  ASSUME NEW q \in Seq(Frame), NEW c \in Channels
  PROVE  /\ Tagged(q, c) \in Seq(Frame)
         /\ NotLogged(q) => NotLogged(Tagged(q, c))
  <1>1. ASSUME NEW n \in 1 .. Len(q)
        PROVE  /\ [q[n] EXCEPT !.source = c] \in Frame
               /\ [q[n] EXCEPT !.source = c].from = q[n].from
    <2>1. q[n] \in Frame
      OBVIOUS
    <2>2. \A f \in Frame : /\ [f EXCEPT !.source = c] \in Frame
                           /\ [f EXCEPT !.source = c].from = f.from
      BY DEF Frame
    <2>3. QED
      BY <2>1, <2>2
  <1> DEFINE t == [n \in 1 .. Len(q) |-> [q[n] EXCEPT !.source = c]]
  <1>2. Tagged(q, c) = t
    BY DEF Tagged
  <1>3. DOMAIN t = 1 .. Len(q) /\ \A n \in 1 .. Len(q) : t[n] = [q[n] EXCEPT !.source = c]
    OBVIOUS
  <1>4. t \in [1 .. Len(q) -> Frame]
    BY <1>1
  <1> HIDE DEF t
  <1>5. \A n \in 1 .. Len(q) : t[n].from = q[n].from
    BY <1>1, <1>3
  <1>6. t \in Seq(Frame) /\ DOMAIN t = DOMAIN q
    BY <1>3, <1>4
  <1>7. QED
    BY <1>2, <1>5, <1>6 DEF NotLogged

\* Two stretches of frames one after the other.
LEMMA ConcatFacts ==
  ASSUME NEW p \in Seq(Frame), NEW q \in Seq(Frame)
  PROVE  /\ p \o q \in Seq(Frame)
         /\ NotLogged(p) /\ NotLogged(q) => NotLogged(p \o q)
  <1>1. /\ p \o q \in Seq(Frame) /\ Len(p \o q) = Len(p) + Len(q)
        /\ \A n \in 1 .. Len(p) + Len(q) :
             (p \o q)[n] = IF n <= Len(p) THEN p[n] ELSE q[n - Len(p)]
    BY ConcatProperties
  <1>2. ASSUME NotLogged(p), NotLogged(q), NEW n \in 1 .. Len(p) + Len(q)
        PROVE  (p \o q)[n].from # "log"
    <2>1. CASE n <= Len(p)
      BY <1>1, <1>2, <2>1 DEF NotLogged
    <2>2. CASE n > Len(p)
      <3>1. n - Len(p) \in 1 .. Len(q)
        BY <2>2
      <3>2. QED
        BY <1>1, <1>2, <2>2, <3>1 DEF NotLogged
    <2>3. QED
      BY <2>1, <2>2
  <1>3. QED
    BY <1>1, <1>2 DEF NotLogged

\* Taking the first frame away.
LEMMA TailFacts ==
  ASSUME NEW q \in Seq(Frame), q # << >>
  PROVE  /\ Head(q) \in Frame /\ Tail(q) \in Seq(Frame)
         /\ NotLogged(q) => Head(q).from # "log" /\ NotLogged(Tail(q))
  <1>1. /\ Head(q) = q[1] /\ Tail(q) \in Seq(Frame) /\ Len(Tail(q)) = Len(q) - 1
        /\ \A n \in 1 .. Len(Tail(q)) : Tail(q)[n] = q[n + 1]
        /\ 1 \in 1 .. Len(q)
    OBVIOUS
  <1>2. QED
    BY <1>1 DEF NotLogged

\* The scrollback keeps its newest frames (app_state.hpp:610-611, 781).
LEMMA NewestFacts ==
  ASSUME NEW s \in Seq(Frame)
  PROVE  /\ Newest(s) \in Seq(Frame)
         /\ NotLogged(s) => NotLogged(Newest(s))
  <1>1. CASE Len(s) > MaxScrollback
    <2> DEFINE m == Len(s) - MaxScrollback + 1
    <2>1. m \in 1 .. Len(s)
      BY <1>1, PipelineConstants
    <2>2. Newest(s) = SubSeq(s, m, Len(s))
      BY <1>1 DEF Newest
    <2> HIDE DEF m
    <2>3. /\ SubSeq(s, m, Len(s)) \in Seq(Frame)
          /\ \A n \in 1 .. Len(SubSeq(s, m, Len(s))) :
               m + n - 1 \in 1 .. Len(s) /\ SubSeq(s, m, Len(s))[n] = s[m + n - 1]
      BY <2>1
    <2>4. QED
      BY <2>2, <2>3 DEF NotLogged
  <1>2. CASE ~(Len(s) > MaxScrollback)
    BY <1>2 DEF Newest
  <1>3. QED
    BY <1>1, <1>2

\* A line of a log is a frame (logger.hpp:212-310).
LEMMA LoggedFrameFacts ==
  ASSUME NEW r \in Record, NEW from \in {"replay", "log"}
  PROVE  /\ LoggedFrame(r, from) \in Frame
         /\ LoggedFrame(r, from).from = from
         /\ ~LoggedFrame(r, from).error
  BY DEF LoggedFrame, Record, Frame

\* Counting one more.
LEMMA Add1Facts ==
  ASSUME NEW count \in [Ids -> Nat], NEW i \in Ids
  PROVE  Add1(count, i) \in [Ids -> Nat]
  BY DEF Add1

-----------------------------------------------------------------------------
(* Types.                                                                   *)

\* The GUI thread: its place and the frames of a poll (app_state.hpp:588-600).
LEMMA GuiKeepsType ==
  ASSUME TypeOK, FlowInv, [Next]_vars
  PROVE  GuiType'
  <1> USE DEF TypeOK
  <1>1. CASE UNCHANGED guiVars
    BY <1>1 DEF guiVars, GuiType
  <1>2. CASE /\ UNCHANGED <<at, batch>>
             /\ gui' \in {"menu", "poll", "join", "panels", "import"}
    BY <1>2 DEF GuiType
  <1>3. CASE DrainSlot
    <2>1. at \in Nat \ {0} /\ slots[at] \in Devices /\ (at - 1) % 256 \in Channels
      BY <1>3 DEF DrainSlot, GuiType, SlotType, Channels, Unset
    <2>2. rx[slots[at]] \in Seq(Frame) /\ batch \in Seq(Frame)
      BY <2>1 DEF SlotType, GuiType
    <2>3. batch' \in Seq(Frame)
      BY <1>3, <2>1, <2>2, TaggedFacts, ConcatFacts DEF DrainSlot
    <2>4. QED
      BY <1>3, <2>1, <2>3 DEF DrainSlot, GuiType
  <1>4. CASE DrainReplay
    BY <1>4, ConcatFacts DEF DrainReplay, GuiType, ReplayType
  <1>5. CASE ShowError \/ ShowFrame
    BY <1>5, TailFacts DEF ShowError, ShowFrame, GuiType
  <1>6. CASE ImportFrame
    BY <1>6 DEF ImportFrame, GuiType
  <1>7. QED
    BY <1>1, <1>2, <1>3, <1>4, <1>5, <1>6, GuiSteps

\* Slots and buffers (app_state.hpp:129-165, 454-586).
LEMMA SlotsKeepType ==
  ASSUME TypeOK, [Next]_vars
  PROVE  SlotType'
  <1>0. SlotType
    BY DEF TypeOK
  <1>1. CASE UNCHANGED slotVars
    BY <1>0, <1>1 DEF slotVars, SlotType
  <1>2. ASSUME NEW d \in Devices, NEW m \in OnBus, NEW e \in BOOLEAN, Receive(d, m, e)
        PROVE  SlotType'
    <2> DEFINE f == [id |-> m.id, extended |-> m.extended, source |-> Unset,
                     error |-> e, from |-> "bus"]
    <2>1. f \in Frame
      <3>1. m.id \in Ids /\ m.extended \in BOOLEAN
        BY PipelineConstants
      <3>2. QED
        BY <3>1 DEF Frame, Channels, Unset
    <2>2. rx' = [rx EXCEPT ![d] = Push(rx[d], f)] /\ UNCHANGED <<slots, slotDbc>>
      BY <1>2 DEF Receive
    <2> HIDE DEF f
    <2>3. rx[d] \in Seq(Frame)
      BY <1>0 DEF SlotType
    <2>4. Push(rx[d], f) \in Seq(Frame)
      BY <2>1, <2>3, PushFacts
    <2>5. QED
      BY <1>0, <2>2, <2>4 DEF SlotType
  <1>3. CASE DrainSlot
    <2>1. /\ rx' = [rx EXCEPT ![slots[at]] = << >>] /\ UNCHANGED <<slots, slotDbc>>
      BY <1>3 DEF DrainSlot
    <2>2. << >> \in Seq(Frame)
      OBVIOUS
    <2>3. rx' \in [Devices -> Seq(Frame)]
      BY <1>0, <2>1, <2>2 DEF SlotType
    <2>4. QED
      BY <1>0, <2>1, <2>3 DEF SlotType
  <1>4. CASE NoSlots
    BY <1>4 DEF SlotType, NoSlots
  <1>5. ASSUME NEW d \in Devices, slots' = Append(slots, d), UNCHANGED <<slotDbc, rx>>
        PROVE  SlotType'
    BY <1>0, <1>5 DEF SlotType
  <1>6. ASSUME NEW i \in DOMAIN slots, DisconnectSlot(i)
        PROVE  SlotType'
    <2>1. RemoveAt(slots, i) \in Seq(Devices)
      <3>1. /\ slots \in Seq(Devices) /\ i \in 1 .. Len(slots)
        BY <1>0 DEF SlotType
      <3>2. SubSeq(slots, 1, i - 1) \in Seq(Devices)
            /\ SubSeq(slots, i + 1, Len(slots)) \in Seq(Devices)
        BY <3>1
      <3>3. QED
        BY <3>2 DEF RemoveAt
    <2>2. QED
      BY <1>0, <1>6, <2>1 DEF SlotType, DisconnectSlot
  <1>7. ASSUME NEW d \in Devices, SlotDbc(d)
        PROVE  SlotType'
    BY <1>0, <1>7 DEF SlotType, SlotDbc
  <1>8. QED
    BY <1>1, <1>2, <1>3, <1>4, <1>5, <1>6, <1>7, SlotSteps

\* The replay thread reads inside its log (app_state.hpp:664-691).
LEMMA ReplayKeepsType ==
  ASSUME TypeOK, FlowInv, [Next]_vars
  PROVE  ReplayType'
  <1>0. ReplayType
    BY DEF TypeOK
  <1> USE DEF ReplayType
  <1>1. CASE UNCHANGED <<threadVars, replay_buf>>
    BY <1>0, <1>1 DEF threadVars
  <1>2. CASE ReplayEnd \/ ReplayNext \/ ReplayGoesOn
    BY <1>0, <1>2 DEF ReplayEnd, ReplayNext, ReplayGoesOn, others
  <1>3. CASE ReplayPush
    <2>1. played[pos] \in Record
      BY <1>0, <1>3 DEF FlowInv, ReplayPush
    <2>2. replay_buf' \in Seq(Frame)
      BY <1>0, <1>3, <2>1, PushFacts, LoggedFrameFacts DEF ReplayPush
    <2>3. QED
      BY <1>0, <1>3, <2>2 DEF ReplayPush, others
  <1>4. ASSUME NEW log \in Logs, OpenReplay(log)
        PROVE  ReplayType'
    BY <1>0, <1>4, PipelineConstants DEF OpenReplay
  <1>5. CASE StopReplay \/ PauseReplay
    BY <1>0, <1>5 DEF StopReplay, PauseReplay
  <1>6. CASE Joined
    <2>1. /\ stop' \in BOOLEAN /\ paused' \in BOOLEAN /\ next' \in Seq(Record)
          /\ UNCHANGED replay_buf
      <3>1. stop' \in BOOLEAN /\ paused' \in BOOLEAN
        BY <1>6, Zenon DEF Joined
      <3>2. next' = << >> /\ UNCHANGED replay_buf
        BY <1>6 DEF Joined
      <3>3. QED
        BY <3>1, <3>2
    <2>2. CASE next = << >> /\ replay' = "none" /\ replaying' = FALSE /\ UNCHANGED <<played, pos>>
      BY <1>0, <2>1, <2>2
    <2>3. CASE next # << >> /\ replay' = "head" /\ replaying' = TRUE /\ played' = next /\ pos' = 1
      BY <1>0, <2>1, <2>3
    <2>4. QED
      BY <1>6, <2>2, <2>3 DEF Joined
  <1>7. CASE DrainReplay
    BY <1>0, <1>7 DEF DrainReplay, threadVars
  <1>8. QED
    BY <1>1, <1>2, <1>3, <1>4, <1>5, <1>6, <1>7, ReplaySteps

\* The log that is shown (app_state.hpp:717-799).
LEMMA LogKeepsType ==
  ASSUME TypeOK, [Next]_vars
  PROVE  LogType'
  <1>0. LogType
    BY DEF TypeOK
  <1> USE DEF LogType
  <1>1. CASE UNCHANGED <<logVars, shownVars, freeze>>
    BY <1>0, <1>1 DEF logVars
  <1>2. CASE ShowError \/ ShowFrame \/ ImportDone \/ ToggleFreeze \/ ClearMonitor \/ ClearDelta
    BY <1>0, <1>2 DEF ShowError, ShowFrame, ImportDone, ToggleFreeze, ClearMonitor,
       ClearDelta, logVars
  <1>3. ASSUME NEW log \in Logs, ImportLog(log)
        PROVE  LogType'
    BY <1>3, PipelineConstants DEF ImportLog
  <1>4. CASE ImportMotec
    BY <1>0, <1>4 DEF ImportMotec
  <1>5. CASE ImportFrame
    <2>1. /\ UNCHANGED <<log_mode, log_dbc>> /\ todo # << >> /\ todo' = Tail(todo)
          /\ imported' = Append(imported, LoggedFrame(Head(todo), "log"))
      BY <1>5 DEF ImportFrame
    <2>2. Head(todo) \in Record /\ Tail(todo) \in Seq(Record)
      BY <1>0, <2>1
    <2>3. LoggedFrame(Head(todo), "log") \in Frame
      BY <2>2, LoggedFrameFacts
    <2>4. QED
      BY <1>0, <2>1, <2>2, <2>3
  <1>6. ASSUME NEW c \in log_channels \cup {0}, LoadLogDbc(c) \/ UnloadLogDbc(c)
        PROVE  LogType'
    <2>1. c \in Channels
      <3>1. 0 \in Channels
        BY DEF Channels, Unset
      <3>2. \A k \in DOMAIN imported : imported[k] \in Frame
        BY <1>0
      <3>3. log_channels \subseteq Channels
        BY <3>2 DEF log_channels, Frame
      <3>4. QED
        BY <3>1, <3>3
    <2>2. log_dbc' \in {log_dbc \cup {c}, log_dbc \ {c}}
          /\ UNCHANGED <<log_mode, imported, todo>>
      BY <1>6 DEF LoadLogDbc, UnloadLogDbc, LogDbc
    <2>3. QED
      BY <1>0, <2>1, <2>2
  <1>7. ASSUME NEW d \in Devices, Connect(d)
        PROVE  LogType'
    BY <1>0, <1>7 DEF Connect
  <1>8. ASSUME NEW d \in Devices, NEW connects \in BOOLEAN, LeaveLog(d, connects)
        PROVE  LogType'
    <2>1. log_mode' \in BOOLEAN /\ UNCHANGED todo
      BY <1>8 DEF LeaveLog
    <2>2. imported' = << >> /\ log_dbc' \in {{}, log_dbc}
      BY <1>8 DEF LeaveLog
    <2>3. QED
      BY <1>0, <2>1, <2>2
  <1>9. QED
    BY <1>1, <1>2, <1>3, <1>4, <1>5, <1>6, <1>7, <1>8, MonitorSteps

\* What bus_stats::record() and the decoding of a frame leave.
LEMMA RecordFacts ==
  ASSUME StatType, NEW f \in Frame, RecordStats(f)
  PROVE  per_id' \in [Ids -> Nat] /\ errors' \in Nat
  <1>1. f.id \in Ids /\ per_id \in [Ids -> Nat] /\ errors \in Nat
    BY DEF StatType, Frame
  <1>2. Add1(per_id, f.id) \in [Ids -> Nat]
    BY <1>1, Add1Facts
  <1>3. CASE f.error
    BY <1>1, <1>3 DEF RecordStats
  <1>4. CASE ~f.error
    BY <1>1, <1>2, <1>4 DEF RecordStats
  <1>5. QED
    BY <1>3, <1>4

\* A sample more for an id, or none (app_state.hpp:614-621).
LEMMA DecodeFacts ==
  ASSUME StatType, NEW f \in Frame, Decode(f)
  PROVE  signals' \in [Ids -> Nat]
  BY Add1Facts DEF StatType, Decode, Frame

\* clear_monitor() leaves an empty monitor (app_state.hpp:705-715).
LEMMA ClearFacts ==
  ASSUME NEW first \in BOOLEAN, Clear(first)
  PROVE  /\ per_id' \in [Ids -> Nat] /\ errors' \in Nat /\ signals' \in [Ids -> Nat]
         /\ scrollback' = << >> /\ has_first' \in BOOLEAN
         /\ rows' = << >> /\ frozen_rows' = << >> /\ DOMAIN index' = {}
         /\ index' \in [DOMAIN index' -> Nat \ {0}] /\ missed' \in [Ids -> Nat]
  BY DEF Clear, None, NoIndex

\* Samples are counted, whatever was imported.
LEMMA DecodedFacts ==
  ASSUME NEW frames \in Seq(Frame), NEW channels
  PROVE  Decoded(frames, channels) \in [Ids -> Nat]
  <1>1. IsFiniteSet(1 .. Len(frames))
    BY FS_Interval
  <1>2. ASSUME NEW i \in Ids
        PROVE  Cardinality({k \in DOMAIN frames :
                 frames[k].id = i /\ frames[k].source \in channels}) \in Nat
    <2>1. {k \in DOMAIN frames : frames[k].id = i /\ frames[k].source \in channels}
            \subseteq 1 .. Len(frames)
      OBVIOUS
    <2>2. QED
      BY <1>1, <2>1, FS_Subset, FS_CardinalityType
  <1>3. QED
    BY <1>2 DEF Decoded

\* Statistics, scrollback and signals (app_state.hpp:600-621, 740-799).
LEMMA StatsKeepType ==
  ASSUME TypeOK, [Next]_vars
  PROVE  StatType'
  <1>0. StatType /\ batch \in Seq(Frame)
    BY DEF TypeOK, GuiType
  <1>1. CASE UNCHANGED <<logVars, shownVars, freeze>>
    BY <1>0, <1>1 DEF shownVars, statVars, StatType
  <1>2. CASE ShowError
    <2>1. Head(batch) \in Frame
      BY <1>0, <1>2, TailFacts DEF ShowError
    <2>2. RecordStats(Head(batch)) /\ has_first' \in BOOLEAN /\ UNCHANGED <<scrollback, signals>>
      BY <1>2 DEF ShowError
    <2>3. QED
      BY <1>0, <2>1, <2>2, RecordFacts DEF StatType
  <1>3. CASE ShowFrame
    <2>1. Head(batch) \in Frame
      BY <1>0, <1>3, TailFacts DEF ShowFrame
    <2>2. /\ RecordStats(Head(batch)) /\ Decode(Head(batch)) /\ has_first' \in BOOLEAN
          /\ scrollback' = Newest(Append(scrollback, Head(batch)))
      BY <1>3 DEF ShowFrame
    <2>3. Append(scrollback, Head(batch)) \in Seq(Frame)
      BY <1>0, <2>1 DEF StatType
    <2>4. scrollback' \in Seq(Frame)
      BY <2>2, <2>3, NewestFacts
    <2>5. QED
      BY <1>0, <2>1, <2>2, <2>4, RecordFacts, DecodeFacts DEF StatType
  <1>4. CASE \E first \in BOOLEAN : Clear(first)
    BY <1>4, ClearFacts DEF StatType
  <1>5. CASE ImportFrame
    <2>1. todo \in Seq(Record) /\ todo # << >>
      BY <1>5 DEF ImportFrame, TypeOK, LogType
    <2> DEFINE f == LoggedFrame(Head(todo), "log")
    <2>2. f \in Frame
      BY <2>1, LoggedFrameFacts
    <2>3. /\ RecordStats(f) /\ Decode(f) /\ has_first' \in BOOLEAN
          /\ scrollback' = Append(scrollback, f)
      BY <1>5 DEF ImportFrame
    <2> HIDE DEF f
    <2>4. scrollback' \in Seq(Frame)
      BY <1>0, <2>2, <2>3 DEF StatType
    <2>5. QED
      BY <1>0, <2>2, <2>3, <2>4, RecordFacts, DecodeFacts DEF StatType
  <1>6. CASE ImportDone
    BY <1>0, <1>6, NewestFacts DEF ImportDone, statVars, StatType
  <1>7. ASSUME NEW c \in log_channels \cup {0}, LoadLogDbc(c) \/ UnloadLogDbc(c)
        PROVE  StatType'
    <2>1. PICK channels : Redecode(channels) /\ UNCHANGED <<statVars, scrollback>>
      BY <1>7 DEF LoadLogDbc, UnloadLogDbc, LogDbc
    <2>2. Decoded(imported, channels) \in [Ids -> Nat]
      BY DecodedFacts DEF TypeOK, LogType
    <2>3. QED
      BY <1>0, <2>1, <2>2 DEF Redecode, statVars, StatType
  <1>8. CASE UNCHANGED <<statVars, scrollback, signals>>
    BY <1>0, <1>8 DEF statVars, StatType
  <1>9. QED
    <2>1. ASSUME NEW log \in Logs, ImportLog(log)
          PROVE  Clear(FALSE)
      BY <2>1 DEF ImportLog
    <2>2. ImportMotec => Clear(TRUE)
      BY DEF ImportMotec
    <2>3. ClearMonitor => Clear(FALSE)
      BY DEF ClearMonitor
    <2>4. ASSUME NEW d \in Devices, NEW connects \in BOOLEAN, LeaveLog(d, connects)
          PROVE  Clear(FALSE)
      BY <2>4 DEF LeaveLog
    <2>5. ASSUME ToggleFreeze \/ ClearDelta \/ \E d \in Devices : Connect(d)
          PROVE  UNCHANGED <<statVars, scrollback, signals>>
      BY <2>5 DEF ToggleFreeze, ClearDelta, Connect, shownVars
    <2>6. QED
      BY <1>1, <1>2, <1>3, <1>4, <1>5, <1>6, <1>7, <1>8, <2>1, <2>2, <2>3, <2>4, <2>5,
         MonitorSteps

-----------------------------------------------------------------------------
(* The rows and their index.                                                *)

\* The steps that change them.
LEMMA RowSteps ==
  ASSUME [Next]_vars
  PROVE  \/ UNCHANGED <<rowVars, frozen_rows, freeze, log_mode>>
         \/ ShowFrame \/ ImportFrame
         \/ UNCHANGED freeze /\ \E first \in BOOLEAN : Clear(first)
         \/ ToggleFreeze \/ ClearDelta
  <1>1. ASSUME NEW log \in Logs, ImportLog(log)
        PROVE  UNCHANGED freeze /\ Clear(FALSE)
    BY <1>1 DEF ImportLog
  <1>2. ImportMotec => UNCHANGED freeze /\ Clear(TRUE)
    BY DEF ImportMotec
  <1>3. ClearMonitor => UNCHANGED freeze /\ Clear(FALSE)
    BY DEF ClearMonitor
  <1>4. ASSUME NEW d \in Devices, NEW connects \in BOOLEAN, LeaveLog(d, connects)
        PROVE  UNCHANGED freeze /\ Clear(FALSE)
    BY <1>4 DEF LeaveLog
  <1>5. ASSUME \/ UNCHANGED <<logVars, shownVars, freeze>>
               \/ ShowError \/ ImportDone \/ \E d \in Devices : Connect(d)
               \/ \E c \in log_channels \cup {0} : LoadLogDbc(c) \/ UnloadLogDbc(c)
        PROVE  UNCHANGED <<rowVars, frozen_rows, freeze, log_mode>>
    BY <1>5 DEF logVars, shownVars, ShowError, ImportDone, Connect, LoadLogDbc,
       UnloadLogDbc, LogDbc
  <1>6. QED
    BY <1>1, <1>2, <1>3, <1>4, <1>5, MonitorSteps

\* Keys stay where they are and counts never fall.
RowsGrow ==
  \A n \in DOMAIN rows : /\ n \in DOMAIN rows'
                         /\ Key(rows'[n].frame) = Key(rows[n].frame)
                         /\ rows[n].count <= rows'[n].count

NotLoggedRows == \A n \in DOMAIN rows : rows[n].frame.from # "log"

\* A row is a frame and a count.
LEMMA RowFacts ==
  ASSUME NEW s \in Seq(Row), NEW n \in DOMAIN s
  PROVE  s[n].frame \in Frame /\ s[n].count \in Nat \ {0}
  <1>1. s[n] \in Row
    OBVIOUS
  <1>2. QED
    BY <1>1 DEF Row

\* A frame counted in a row replaces the frame of that row only
\* (app_state.hpp:627-631, 768-773).
LEMMA CountInFacts ==
  ASSUME rows \in Seq(Row), NEW f \in Frame, NEW i, CountIn(f, i)
  PROVE  /\ rows' \in Seq(Row) /\ DOMAIN rows' = DOMAIN rows
         /\ \A n \in DOMAIN rows : n # i => rows'[n] = rows[n]
         /\ i \in DOMAIN rows => /\ rows'[i].frame = f
                                 /\ rows'[i].count = rows[i].count + 1
  <1> DEFINE new == [frame |-> f, count |-> rows[i].count + 1]
  <1>1. rows' = [rows EXCEPT ![i] = new]
    BY DEF CountIn
  <1>2. i \in DOMAIN rows => new \in Row
    <2>1. i \in DOMAIN rows => rows[i].count + 1 \in Nat \ {0}
      BY RowFacts
    <2>2. QED
      BY <2>1 DEF Row
  <1>3. new.frame = f /\ new.count = rows[i].count + 1
    OBVIOUS
  <1> HIDE DEF new
  <1>4. rows' \in Seq(Row) /\ DOMAIN rows' = DOMAIN rows
    <2>1. rows \in [1 .. Len(rows) -> Row]
      OBVIOUS
    <2>2. rows' \in [1 .. Len(rows) -> Row]
      BY <1>1, <1>2, <2>1
    <2>3. QED
      BY <2>1, <2>2
  <1>5. QED
    BY <1>1, <1>3, <1>4

\* A new row comes after the others (app_state.hpp:633-634, 777).
LEMMA NewRowFacts ==
  ASSUME rows \in Seq(Row), NEW f \in Frame, NewRow(f)
  PROVE  /\ rows' \in Seq(Row) /\ DOMAIN rows' = DOMAIN rows \cup {Len(rows) + 1}
         /\ \A n \in DOMAIN rows : rows'[n] = rows[n]
         /\ rows'[Len(rows) + 1] = [frame |-> f, count |-> 1]
  <1>1. [frame |-> f, count |-> 1] \in Row
    BY DEF Row
  <1>2. QED
    BY <1>1 DEF NewRow

\* A polled frame goes to the row of its key, new or not
\* (app_state.hpp:623-636).
LEMMA PutRowFacts ==
  ASSUME RowType, RowsIndexed, NEW f \in Frame, PutRow(f), UNCHANGED log_mode
  PROVE  /\ rows' \in Seq(Row) /\ index' \in [DOMAIN index' -> Nat \ {0}]
         /\ RowsIndexed' /\ RowsGrow
         /\ NotLoggedRows /\ f.from # "log" => NotLoggedRows'
  <1> DEFINE k == Key(f)
  <1>0. rows \in Seq(Row) /\ \A n \in DOMAIN rows : rows[n].count \in Nat
    BY RowFacts DEF RowType
  <1>1. CASE k \in DOMAIN index
    <2> DEFINE i == index[k]
    <2>1. CountIn(f, i) /\ UNCHANGED index
      BY <1>1 DEF PutRow
    <2>2. i \in DOMAIN rows /\ Key(rows[i].frame) = k
      BY <1>1 DEF RowsIndexed
    <2>3. /\ rows' \in Seq(Row) /\ DOMAIN rows' = DOMAIN rows
          /\ \A n \in DOMAIN rows : n # i => rows'[n] = rows[n]
          /\ rows'[i].frame = f /\ rows'[i].count = rows[i].count + 1
      BY <1>0, <2>1, <2>2, CountInFacts
    <2>4. \A n \in DOMAIN rows : Key(rows'[n].frame) = Key(rows[n].frame)
      BY <2>2, <2>3
    <2>5. \A n \in DOMAIN rows : rows[n].count <= rows'[n].count
      BY <1>0, <2>3
    <2>6. RowsIndexed'
      BY <2>1, <2>3, <2>4 DEF RowsIndexed
    <2>7. NotLoggedRows /\ f.from # "log" => NotLoggedRows'
      BY <2>3 DEF NotLoggedRows
    <2>8. QED
      BY <2>1, <2>3, <2>4, <2>5, <2>6, <2>7 DEF RowsGrow, RowType
  <1>2. CASE k \notin DOMAIN index
    <2> DEFINE m == Len(rows) + 1
    <2>1. NewRow(f) /\ index' = [j \in DOMAIN index \cup {k} |-> IF j = k THEN m ELSE index[j]]
      BY <1>2 DEF PutRow
    <2>2. /\ rows' \in Seq(Row) /\ DOMAIN rows' = DOMAIN rows \cup {m}
          /\ \A n \in DOMAIN rows : rows'[n] = rows[n]
          /\ rows'[m].frame = f
      <3>1. /\ rows' \in Seq(Row) /\ DOMAIN rows' = DOMAIN rows \cup {m}
            /\ \A n \in DOMAIN rows : rows'[n] = rows[n]
            /\ rows'[m] = [frame |-> f, count |-> 1]
        BY <1>0, <2>1, NewRowFacts
      <3>2. [frame |-> f, count |-> 1].frame = f
        OBVIOUS
      <3>3. QED
        BY <3>1, <3>2
    <2>3. m \in Nat \ {0} /\ m \notin DOMAIN rows
      BY <1>0
    <2>4. DOMAIN index' = DOMAIN index \cup {k} /\ index'[k] = m
          /\ \A j \in DOMAIN index : j # k /\ index'[j] = index[j]
      BY <1>2, <2>1
    <2>5. index' \in [DOMAIN index' -> Nat \ {0}]
      BY <2>1, <2>3 DEF RowType
    <2> HIDE DEF m, k
    <2>6. \A j \in DOMAIN index' : index'[j] \in DOMAIN rows' /\ Key(rows'[index'[j]].frame) = j
      BY <2>2, <2>4 DEF RowsIndexed, k
    <2>7. ~log_mode' => \A n \in DOMAIN rows' : /\ Key(rows'[n].frame) \in DOMAIN index'
                                               /\ index'[Key(rows'[n].frame)] = n
      BY <2>2, <2>4 DEF RowsIndexed, k
    <2>8. RowsIndexed'
      BY <2>6, <2>7 DEF RowsIndexed
    <2>9. RowsGrow
      BY <1>0, <2>2 DEF RowsGrow
    <2>10. NotLoggedRows /\ f.from # "log" => NotLoggedRows'
      BY <2>2 DEF NotLoggedRows
    <2>11. QED
      BY <2>2, <2>5, <2>8, <2>9, <2>10
  <1>3. QED
    BY <1>1, <1>2

\* Rows, index and what Freeze kept (app_state.hpp:623-645).
LEMMA RowsKeepType ==
  ASSUME TypeOK, RowsIndexed, [Next]_vars
  PROVE  RowType'
  <1>0. RowType /\ batch \in Seq(Frame)
    BY DEF TypeOK, GuiType
  <1>1. CASE UNCHANGED <<rowVars, frozen_rows, freeze, log_mode>>
    BY <1>0, <1>1 DEF rowVars, RowType
  <1>2. CASE ShowFrame
    <2>1. Head(batch) \in Frame
      BY <1>0, <1>2, TailFacts DEF ShowFrame
    <2>2. UNCHANGED <<frozen_rows, freeze, log_mode>>
      BY <1>2 DEF ShowFrame, logVars
    <2>3. CASE PutRow(Head(batch)) /\ UNCHANGED missed
      BY <1>0, <2>1, <2>2, <2>3, PutRowFacts DEF RowType
    <2>4. CASE missed' = Add1(missed, Head(batch).id) /\ UNCHANGED <<rows, index>>
      <3>1. missed' \in [Ids -> Nat]
        BY <1>0, <2>1, <2>4, Add1Facts DEF RowType, Frame
      <3>2. QED
        BY <1>0, <2>2, <2>4, <3>1 DEF RowType
    <2>5. QED
      BY <1>2, <2>3, <2>4 DEF ShowFrame
  <1>3. CASE ImportFrame
    <2>1. todo \in Seq(Record) /\ todo # << >>
      BY <1>3 DEF ImportFrame, TypeOK, LogType
    <2> DEFINE f == LoggedFrame(Head(todo), "log")
    <2>2. f \in Frame
      BY <2>1, LoggedFrameFacts
    <2>3. /\ NewRow(f) \/ \E i : CountIn(f, i)
          /\ UNCHANGED <<index, missed, frozen_rows, freeze>>
      BY <1>3 DEF ImportFrame
    <2> HIDE DEF f
    <2>4. rows' \in Seq(Row)
      BY <1>0, <2>2, <2>3, CountInFacts, NewRowFacts DEF RowType
    <2>5. QED
      BY <1>0, <2>3, <2>4 DEF RowType
  <1>4. CASE UNCHANGED freeze /\ \E first \in BOOLEAN : Clear(first)
    BY <1>0, <1>4, ClearFacts DEF RowType
  <1>5. CASE ToggleFreeze
    <2>1. /\ freeze' \in BOOLEAN /\ UNCHANGED rowVars
          /\ frozen_rows' = rows \/ frozen_rows' = frozen_rows
      BY <1>5 DEF ToggleFreeze
    <2>2. QED
      BY <1>0, <2>1 DEF rowVars, RowType
  <1>6. CASE ClearDelta
    BY <1>0, <1>6 DEF ClearDelta, rowVars, RowType
  <1>7. QED
    BY <1>1, <1>2, <1>3, <1>4, <1>5, <1>6, RowSteps

-----------------------------------------------------------------------------
(* The parts of the invariant.                                              *)

\* While a log is imported nothing else touches what it fills.
LEMMA ImportSteps ==
  ASSUME [Next]_vars, gui' = "import"
  PROVE  \/ gui = "import" /\ UNCHANGED <<log_mode, index, frozen_rows>>
         \/ log_mode' = TRUE /\ Clear(FALSE)
  <1>1. ASSUME NEW log \in Logs, ImportLog(log)
        PROVE  log_mode' = TRUE /\ Clear(FALSE)
    BY <1>1 DEF ImportLog
  <1>2. CASE ImportFrame
    BY <1>2 DEF ImportFrame
  <1>3. CASE \/ UNCHANGED vars \/ ReplayThread
             \/ \E d \in Devices, m \in OnBus, e \in BOOLEAN : Receive(d, m, e)
    BY <1>3 DEF vars, guiVars, logVars, shownVars, rowVars, ReplayThread, ReplayEnd,
       ReplayNext, ReplayGoesOn, ReplayPush, others, Receive
  <1>4. ASSUME Gui, ~ImportFrame, ~ \E log \in Logs : ImportLog(log)
        PROVE  FALSE
    BY <1>4 DEF Gui, Menu, Working, Panels, InPanel, ToJoin, BeginPoll, StopReplay,
       PauseReplay, DisconnectAll, ImportMotec, OpenReplay, LoadLogDbc, UnloadLogDbc,
       LogDbc, Joined, ImportDone, DrainSlot, DrainReplay, ShowError, ShowFrame,
       EndPoll, ToggleFreeze, ClearMonitor, ClearDelta, NoPanelCommand, Connect,
       LeaveLog, DisconnectSlot, SlotDbc
  <1>5. QED
    BY <1>1, <1>2, <1>3, <1>4 DEF Next

\* A log is imported in one go, and the frames of a stopped replay are polled
\* before the next command (gui_main.cpp:614-693, 741).
LEMMA FlowKept ==
  ASSUME TypeOK, FlowInv, [Next]_vars
  PROVE  FlowInv'
  <1>1. (replay \in {"pause", "wait"} => pos \in DOMAIN played)'
    <2>1. CASE UNCHANGED <<threadVars, replay_buf>>
      BY <2>1 DEF FlowInv, threadVars
    <2>2. CASE ReplayNext
      BY <2>2 DEF FlowInv, ReplayNext, others, TypeOK, ReplayType
    <2>3. CASE ReplayGoesOn
      BY <2>3 DEF FlowInv, ReplayGoesOn, others
    <2>4. CASE ReplayEnd \/ ReplayPush \/ Joined
      BY <2>4 DEF ReplayEnd, ReplayPush, Joined
    <2>5. CASE StopReplay \/ PauseReplay \/ DrainReplay \/ \E log \in Logs : OpenReplay(log)
      BY <2>5 DEF FlowInv, StopReplay, PauseReplay, DrainReplay, OpenReplay, threadVars
    <2>6. QED
      BY <2>1, <2>2, <2>3, <2>4, <2>5, ReplaySteps
  <1>2. (gui = "import" => log_mode /\ DOMAIN index = {} /\ frozen_rows = << >>)'
    BY ImportSteps, ClearFacts DEF FlowInv
  <1>3. (replay = "none" => gui = "poll" \/ replay_buf = << >>)'
    <2>1. ASSUME UNCHANGED replay \/ replay' # "none", UNCHANGED replay_buf
          PROVE  replay' = "none" => gui' = "poll" \/ replay_buf' = << >>
      <3>1. CASE gui = "poll"
        BY <2>1, <3>1, GuiSteps DEF guiVars, DrainSlot, DrainReplay, ShowError, ShowFrame,
           ImportFrame
      <3>2. CASE gui # "poll"
        BY <2>1, <3>2 DEF FlowInv
      <3>3. QED
        BY <3>1, <3>2
    <2>2. CASE DrainReplay
      BY <2>2 DEF DrainReplay
    <2>3. CASE Joined
      BY <2>3 DEF Joined
    <2>4. CASE ReplayPush
      BY <2>4 DEF ReplayPush
    <2>5. CASE \/ UNCHANGED <<threadVars, replay_buf>>
               \/ ReplayEnd \/ ReplayNext \/ ReplayGoesOn \/ StopReplay \/ PauseReplay
               \/ \E log \in Logs : OpenReplay(log)
      <3>1. (UNCHANGED replay \/ replay' # "none") /\ UNCHANGED replay_buf
        BY <2>5 DEF threadVars, ReplayEnd, ReplayNext, ReplayGoesOn, StopReplay,
           PauseReplay, OpenReplay
      <3>2. QED
        BY <2>1, <3>1
    <2>6. QED
      BY <2>2, <2>3, <2>4, <2>5, ReplaySteps
  <1>4. (gui \notin {"poll", "show"} => batch = << >>)'
    BY GuiSteps DEF FlowInv, guiVars, DrainSlot, DrainReplay, ShowError, ShowFrame,
       ImportFrame
  <1>5. QED
    BY <1>1, <1>2, <1>3, <1>4 DEF FlowInv

\* Imported frames go round the buffers (app_state.hpp:717-779).
LEMMA BuffersKept ==
  ASSUME TypeOK, FlowInv, BufferInv, [Next]_vars
  PROVE  BufferInv'
  <1>0. /\ batch \in Seq(Frame) /\ replay_buf \in Seq(Frame) /\ rx \in [Devices -> Seq(Frame)]
        /\ NotLogged(batch) /\ NotLogged(replay_buf) /\ \A d \in Devices : NotLogged(rx[d])
    BY DEF TypeOK, GuiType, SlotType, ReplayType, BufferInv
  <1>e. NotLogged(<< >>)
    BY DEF NotLogged
  <1>1. NotLogged(batch)'
    <2>1. CASE UNCHANGED batch
      BY <1>0, <2>1 DEF NotLogged
    <2>2. CASE DrainSlot
      <3>1. slots[at] \in Devices /\ (at - 1) % 256 \in Channels
        BY <2>2 DEF DrainSlot, TypeOK, GuiType, SlotType, Channels, Unset
      <3>2. /\ Tagged(rx[slots[at]], (at - 1) % 256) \in Seq(Frame)
            /\ NotLogged(Tagged(rx[slots[at]], (at - 1) % 256))
        BY <1>0, <3>1, TaggedFacts
      <3>3. NotLogged(batch \o Tagged(rx[slots[at]], (at - 1) % 256))
        BY <1>0, <3>2, ConcatFacts
      <3>4. QED
        BY <2>2, <3>3 DEF DrainSlot, NotLogged
    <2>3. CASE DrainReplay
      <3>1. NotLogged(batch \o replay_buf)
        BY <1>0, ConcatFacts
      <3>2. QED
        BY <2>3, <3>1 DEF DrainReplay, NotLogged
    <2>4. CASE ShowError \/ ShowFrame
      <3>1. batch # << >> /\ batch' = Tail(batch)
        BY <2>4 DEF ShowError, ShowFrame
      <3>2. NotLogged(Tail(batch))
        BY <1>0, <3>1, TailFacts
      <3>3. QED
        BY <3>1, <3>2 DEF NotLogged
    <2>5. QED
      BY <2>1, <2>2, <2>3, <2>4, GuiSteps DEF guiVars, ImportFrame
  <1>2. NotLogged(replay_buf)'
    <2>1. CASE UNCHANGED replay_buf
      BY <1>0, <2>1 DEF NotLogged
    <2>2. CASE ReplayPush
      <3>1. played[pos] \in Record
        BY <2>2 DEF FlowInv, ReplayPush, TypeOK, ReplayType
      <3>2. NotLogged(Push(replay_buf, LoggedFrame(played[pos], "replay")))
        BY <1>0, <3>1, LoggedFrameFacts, PushFacts
      <3>3. QED
        BY <2>2, <3>2 DEF ReplayPush, NotLogged
    <2>3. CASE DrainReplay
      BY <2>3 DEF DrainReplay, NotLogged
    <2>4. QED
      BY <2>1, <2>2, <2>3, ReplaySteps DEF ReplayEnd, ReplayNext, ReplayGoesOn,
         StopReplay, PauseReplay, OpenReplay, Joined
  <1>3. \A d \in Devices : NotLogged(rx'[d])
    <2>1. CASE UNCHANGED rx
      BY <1>0, <2>1
    <2>2. ASSUME NEW d \in Devices, NEW m \in OnBus, NEW e \in BOOLEAN, Receive(d, m, e)
          PROVE  \A c \in Devices : NotLogged(rx'[c])
      <3> DEFINE f == [id |-> m.id, extended |-> m.extended, source |-> Unset,
                       error |-> e, from |-> "bus"]
      <3>1. f \in Frame /\ f.from # "log"
        <4>1. m.id \in Ids /\ m.extended \in BOOLEAN
          BY PipelineConstants
        <4>2. QED
          BY <4>1 DEF Frame, Channels, Unset
      <3>2. rx' = [rx EXCEPT ![d] = Push(rx[d], f)]
        BY <2>2 DEF Receive
      <3> HIDE DEF f
      <3>3. NotLogged(Push(rx[d], f))
        BY <1>0, <3>1, PushFacts
      <3>4. QED
        BY <1>0, <3>2, <3>3
    <2>3. CASE \E d : rx' = [rx EXCEPT ![d] = << >>]
      BY <1>0, <1>e, <2>3
    <2>4. CASE NoSlots
      BY <1>e, <2>4 DEF NoSlots
    <2>5. QED
      BY <2>1, <2>2, <2>3, <2>4, SlotSteps DEF slotVars, DrainSlot, DisconnectSlot, SlotDbc
  <1>4. QED
    BY <1>1, <1>2, <1>3 DEF BufferInv, NotLogged

\* Every step keeps the rows and their index together (app_state.hpp:588-784).
LEMMA IndexKept ==
  ASSUME TypeOK, FlowInv, RowsIndexed, [Next]_vars
  PROVE  RowsIndexed'
  <1>1. CASE UNCHANGED <<rowVars, frozen_rows, freeze, log_mode>>
    BY <1>1 DEF rowVars, RowsIndexed
  <1>2. CASE ShowFrame
    <2>1. Head(batch) \in Frame /\ UNCHANGED log_mode
      BY <1>2, TailFacts DEF ShowFrame, TypeOK, GuiType, logVars
    <2>2. CASE PutRow(Head(batch))
      BY <2>1, <2>2, PutRowFacts DEF TypeOK
    <2>3. CASE UNCHANGED <<rows, index>>
      BY <2>1, <2>3 DEF RowsIndexed
    <2>4. QED
      BY <1>2, <2>2, <2>3 DEF ShowFrame
  <1>3. CASE ImportFrame
    <2>1. UNCHANGED <<log_mode, index>> /\ gui = "import"
      BY <1>3 DEF ImportFrame
    <2>2. QED
      BY <2>1 DEF FlowInv, RowsIndexed
  <1>4. CASE \E first \in BOOLEAN : Clear(first)
    BY <1>4, ClearFacts DEF RowsIndexed
  <1>5. CASE ToggleFreeze \/ ClearDelta
    BY <1>5 DEF ToggleFreeze, ClearDelta, rowVars, logVars, RowsIndexed
  <1>6. QED
    BY <1>1, <1>2, <1>3, <1>4, <1>5, RowSteps

\* Whatever changes the rows keeps or drops what Freeze kept (app_state.hpp:640-645,
\* 705-715).
LEMMA FrozenKept ==
  ASSUME TypeOK, FlowInv, RowsIndexed, FrozenIsPast, [Next]_vars
  PROVE  FrozenIsPast'
  <1>0. RowType /\ RowType'
    BY RowsKeepType DEF TypeOK
  <1>1. CASE UNCHANGED <<rowVars, frozen_rows, freeze, log_mode>>
    BY <1>1 DEF rowVars, FrozenIsPast
  <1>2. CASE ShowFrame
    <2>1. Head(batch) \in Frame /\ UNCHANGED log_mode /\ UNCHANGED frozen_rows
      BY <1>2, TailFacts DEF ShowFrame, TypeOK, GuiType, logVars
    <2>2. CASE PutRow(Head(batch))
      <3>1. RowsGrow
        BY <1>0, <2>1, <2>2, PutRowFacts
      <3>2. ASSUME NEW n \in DOMAIN frozen_rows
            PROVE  /\ n \in DOMAIN rows'
                   /\ Key(frozen_rows[n].frame) = Key(rows'[n].frame)
                   /\ frozen_rows[n].count <= rows'[n].count
        <4>1. /\ n \in DOMAIN rows /\ Key(frozen_rows[n].frame) = Key(rows[n].frame)
              /\ frozen_rows[n].count <= rows[n].count
          BY DEF FrozenIsPast
        <4>2. /\ n \in DOMAIN rows' /\ Key(rows'[n].frame) = Key(rows[n].frame)
              /\ rows[n].count <= rows'[n].count
          BY <3>1, <4>1 DEF RowsGrow
        <4>3. rows[n].count \in Nat /\ rows'[n].count \in Nat /\ frozen_rows[n].count \in Nat
          BY <1>0, <4>1, <4>2, RowFacts DEF RowType
        <4>4. frozen_rows[n].count <= rows'[n].count
          BY <4>1, <4>2, <4>3
        <4>5. QED
          BY <4>1, <4>2, <4>4
      <3>3. QED
        BY <2>1, <3>2 DEF FrozenIsPast
    <2>3. CASE UNCHANGED <<rows, index>>
      BY <2>1, <2>3 DEF FrozenIsPast
    <2>4. QED
      BY <1>2, <2>2, <2>3 DEF ShowFrame
  <1>3. CASE ImportFrame
    <2>1. UNCHANGED frozen_rows /\ gui = "import"
      BY <1>3 DEF ImportFrame
    <2>2. frozen_rows' = << >>
      BY <2>1 DEF FlowInv
    <2>3. QED
      BY <2>2 DEF FrozenIsPast
  <1>4. CASE \E first \in BOOLEAN : Clear(first)
    BY <1>4, ClearFacts DEF FrozenIsPast
  <1>5. CASE ToggleFreeze
    <2>1. UNCHANGED rows /\ (frozen_rows' = rows \/ UNCHANGED frozen_rows)
      BY <1>5 DEF ToggleFreeze, rowVars
    <2>2. CASE UNCHANGED <<rows, frozen_rows>>
      BY <2>2 DEF FrozenIsPast
    <2>3. CASE UNCHANGED rows /\ frozen_rows' = rows
      <3>1. \A n \in DOMAIN rows : rows[n].count \in Nat
        BY <1>0, RowFacts DEF RowType
      <3>2. QED
        BY <2>3, <3>1 DEF FrozenIsPast
    <2>4. QED
      BY <2>1, <2>2, <2>3
  <1>6. CASE ClearDelta
    BY <1>6 DEF ClearDelta, FrozenIsPast
  <1>7. QED
    BY <1>1, <1>2, <1>3, <1>4, <1>5, <1>6, RowSteps

\* Nothing of a log is left in a monitor that was cleared (connection.hpp:147-150).
LEMMA CleanFacts ==
  ASSUME NEW first \in BOOLEAN, Clear(first), ~log_mode' => imported' = << >>
  PROVE  LiveHasNoLog'
  <1>1. scrollback' = << >> /\ rows' = << >>
    BY ClearFacts
  <1>2. \A s : s = << >> => DOMAIN s = {}
    OBVIOUS
  <1>3. DOMAIN scrollback' = {} /\ DOMAIN rows' = {}
    BY <1>1, <1>2
  <1>4. QED
    BY <1>3 DEF LiveHasNoLog

\* Only logs bring frames of a log, and they are shown in log mode only
\* (app_state.hpp:512-515, 719-753).
LEMMA LiveKept ==
  ASSUME TypeOK, FlowInv, BufferInv, RowsIndexed, LiveHasNoLog, [Next]_vars
  PROVE  LiveHasNoLog'
  <1>0. LiveHasNoLog <=> (~log_mode => imported = << >> /\ NotLogged(scrollback) /\ NotLoggedRows)
    BY DEF LiveHasNoLog, NotLogged, NotLoggedRows
  <1>1. CASE UNCHANGED <<logVars, shownVars, freeze>>
    BY <1>1 DEF logVars, shownVars, rowVars, LiveHasNoLog
  <1>2. CASE ShowError \/ ToggleFreeze \/ ClearDelta
    BY <1>2 DEF ShowError, ToggleFreeze, ClearDelta, logVars, rowVars, LiveHasNoLog
  <1>3. CASE ShowFrame
    <2>1. Head(batch) \in Frame /\ Head(batch).from # "log" /\ batch # << >>
      BY <1>3, TailFacts DEF ShowFrame, TypeOK, GuiType, BufferInv
    <2>2. UNCHANGED <<log_mode, imported>>
          /\ scrollback' = Newest(Append(scrollback, Head(batch)))
      BY <1>3 DEF ShowFrame, logVars
    <2>3. scrollback \in Seq(Frame)
      BY DEF TypeOK, StatType
    <2>4. Append(scrollback, Head(batch)) \in Seq(Frame)
          /\ (NotLogged(scrollback) => NotLogged(Append(scrollback, Head(batch))))
      BY <2>1, <2>3 DEF NotLogged
    <2>5. NotLogged(scrollback) => NotLogged(Newest(Append(scrollback, Head(batch))))
      BY <2>4, NewestFacts
    <2>6. NotLogged(scrollback) => NotLogged(scrollback)'
      BY <2>2, <2>5 DEF NotLogged
    <2>7. NotLoggedRows => NotLoggedRows'
      <3>1. CASE PutRow(Head(batch))
        BY <2>1, <2>2, <3>1, PutRowFacts DEF TypeOK
      <3>2. CASE UNCHANGED rows
        BY <3>2 DEF NotLoggedRows
      <3>3. QED
        BY <1>3, <3>1, <3>2 DEF ShowFrame
    <2>8. QED
      BY <1>0, <2>2, <2>6, <2>7 DEF LiveHasNoLog, NotLogged, NotLoggedRows
  <1>4. CASE \/ ImportMotec \/ ImportFrame \/ ImportDone
             \/ \E log \in Logs : ImportLog(log)
             \/ \E c \in log_channels \cup {0} : LoadLogDbc(c) \/ UnloadLogDbc(c)
    <2>1. log_mode'
      BY <1>4 DEF ImportMotec, ImportFrame, ImportDone, ImportLog, LoadLogDbc,
         UnloadLogDbc, LogDbc, logVars, FlowInv
    <2>2. QED
      BY <2>1 DEF LiveHasNoLog
  <1>5. ASSUME NEW d \in Devices, Connect(d)
        PROVE  LiveHasNoLog'
    BY <1>5 DEF Connect, shownVars, rowVars, LiveHasNoLog
  <1>6. ASSUME NEW d \in Devices, NEW connects \in BOOLEAN, LeaveLog(d, connects)
        PROVE  LiveHasNoLog'
    <2>1. imported' = << >> /\ Clear(FALSE)
      BY <1>6 DEF LeaveLog
    <2>2. QED
      BY <2>1, CleanFacts
  <1>7. CASE ClearMonitor
    <2>1. UNCHANGED logVars /\ Clear(FALSE)
      BY <1>7 DEF ClearMonitor
    <2>2. QED
      BY <1>0, <2>1, CleanFacts DEF logVars
  <1>8. QED
    BY <1>1, <1>2, <1>3, <1>4, <1>5, <1>6, <1>7, MonitorSteps

\* replaying is set and cleared with the thread (app_state.hpp:647-701).
LEMMA FlagKept ==
  ASSUME ReplayFlag, [Next]_vars
  PROVE  ReplayFlag'
  <1>1. CASE UNCHANGED <<threadVars, replay_buf>>
    BY <1>1 DEF ReplayFlag, threadVars
  <1>2. CASE ReplayEnd
    BY <1>2 DEF ReplayEnd, ReplayFlag
  <1>3. CASE ReplayNext \/ ReplayGoesOn \/ ReplayPush
    BY <1>3 DEF ReplayNext, ReplayGoesOn, ReplayPush, ReplayFlag
  <1>4. CASE StopReplay \/ PauseReplay \/ DrainReplay \/ \E log \in Logs : OpenReplay(log)
    BY <1>4 DEF StopReplay, PauseReplay, DrainReplay, OpenReplay, threadVars, ReplayFlag
  <1>5. CASE Joined
    BY <1>5 DEF Joined, ReplayFlag
  <1>6. QED
    BY <1>1, <1>2, <1>3, <1>4, <1>5, ReplaySteps

-----------------------------------------------------------------------------
(* The invariant holds in every state, and what follows from it.            *)

\* The program starts with nothing connected, shown or replayed.
LEMMA Initially ==
  ASSUME Init
  PROVE  IInv
  <1>1. TypeOK
    <2>1. GuiType /\ SlotType
      BY DEF Init, GuiType, SlotType
    <2>2. LogType
      <3>1. log_mode \in BOOLEAN
        BY DEF Init
      <3>2. log_dbc = {} /\ imported = << >> /\ todo = << >>
        BY DEF Init
      <3>3. QED
        BY <3>1, <3>2 DEF LogType
    <2>3. RowType
      <3>1. freeze \in BOOLEAN
        BY DEF Init
      <3>2. rows = << >> /\ frozen_rows = << >> /\ index = NoIndex /\ missed = None
        BY DEF Init
      <3>3. QED
        BY <3>1, <3>2 DEF RowType, NoIndex, None
    <2>4. StatType
      <3>1. has_first \in BOOLEAN
        BY DEF Init
      <3>2. scrollback = << >> /\ per_id = None /\ errors = 0 /\ signals = None
        BY DEF Init
      <3>3. QED
        BY <3>1, <3>2 DEF StatType, None
    <2>5. ReplayType
      <3>1. stop \in BOOLEAN /\ replaying \in BOOLEAN /\ paused \in BOOLEAN
        BY DEF Init
      <3>2. replay = "none" /\ played = << >> /\ pos = 1 /\ next = << >> /\ replay_buf = << >>
        BY DEF Init
      <3>3. QED
        BY <3>1, <3>2 DEF ReplayType
    <2>6. QED
      BY <2>1, <2>2, <2>3, <2>4, <2>5 DEF TypeOK
  <1>2. FlowInv
    BY DEF Init, FlowInv
  <1>3. BufferInv
    BY DEF Init, BufferInv, NotLogged
  <1>4. RowsIndexed /\ FrozenIsPast
    BY DEF Init, RowsIndexed, FrozenIsPast, NoIndex
  <1>5. LiveHasNoLog
    BY DEF Init, LiveHasNoLog
  <1>6. ReplayFlag
    BY DEF Init, ReplayFlag
  <1>7. QED
    BY <1>1, <1>2, <1>3, <1>4, <1>5, <1>6 DEF IInv, MonitorInv

\* IInv is inductive: what the properties below rest on.
THEOREM Invariant == Spec => []IInv
  <1>1. Init => IInv
    BY Initially
  <1>2. ASSUME IInv, [Next]_vars
        PROVE  IInv'
    <2>1. TypeOK /\ FlowInv /\ BufferInv /\ RowsIndexed /\ FrozenIsPast /\ LiveHasNoLog /\ ReplayFlag
      BY <1>2 DEF IInv, MonitorInv
    <2>2. TypeOK'
      <3>1. GuiType' /\ SlotType' /\ LogType'
        BY <1>2, <2>1, GuiKeepsType, SlotsKeepType, LogKeepsType
      <3>2. RowType' /\ StatType' /\ ReplayType'
        BY <1>2, <2>1, RowsKeepType, StatsKeepType, ReplayKeepsType
      <3>3. QED
        BY <3>1, <3>2 DEF TypeOK
    <2>3. FlowInv' /\ BufferInv'
      BY <1>2, <2>1, FlowKept, BuffersKept
    <2>4. RowsIndexed' /\ FrozenIsPast'
      BY <1>2, <2>1, IndexKept, FrozenKept
    <2>5. LiveHasNoLog' /\ ReplayFlag'
      BY <1>2, <2>1, LiveKept, FlagKept
    <2>6. QED
      BY <2>2, <2>3, <2>4, <2>5 DEF IInv, MonitorInv
  <1>3. QED
    BY <1>1, <1>2, PTL DEF Spec

\* The state has its types, whatever the adapters, ids, logs and bounds.
THEOREM PipelineTypes == Spec => []TypeOK
  <1>1. IInv => TypeOK
    BY DEF IInv
  <1>2. QED
    BY Invariant, <1>1, PTL

\* monitor_index leads to the row of its key, and of a live session each row
\* has its entry and each key one row (app_state.hpp:623-636).
THEOREM RowsAreIndexed == Spec => []RowsIndexed
  <1>1. IInv => RowsIndexed
    BY DEF IInv, MonitorInv
  <1>2. QED
    BY Invariant, <1>1, PTL

\* What Freeze kept is an earlier state of the rows (app_state.hpp:640-645).
THEOREM FrozenRowsArePast == Spec => []FrozenIsPast
  <1>1. IInv => FrozenIsPast
    BY DEF IInv, MonitorInv
  <1>2. QED
    BY Invariant, <1>1, PTL

\* A live session shows nothing of a log (connection.hpp:142-158).
THEOREM LogsAreLeft == Spec => []LiveHasNoLog
  <1>1. IInv => LiveHasNoLog
    BY DEF IInv, MonitorInv
  <1>2. QED
    BY Invariant, <1>1, PTL

\* replaying says whether the replay thread plays (app_state.hpp:647-701).
THEOREM ReplayFlagIsTrue == Spec => []ReplayFlag
  <1>1. IInv => ReplayFlag
    BY DEF IInv
  <1>2. QED
    BY Invariant, <1>1, PTL

\* The frame of the GUI that stops a replay shows the frames it left
\* (app_state.hpp:588-600, 696-701).
THEOREM ReplayLeavesNothing == Spec => []NothingLeftOver
  <1>1. IInv => NothingLeftOver
    BY DEF IInv, FlowInv, NothingLeftOver
  <1>2. QED
    BY Invariant, <1>1, PTL

-----------------------------------------------------------------------------
(* Sums over a finite set: of ids, and of rows.  The sum is the fold of a   *)
(* community module, a recursive function on its subsets; its facts are     *)
(* shown by least counterexample, a subset that contains no other.          *)

\* The element the fold takes next.
Pick(s) == CHOOSE x \in s : TRUE

\* it adds f up over each subset of S, element by element.
Sums(it, f, S) ==
  it = [s \in SUBSET S |-> IF s = {} THEN 0 ELSE f[Pick(s)] + it[s \ {Pick(s)}]]

\* f counts on S.
Numbers(f, S) == \A x \in S : f[x] \in Nat
SameOn(f, g, S) == \A x \in S : f[x] = g[x]
SameBut(f, g, S, x) == \A y \in S \ {x} : f[y] = g[y]

SumOver(f, S) == (CHOOSE it : Sums(it, f, S))[S]

\* A set of naturals has a least element.
LEMMA LeastNat ==
  ASSUME NEW B, B \subseteq Nat, B # {}
  PROVE  \E m \in B : \A k \in B : m <= k
  <1> DEFINE R == {ss \in Nat \X Nat : ss[1] < ss[2]}
  <1>1. IsWellFoundedOn(R, Nat)
    BY NatLessThanWellFounded, Zenon DEF OpToRel
  <1> HIDE DEF R
  <1>2. PICK m \in B : \A k \in B : <<k, m>> \notin R
    BY <1>1, WFMin, Zenon
  <1>3. ASSUME NEW k \in B PROVE m <= k
    <2>1. m \in Nat /\ k \in Nat /\ <<k, m>> \notin R
      BY <1>2
    <2>2. k < m => <<k, m>> \in R
      BY <2>1 DEF R
    <2>3. QED
      BY <2>1, <2>2
  <1>4. QED
    BY <1>3

\* It is one of the set.
LEMMA PickFacts == ASSUME NEW s, s # {} PROVE Pick(s) \in s
  BY DEF Pick

\* There is such a function: those on subsets of at most n elements extend to
\* n + 1 elements.
LEMMA SumsExist ==
  ASSUME NEW f, NEW S, IsFiniteSet(S)
  PROVE  \E it : Sums(it, f, S)
  <1> DEFINE Part(n) == {s \in SUBSET S : Cardinality(s) <= n}
             Step(it, s) == IF s = {} THEN 0 ELSE f[Pick(s)] + it[s \ {Pick(s)}]
             Good(n) == \E it : it = [s \in Part(n) |-> Step(it, s)]
             Bad == {n \in Nat : ~Good(n)}
  <1>1. \A s \in SUBSET S : /\ IsFiniteSet(s) /\ Cardinality(s) \in Nat
                            /\ Cardinality(s) = 0 <=> s = {}
    BY FS_Subset, FS_CardinalityType, FS_EmptySet
  <1>2. Good(0)
    <2> DEFINE it == [s \in Part(0) |-> 0]
    <2>1. \A s \in Part(0) : s = {}
      BY <1>1
    <2>2. it = [s \in Part(0) |-> Step(it, s)]
      BY <2>1
    <2>3. QED
      BY <2>2
  <1>3. ASSUME NEW n \in Nat, Good(n)
        PROVE  Good(n + 1)
    <2>1. PICK it : it = [s \in Part(n) |-> Step(it, s)]
      BY <1>3
    <2> DEFINE new == [s \in Part(n + 1) |-> Step(it, s)]
    <2>2. Part(n) \subseteq Part(n + 1)
      BY <1>1
    <2>3. \A s \in Part(n) : new[s] = it[s]
      BY <2>1, <2>2
    <2>4. ASSUME NEW s \in Part(n + 1), s # {}
          PROVE  s \ {Pick(s)} \in Part(n)
      <3>1. Pick(s) \in s /\ s \in SUBSET S
        BY <2>4, PickFacts
      <3>2. Cardinality(s \ {Pick(s)}) = Cardinality(s) - 1
        BY <1>1, <3>1, FS_RemoveElement
      <3>3. QED
        BY <1>1, <3>1, <3>2
    <2>5. \A s \in Part(n + 1) : Step(it, s) = Step(new, s)
      BY <2>3, <2>4
    <2> HIDE DEF new
    <2>6. new = [s \in Part(n + 1) |-> Step(new, s)]
      BY <2>5 DEF new
    <2>7. QED
      BY <2>6
  <1> HIDE DEF Good
  <1>4. Bad = {}
    <2>1. SUFFICES ASSUME Bad # {} PROVE FALSE
      OBVIOUS
    <2>2. PICK m \in Bad : \A k \in Bad : m <= k
      BY <2>1, LeastNat
    <2>3. m # 0
      BY <1>2, <2>2
    <2>4. m - 1 \in Nat /\ m - 1 \notin Bad
      BY <2>2, <2>3
    <2>5. QED
      BY <1>3, <2>2, <2>4
  <1>5. Good(Cardinality(S))
    BY <1>1, <1>4
  <1>6. Part(Cardinality(S)) = SUBSET S
    BY FS_Subset
  <1>7. QED
    BY <1>5, <1>6 DEF Good, Sums

\* Of some subsets of a finite set, one contains no other.
LEMMA LeastSubset ==
  ASSUME NEW S, IsFiniteSet(S), NEW B, B \subseteq SUBSET S, B # {}
  PROVE  \E m \in B : \A s \in B : s \subseteq m => s = m
  <1>1. \A s \in B : IsFiniteSet(s) /\ Cardinality(s) \in Nat
    BY FS_Subset, FS_CardinalityType
  <1> DEFINE C == {Cardinality(s) : s \in B}
  <1>2. C \subseteq Nat /\ C # {}
    BY <1>1
  <1>3. PICK k \in C : \A j \in C : k <= j
    BY <1>2, LeastNat
  <1>4. PICK m \in B : Cardinality(m) = k
    BY <1>3
  <1>5. ASSUME NEW s \in B, s \subseteq m
        PROVE  s = m
    <2>1. Cardinality(s) <= Cardinality(m) /\ (Cardinality(m) = Cardinality(s) => m = s)
      BY <1>1, <1>5, FS_Subset
    <2>2. Cardinality(m) <= Cardinality(s)
      BY <1>3, <1>4
    <2>3. Cardinality(s) \in Nat /\ Cardinality(m) \in Nat
      BY <1>1
    <2>4. QED
      BY <2>1, <2>2, <2>3
  <1>6. QED
    BY <1>5

\* What the definition says of one subset.
SumsUp(it, f, S) ==
  \A s \in SUBSET S :
    /\ s = {} => it[s] = 0
    /\ s # {} => /\ Pick(s) \in s /\ s \ {Pick(s)} \in SUBSET S
                 /\ it[s] = f[Pick(s)] + it[s \ {Pick(s)}]

\* A sum is an element and the sum of the others.
LEMMA SumsStep ==
  ASSUME NEW S, NEW f, NEW it, Sums(it, f, S)
  PROVE  SumsUp(it, f, S)
  BY PickFacts DEF Sums, SumsUp

\* Sums of numbers are numbers.
LEMMA SumsType ==
  ASSUME NEW S, IsFiniteSet(S), NEW f, Numbers(f, S),
         NEW it, Sums(it, f, S)
  PROVE  Numbers(it, SUBSET S)
  <1> DEFINE Bad == {s \in SUBSET S : it[s] \notin Nat}
  <1>1. SUFFICES ASSUME Bad # {} PROVE FALSE
    BY DEF Numbers
  <1>2. PICK m \in Bad : \A s \in Bad : s \subseteq m => s = m
    <2>1. Bad \subseteq SUBSET S
      OBVIOUS
    <2> HIDE DEF Bad
    <2>2. QED
      BY <1>1, <2>1, LeastSubset
  <1>up. SumsUp(it, f, S)
    BY SumsStep
  <1>3. m # {}
    <2>1. m = {} => it[m] = 0
      BY <1>up DEF SumsUp
    <2>2. QED
      BY <2>1
  <1>4. Pick(m) \in m /\ it[m] = f[Pick(m)] + it[m \ {Pick(m)}]
    BY <1>3, <1>up DEF SumsUp
  <1>5. m \ {Pick(m)} \notin Bad
    BY <1>2, <1>4
  <1>6. f[Pick(m)] \in Nat
    BY <1>4 DEF Numbers
  <1>7. QED
    BY <1>4, <1>5, <1>6

\* A sum depends on the values on its set, not on the set it is a part of.
LEMMA SumsAgree ==
  ASSUME NEW T, IsFiniteSet(T), NEW S, S \subseteq T,
         NEW f, NEW g, SameOn(f, g, S),
         NEW it, Sums(it, f, S), NEW jt, Sums(jt, g, T)
  PROVE  SameOn(it, jt, SUBSET S)
  <1> DEFINE Bad == {s \in SUBSET S : it[s] # jt[s]}
  <1>1. SUFFICES ASSUME Bad # {} PROVE FALSE
    BY DEF SameOn
  <1>2. PICK m \in Bad : \A s \in Bad : s \subseteq m => s = m
    <2>1. IsFiniteSet(S) /\ Bad \subseteq SUBSET S
      BY FS_Subset
    <2> HIDE DEF Bad
    <2>2. QED
      BY <1>1, <2>1, LeastSubset
  <1>up. SumsUp(it, f, S) /\ SumsUp(jt, g, T)
    BY SumsStep
  <1>3. m # {}
    BY <1>up DEF SumsUp
  <1>4. /\ Pick(m) \in m /\ it[m] = f[Pick(m)] + it[m \ {Pick(m)}]
        /\ jt[m] = g[Pick(m)] + jt[m \ {Pick(m)}]
    <2>1. m \in SUBSET S /\ m \in SUBSET T
      OBVIOUS
    <2>2. QED
      BY <1>3, <1>up, <2>1 DEF SumsUp
  <1>5. m \ {Pick(m)} \notin Bad
    BY <1>2, <1>4
  <1>6. f[Pick(m)] = g[Pick(m)]
    BY <1>4 DEF SameOn
  <1>7. it[m \ {Pick(m)}] = jt[m \ {Pick(m)}]
    BY <1>4, <1>5
  <1>8. QED
    BY <1>4, <1>6, <1>7

\* Any element may be taken out, and not only the one the fold takes.
LEMMA SumsRemove ==
  ASSUME NEW S, IsFiniteSet(S), NEW f, Numbers(f, S),
         NEW it, Sums(it, f, S)
  PROVE  \A s \in SUBSET S : \A x \in s : it[s] = it[s \ {x}] + f[x]
  <1> DEFINE Bad == {s \in SUBSET S : \E x \in s : it[s] # it[s \ {x}] + f[x]}
  <1>1. SUFFICES ASSUME Bad # {} PROVE FALSE
    OBVIOUS
  <1>2. PICK m \in Bad : \A s \in Bad : s \subseteq m => s = m
    <2>1. Bad \subseteq SUBSET S
      OBVIOUS
    <2> HIDE DEF Bad
    <2>2. QED
      BY <1>1, <2>1, LeastSubset
  <1>up. SumsUp(it, f, S)
    BY SumsStep
  <1>3. PICK x \in m : it[m] # it[m \ {x}] + f[x]
    OBVIOUS
  <1> DEFINE y == Pick(m)
  <1>4. y \in m /\ it[m] = f[y] + it[m \ {y}] /\ y \in S /\ x \in S
    BY <1>3, <1>up DEF SumsUp
  <1>5. /\ it[m] \in Nat /\ it[m \ {x}] \in Nat /\ it[m \ {y}] \in Nat
        /\ f[x] \in Nat /\ f[y] \in Nat /\ it[(m \ {x}) \ {y}] \in Nat
    <2>1. Numbers(it, SUBSET S)
      BY SumsType
    <2>2. m \in SUBSET S /\ m \ {x} \in SUBSET S /\ m \ {y} \in SUBSET S /\ (m \ {x}) \ {y} \in SUBSET S
      OBVIOUS
    <2>3. QED
      BY <1>4, <2>1, <2>2 DEF Numbers
  <1> HIDE DEF y
  <1>6. x # y
    <2>1. it[m] = it[m \ {y}] + f[y]
      BY <1>4, <1>5
    <2>2. QED
      BY <1>3, <2>1, Zenon
  <1>7. m \ {x} \notin Bad /\ m \ {y} \notin Bad
    BY <1>2, <1>3, <1>4
  <1>8. it[m \ {x}] = it[(m \ {x}) \ {y}] + f[y]
    BY <1>4, <1>6, <1>7
  <1>9. it[m \ {y}] = it[(m \ {y}) \ {x}] + f[x]
    BY <1>3, <1>6, <1>7
  <1>10. (m \ {y}) \ {x} = (m \ {x}) \ {y}
    OBVIOUS
  <1>11. it[m \ {y}] = it[(m \ {x}) \ {y}] + f[x]
    BY <1>9, <1>10, Zenon
  <1> DEFINE a == it[m \ {x}]
             b == it[m \ {y}]
             c == it[(m \ {x}) \ {y}]
             d == it[m]
             p == f[x]
             q == f[y]
  <1>12. d = q + b /\ a = c + q /\ b = c + p /\ d # a + p
    BY <1>3, <1>4, <1>8, <1>11
  <1>13. a \in Nat /\ b \in Nat /\ c \in Nat /\ d \in Nat /\ p \in Nat /\ q \in Nat
    BY <1>5
  <1> HIDE DEF a, b, c, d, p, q
  <1>14. QED
    BY <1>12, <1>13

\* The sum is that of a function that adds up.
LEMMA SumChosen ==
  ASSUME NEW f, NEW S, IsFiniteSet(S)
  PROVE  \E it : Sums(it, f, S) /\ SumOver(f, S) = it[S]
  BY SumsExist DEF SumOver

\* Its type.
LEMMA SumType ==
  ASSUME NEW f, NEW S, IsFiniteSet(S), Numbers(f, S)
  PROVE  SumOver(f, S) \in Nat
  <1>1. PICK it : Sums(it, f, S) /\ SumOver(f, S) = it[S]
    BY SumChosen
  <1>2. Numbers(it, SUBSET S) /\ S \in SUBSET S
    BY <1>1, SumsType
  <1>3. QED
    BY <1>1, <1>2 DEF Numbers

\* Nothing adds up to nothing.
LEMMA SumEmpty == ASSUME NEW f PROVE SumOver(f, {}) = 0
  <1>1. PICK it : Sums(it, f, {}) /\ SumOver(f, {}) = it[{}]
    BY SumChosen, FS_EmptySet
  <1>2. {} \in SUBSET {}
    OBVIOUS
  <1>3. QED
    <2>1. SumsUp(it, f, {})
      BY <1>1, SumsStep
    <2>2. QED
      BY <1>1, <1>2, <2>1 DEF SumsUp

\* The same values have the same sum.
LEMMA SumSame ==
  ASSUME NEW S, IsFiniteSet(S), NEW f, NEW g, SameOn(f, g, S)
  PROVE  SumOver(f, S) = SumOver(g, S)
  <1>1. PICK it : Sums(it, f, S) /\ SumOver(f, S) = it[S]
    BY SumChosen
  <1>2. PICK jt : Sums(jt, g, S) /\ SumOver(g, S) = jt[S]
    BY SumChosen
  <1>3. S \in SUBSET S
    OBVIOUS
  <1>4. SameOn(it, jt, SUBSET S)
    BY <1>1, <1>2, SumsAgree
  <1>5. QED
    BY <1>1, <1>2, <1>3, <1>4 DEF SameOn

\* One more element.
LEMMA SumAdd ==
  ASSUME NEW f, NEW S, NEW x, IsFiniteSet(S), x \notin S,
         Numbers(f, S \cup {x})
  PROVE  SumOver(f, S \cup {x}) = SumOver(f, S) + f[x]
  <1> DEFINE T == S \cup {x}
  <1>0. IsFiniteSet(T) /\ S \in SUBSET T /\ T \in SUBSET T /\ S \in SUBSET S /\ x \in T /\ T \ {x} = S
    BY FS_AddElement
  <1>1. PICK it : Sums(it, f, S) /\ SumOver(f, S) = it[S]
    BY SumChosen
  <1>2. PICK jt : Sums(jt, f, T) /\ SumOver(f, T) = jt[T]
    BY <1>0, SumChosen
  <1> HIDE DEF T
  <1>3. it[S] = jt[S]
    <2>0. SameOn(f, f, S)
      BY DEF SameOn
    <2>1. SameOn(it, jt, SUBSET S)
      BY <1>0, <2>0, <1>1, <1>2, SumsAgree
    <2>2. QED
      BY <1>0, <2>1 DEF SameOn
  <1>4. Numbers(f, T)
    BY DEF T
  <1>5. jt[T] = jt[T \ {x}] + f[x]
    BY <1>0, <1>2, <1>4, SumsRemove
  <1>6. QED
    BY <1>0, <1>1, <1>2, <1>3, <1>5 DEF T

\* Where one value changes, the sum changes as much.
LEMMA SumChange ==
  ASSUME NEW S, IsFiniteSet(S), NEW f, NEW g, NEW x \in S,
         Numbers(f, S), Numbers(g, S), SameBut(f, g, S, x)
  PROVE  SumOver(g, S) = (SumOver(f, S) - f[x]) + g[x]
  <1> DEFINE T == S \ {x}
  <1>1. IsFiniteSet(T) /\ S = T \cup {x} /\ x \notin T
    BY FS_RemoveElement
  <1>2. SameOn(f, g, T)
    BY DEF SameOn, SameBut
  <1>3. Numbers(f, T \cup {x}) /\ Numbers(g, T \cup {x}) /\ Numbers(f, T) /\ Numbers(g, T)
    BY DEF Numbers
  <1> HIDE DEF T
  <1>4. /\ SumOver(f, T \cup {x}) = SumOver(f, T) + f[x]
        /\ SumOver(g, T \cup {x}) = SumOver(g, T) + g[x]
    <2>1. IsFiniteSet(T)
      BY <1>1
    <2>2. x \notin T
      BY <1>1
    <2>3. QED
      BY <1>3, <2>1, <2>2, SumAdd
  <1>6. SumOver(f, T) = SumOver(g, T) /\ SumOver(f, T) \in Nat
    BY <1>1, <1>2, <1>3, SumSame, SumType
  <1>7. f[x] \in Nat /\ g[x] \in Nat
    BY DEF Numbers
  <1>8. QED
    BY <1>1, <1>4, <1>6, <1>7

\* What the community module computes is this sum.
LEMMA SumMeans ==
  ASSUME NEW f, NEW S
  PROVE  MapThenSumSet(LAMBDA i : f[i], S) = SumOver(f, S)
  BY DEF MapThenSumSet, MapThenFoldSet, SumOver, Sums, Pick

\* What the rows of r count.
Counts(r) == [n \in DOMAIN r |-> r[n].count]

\* So does it for what rows count.
LEMMA CountsMean ==
  ASSUME NEW r, NEW S, IsFiniteSet(S), S \subseteq DOMAIN r
  PROVE  MapThenSumSet(LAMBDA n : r[n].count, S) = SumOver(Counts(r), S)
  <1> DEFINE f == Counts(r)
             Adds(it) == it = [s \in SUBSET S |-> IF s = {} THEN 0
                                                  ELSE r[Pick(s)].count + it[s \ {Pick(s)}]]
             jt == CHOOSE it : Adds(it)
  <1>1. \A s \in SUBSET S : s # {} => f[Pick(s)] = r[Pick(s)].count
    BY PickFacts DEF Counts
  <1>2. \A it : Adds(it) <=> Sums(it, f, S)
    BY <1>1 DEF Sums
  <1>3. MapThenSumSet(LAMBDA n : r[n].count, S) = jt[S]
    BY DEF MapThenSumSet, MapThenFoldSet, Pick
  <1>4. \E it : Adds(it)
    BY <1>2, SumsExist
  <1>5. Adds(jt)
    <2> HIDE DEF Adds
    <2>1. QED
      BY <1>4
  <1> HIDE DEF jt, Adds
  <1>6. Sums(jt, f, S)
    BY <1>2, <1>5
  <1>7. PICK it : Sums(it, f, S) /\ SumOver(f, S) = it[S]
    BY SumChosen
  <1>8. S \in SUBSET S
    OBVIOUS
  <1> HIDE DEF f
  <1>same. SameOn(f, f, S)
    BY DEF SameOn
  <1>9. SameOn(it, jt, SUBSET S)
    BY <1>same, <1>6, <1>7, SumsAgree
  <1>10. QED
    BY <1>3, <1>7, <1>8, <1>9 DEF SameOn, f

\* Zeros add up to zero.
LEMMA SumZero ==
  ASSUME NEW S, IsFiniteSet(S), NEW f, \A x \in S : f[x] = 0
  PROVE  SumOver(f, S) = 0
  <1>1. PICK it : Sums(it, f, S) /\ SumOver(f, S) = it[S]
    BY SumChosen
  <1>up. SumsUp(it, f, S)
    BY <1>1, SumsStep
  <1> DEFINE Bad == {s \in SUBSET S : it[s] # 0}
  <1>2. SUFFICES ASSUME Bad # {} PROVE FALSE
    BY <1>1
  <1>3. PICK m \in Bad : \A s \in Bad : s \subseteq m => s = m
    <2>1. Bad \subseteq SUBSET S
      OBVIOUS
    <2> HIDE DEF Bad
    <2>2. QED
      BY <1>2, <2>1, LeastSubset
  <1>4. m # {}
    <2>1. m = {} => it[m] = 0
      BY <1>up DEF SumsUp
    <2>2. QED
      BY <2>1
  <1>5. Pick(m) \in m /\ it[m] = f[Pick(m)] + it[m \ {Pick(m)}]
    BY <1>4, <1>up DEF SumsUp
  <1>6. m \ {Pick(m)} \notin Bad
    BY <1>3, <1>5
  <1>7. f[Pick(m)] = 0 /\ it[m \ {Pick(m)}] = 0
    BY <1>5, <1>6
  <1>8. QED
    BY <1>5, <1>7

-----------------------------------------------------------------------------
(* Statistics.                                                              *)

\* The total of bus_stats (app_state.hpp:87-106).
LEMMA TotalFacts ==
  ASSUME NEW count \in [Ids -> Nat]
  PROVE  Total(count) = SumOver(count, Ids) /\ Total(count) \in Nat
  <1>1. Total(count) = SumOver(count, Ids)
    BY SumMeans DEF Total
  <1>2. Numbers(count, Ids) /\ IsFiniteSet(Ids)
    BY PipelineConstants DEF Numbers
  <1>3. QED
    BY <1>1, <1>2, SumType

\* A frame more of an id is a frame more in all.
LEMMA TotalAdd1 ==
  ASSUME NEW count \in [Ids -> Nat], NEW i \in Ids
  PROVE  Total(Add1(count, i)) = Total(count) + 1
  <1> DEFINE new == Add1(count, i)
  <1>1. /\ new \in [Ids -> Nat] /\ new[i] = count[i] + 1
        /\ SameBut(count, new, Ids, i)
    BY DEF Add1, SameBut
  <1> HIDE DEF new
  <1>2. Numbers(count, Ids) /\ Numbers(new, Ids) /\ IsFiniteSet(Ids)
    BY <1>1, PipelineConstants DEF Numbers
  <1>3. SumOver(new, Ids) = (SumOver(count, Ids) - count[i]) + new[i]
    BY <1>1, <1>2, SumChange
  <1>4. Total(new) = SumOver(new, Ids) /\ Total(count) = SumOver(count, Ids) /\ Total(count) \in Nat
    BY <1>1, TotalFacts
  <1>5. count[i] \in Nat
    OBVIOUS
  <1>6. QED
    BY <1>1, <1>3, <1>4, <1>5 DEF new

\* bus_stats::reset().
LEMMA TotalNone == Total(None) = 0
  <1>1. None \in [Ids -> Nat] /\ \A i \in Ids : None[i] = 0
    BY DEF None
  <1>2. SumOver(None, Ids) = 0
    BY <1>1, SumZero, PipelineConstants
  <1>3. QED
    BY <1>1, <1>2, TotalFacts

-----------------------------------------------------------------------------
(* Rows.                                                                    *)

\* The rows of an id (one for each channel it came from) and what they count.
RowsFor(r, i) == {n \in DOMAIN r : r[n].frame.id = i}
RowTotal(r, i) == MapThenSumSet(LAMBDA n : r[n].count, RowsFor(r, i))

\* There are finitely many rows of an id, and each counts at least one frame.
LEMMA RowTotalFacts ==
  ASSUME NEW r \in Seq(Row), NEW i
  PROVE  /\ IsFiniteSet(RowsFor(r, i)) /\ RowsFor(r, i) \subseteq DOMAIN r
         /\ Numbers(Counts(r), RowsFor(r, i))
         /\ RowTotal(r, i) = SumOver(Counts(r), RowsFor(r, i)) /\ RowTotal(r, i) \in Nat
  <1>1. IsFiniteSet(RowsFor(r, i)) /\ RowsFor(r, i) \subseteq DOMAIN r
    <2>1. IsFiniteSet(1 .. Len(r))
      BY FS_Interval
    <2>2. RowsFor(r, i) \subseteq 1 .. Len(r)
      BY DEF RowsFor
    <2>3. QED
      BY <2>1, <2>2, FS_Subset
  <1>2. Numbers(Counts(r), RowsFor(r, i))
    BY <1>1, RowFacts DEF Numbers, Counts
  <1>3. RowTotal(r, i) = SumOver(Counts(r), RowsFor(r, i))
    BY <1>1, CountsMean DEF RowTotal
  <1>4. QED
    BY <1>1, <1>2, <1>3, SumType

\* Without rows nothing is counted.
LEMMA NoRows == ASSUME NEW i PROVE RowTotal(<< >>, i) = 0
  <1>1. << >> \in Seq(Row) /\ RowsFor(<< >>, i) = {}
    BY DEF RowsFor
  <1>2. RowTotal(<< >>, i) = SumOver(Counts(<< >>), RowsFor(<< >>, i))
    BY <1>1, RowTotalFacts
  <1>3. QED
    BY <1>1, <1>2, SumEmpty

\* A row that counts one frame more, of its own id.
LEMMA CountInTotal ==
  ASSUME NEW r \in Seq(Row), NEW q \in Seq(Row), DOMAIN q = DOMAIN r, NEW k \in DOMAIN r,
         \A n \in DOMAIN r : n # k => q[n] = r[n],
         q[k].frame.id = r[k].frame.id, q[k].count = r[k].count + 1, NEW i
  PROVE  RowTotal(q, i) = RowTotal(r, i) + (IF r[k].frame.id = i THEN 1 ELSE 0)
  <1>1. RowsFor(q, i) = RowsFor(r, i)
    BY DEF RowsFor
  <1> DEFINE S == RowsFor(r, i)
             f == Counts(r)
             g == Counts(q)
  <1>2. /\ IsFiniteSet(S) /\ S \subseteq DOMAIN r /\ Numbers(f, S) /\ Numbers(g, S)
        /\ RowTotal(r, i) = SumOver(f, S) /\ RowTotal(r, i) \in Nat
        /\ RowTotal(q, i) = SumOver(g, S)
    BY <1>1, RowTotalFacts
  <1>3. SameBut(f, g, S, k)
    BY DEF Counts, RowsFor, SameBut
  <1>4. g[k] = f[k] + 1 /\ f[k] \in Nat
    BY RowFacts DEF Counts
  <1>5. k \in S <=> r[k].frame.id = i
    BY DEF RowsFor
  <1> HIDE DEF S, f, g
  <1>6. CASE k \in S
    <2>1. SumOver(g, S) = (SumOver(f, S) - f[k]) + g[k]
      <3>1. IsFiniteSet(S)
        BY <1>2
      <3>2. Numbers(f, S) /\ Numbers(g, S)
        BY <1>2
      <3>3. QED
        BY <1>3, <1>6, <3>1, <3>2, SumChange
    <2>2. QED
      BY <1>2, <1>4, <1>5, <1>6, <2>1
  <1>7. CASE k \notin S
    <2>1. SameOn(f, g, S)
      BY <1>3, <1>7 DEF SameOn, SameBut
    <2>2. SumOver(f, S) = SumOver(g, S)
      BY <1>2, <2>1, SumSame
    <2>3. QED
      BY <1>2, <1>5, <1>7, <2>2
  <1>8. QED
    BY <1>6, <1>7

\* A new row, of one frame.
LEMMA NewRowTotal ==
  ASSUME NEW r \in Seq(Row), NEW q \in Seq(Row), NEW k, k \notin DOMAIN r,
         DOMAIN q = DOMAIN r \cup {k}, \A n \in DOMAIN r : q[n] = r[n],
         q[k].count = 1, NEW i
  PROVE  RowTotal(q, i) = RowTotal(r, i) + (IF q[k].frame.id = i THEN 1 ELSE 0)
  <1> DEFINE S == RowsFor(r, i)
             f == Counts(r)
             g == Counts(q)
  <1>1. RowsFor(q, i) = IF q[k].frame.id = i THEN S \cup {k} ELSE S
    BY DEF RowsFor
  <1>2. /\ IsFiniteSet(S) /\ S \subseteq DOMAIN r /\ Numbers(f, S)
        /\ RowTotal(r, i) = SumOver(f, S) /\ RowTotal(r, i) \in Nat
        /\ Numbers(g, RowsFor(q, i)) /\ RowTotal(q, i) = SumOver(g, RowsFor(q, i))
    BY RowTotalFacts
  <1>3. SameOn(f, g, S) /\ k \notin S /\ g[k] = 1
    BY DEF Counts, RowsFor, SameOn
  <1> HIDE DEF S, f, g
  <1>4. SumOver(f, S) = SumOver(g, S)
    BY <1>2, <1>3, SumSame
  <1>5. CASE q[k].frame.id = i
    <2>1. Numbers(g, S \cup {k}) /\ RowTotal(q, i) = SumOver(g, S \cup {k})
      BY <1>1, <1>2, <1>5
    <2>2. SumOver(g, S \cup {k}) = SumOver(g, S) + g[k]
      <3>1. PICK h, T : h = g /\ T = S
        OBVIOUS
      <3>2. IsFiniteSet(T) /\ k \notin T /\ Numbers(h, T \cup {k})
        BY <1>2, <1>3, <2>1, <3>1
      <3>3. SumOver(h, T \cup {k}) = SumOver(h, T) + h[k]
        BY <3>2, SumAdd
      <3>4. QED
        BY <3>1, <3>3
    <2>3. QED
      BY <1>2, <1>3, <1>4, <1>5, <2>1, <2>2
  <1>6. CASE q[k].frame.id # i
    BY <1>1, <1>2, <1>4, <1>6
  <1>7. QED
    BY <1>5, <1>6

\* However a frame enters the rows, those of its id count one more
\* (app_state.hpp:623-636, 764-778).
LEMMA RowsCount ==
  ASSUME rows \in Seq(Row), NEW f \in Frame, NEW i,
         \/ NewRow(f)
         \/ \E k \in DOMAIN rows : rows[k].frame.id = f.id /\ CountIn(f, k)
  PROVE  RowTotal(rows', i) = RowTotal(rows, i) + (IF f.id = i THEN 1 ELSE 0)
  <1>1. CASE NewRow(f)
    <2> DEFINE m == Len(rows) + 1
    <2>1. /\ rows' \in Seq(Row) /\ DOMAIN rows' = DOMAIN rows \cup {m}
          /\ \A n \in DOMAIN rows : rows'[n] = rows[n]
          /\ rows'[m] = [frame |-> f, count |-> 1]
      BY <1>1, NewRowFacts
    <2>2. m \notin DOMAIN rows
      OBVIOUS
    <2>3. rows'[m].count = 1 /\ rows'[m].frame = f
      BY <2>1
    <2> HIDE DEF m
    <2>4. RowTotal(rows', i) = RowTotal(rows, i) + (IF rows'[m].frame.id = i THEN 1 ELSE 0)
      BY <2>1, <2>2, <2>3, NewRowTotal
    <2>5. QED
      BY <2>3, <2>4
  <1>2. ASSUME NEW k \in DOMAIN rows, rows[k].frame.id = f.id, CountIn(f, k)
        PROVE  RowTotal(rows', i) = RowTotal(rows, i) + (IF f.id = i THEN 1 ELSE 0)
    <2>1. /\ rows' \in Seq(Row) /\ DOMAIN rows' = DOMAIN rows
          /\ \A n \in DOMAIN rows : n # k => rows'[n] = rows[n]
          /\ rows'[k].frame = f /\ rows'[k].count = rows[k].count + 1
      BY <1>2, CountInFacts
    <2>2. RowTotal(rows', i) = RowTotal(rows, i) + (IF rows[k].frame.id = i THEN 1 ELSE 0)
      BY <1>2, <2>1, CountInTotal
    <2>3. QED
      BY <1>2, <2>2
  <1>3. QED
    BY <1>1, <1>2

\* The row that monitor_index leads to is one of the frame's id
\* (app_state.hpp:623-636).
LEMMA PutRowCounts ==
  ASSUME RowsIndexed, NEW f, PutRow(f)
  PROVE  NewRow(f) \/ \E k \in DOMAIN rows : rows[k].frame.id = f.id /\ CountIn(f, k)
  <1>1. CASE Key(f) \in DOMAIN index
    <2>1. index[Key(f)] \in DOMAIN rows /\ Key(rows[index[Key(f)]].frame) = Key(f)
      BY <1>1 DEF RowsIndexed
    <2>2. rows[index[Key(f)]].frame.id = f.id
      BY <2>1 DEF Key
    <2>3. QED
      BY <1>1, <2>1, <2>2 DEF PutRow
  <1>2. CASE Key(f) \notin DOMAIN index
    BY <1>2 DEF PutRow
  <1>3. QED
    BY <1>1, <1>2

\* The first row of a key, which import_log() looks for.
LEMMA ImportCounts ==
  ASSUME rows \in Seq(Row), NEW f,
         \/ RowsOf(Key(f)) = {} /\ NewRow(f)
         \/ RowsOf(Key(f)) # {} /\ CountIn(f, Min(RowsOf(Key(f))))
  PROVE  NewRow(f) \/ \E k \in DOMAIN rows : rows[k].frame.id = f.id /\ CountIn(f, k)
  <1>1. RowsOf(Key(f)) \subseteq DOMAIN rows /\ RowsOf(Key(f)) \subseteq Nat
    BY DEF RowsOf
  <1>2. RowsOf(Key(f)) # {} => Min(RowsOf(Key(f))) \in RowsOf(Key(f))
    BY <1>1, LeastNat DEF Min
  <1>3. \A k \in RowsOf(Key(f)) : rows[k].frame.id = f.id
    BY DEF RowsOf, Key
  <1>4. QED
    BY <1>1, <1>2, <1>3

-----------------------------------------------------------------------------
(* The rows and the statistics.                                             *)

\* The rows and what no row counts make the statistics of each id.
Balanced == \A i \in Ids : RowTotal(rows, i) + missed[i] = per_id[i]

\* It is what the runs check.
LEMMA CountsMeans == CountsAgree <=> Balanced
  BY DEF CountsAgree, Balanced, RowTotal, RowsFor

\* A frame more in the statistics is one more in a row, or a missed one.
LEMMA OneMore ==
  ASSUME RowType, StatType, Balanced, NEW f \in Frame, ~f.error, RecordStats(f),
         \/ NewRow(f) /\ UNCHANGED missed
         \/ /\ \E k \in DOMAIN rows : rows[k].frame.id = f.id /\ CountIn(f, k)
            /\ UNCHANGED missed
         \/ missed' = Add1(missed, f.id) /\ UNCHANGED rows
  PROVE  Balanced'
  <1>1. f.id \in Ids /\ rows \in Seq(Row) /\ missed \in [Ids -> Nat] /\ per_id \in [Ids -> Nat]
    BY DEF Frame, RowType, StatType
  <1>2. per_id' = Add1(per_id, f.id)
    BY DEF RecordStats
  <1>3. ASSUME NEW i \in Ids
        PROVE  RowTotal(rows', i) + missed'[i] = per_id'[i]
    <2>1. RowTotal(rows, i) + missed[i] = per_id[i]
      BY DEF Balanced
    <2>2. RowTotal(rows, i) \in Nat /\ missed[i] \in Nat /\ per_id[i] \in Nat
      BY <1>1, RowTotalFacts
    <2>3. per_id'[i] = per_id[i] + (IF f.id = i THEN 1 ELSE 0)
      BY <1>1, <1>2, <2>2 DEF Add1
    <2>4. CASE UNCHANGED missed /\ \/ NewRow(f)
                                   \/ \E k \in DOMAIN rows : /\ rows[k].frame.id = f.id
                                                             /\ CountIn(f, k)
      <3>1. RowTotal(rows', i) = RowTotal(rows, i) + (IF f.id = i THEN 1 ELSE 0)
        BY <1>1, <2>4, RowsCount
      <3>2. missed'[i] = missed[i]
        BY <2>4
      <3>3. QED
        BY <2>1, <2>2, <2>3, <3>1, <3>2
    <2>5. CASE missed' = Add1(missed, f.id) /\ UNCHANGED rows
      <3>1. missed'[i] = missed[i] + (IF f.id = i THEN 1 ELSE 0)
        BY <1>1, <2>2, <2>5 DEF Add1
      <3>2. RowTotal(rows', i) = RowTotal(rows, i)
        BY <2>5
      <3>3. QED
        BY <2>1, <2>2, <2>3, <3>1, <3>2
    <2>6. QED
      BY <2>4, <2>5
  <1>4. QED
    BY <1>3 DEF Balanced

\* After clear_monitor() nothing is counted (app_state.hpp:705-715).
LEMMA ClearBalances ==
  ASSUME NEW first, Clear(first)
  PROVE  Balanced'
  <1>1. rows' = << >> /\ missed' = None /\ per_id' = None
    BY DEF Clear
  <1>2. ASSUME NEW i \in Ids
        PROVE  RowTotal(rows', i) + missed'[i] = per_id'[i]
    <2>1. RowTotal(rows', i) = 0
      BY <1>1, NoRows
    <2>2. missed'[i] = 0 /\ per_id'[i] = 0
      BY <1>1 DEF None
    <2>3. QED
      BY <2>1, <2>2
  <1>3. QED
    BY <1>2 DEF Balanced

\* Every step that changes the statistics, the rows or what they miss.
LEMMA CountSteps ==
  ASSUME [Next]_vars
  PROVE  \/ UNCHANGED <<per_id, rows, missed>>
         \/ ShowFrame \/ ImportFrame \/ \E first : Clear(first)
  <1>1. ASSUME NEW log \in Logs, ImportLog(log)
        PROVE  Clear(FALSE)
    BY <1>1 DEF ImportLog
  <1>2. ImportMotec => Clear(TRUE)
    BY DEF ImportMotec
  <1>3. ClearMonitor => Clear(FALSE)
    BY DEF ClearMonitor
  <1>4. ASSUME NEW d \in Devices, NEW connects \in BOOLEAN, LeaveLog(d, connects)
        PROVE  Clear(FALSE)
    BY <1>4 DEF LeaveLog
  <1>5. ASSUME \/ UNCHANGED <<logVars, shownVars, freeze>>
               \/ ShowError \/ ImportDone \/ \E d \in Devices : Connect(d)
               \/ \E c \in log_channels \cup {0} : LoadLogDbc(c) \/ UnloadLogDbc(c)
               \/ ToggleFreeze \/ ClearDelta
        PROVE  UNCHANGED <<per_id, rows, missed>>
    BY <1>5 DEF shownVars, rowVars, statVars, ShowError, RecordStats, ImportDone, Connect,
       LoadLogDbc, UnloadLogDbc, LogDbc, ToggleFreeze, ClearDelta
  <1>6. QED
    BY <1>1, <1>2, <1>3, <1>4, <1>5, MonitorSteps

\* Every step counts a frame in the rows and in the statistics alike.
LEMMA CountsKept ==
  ASSUME TypeOK, RowsIndexed, Balanced, [Next]_vars
  PROVE  Balanced'
  <1>0. RowType /\ StatType
    BY DEF TypeOK
  <1>1. CASE UNCHANGED <<per_id, rows, missed>>
    BY <1>1 DEF Balanced
  <1>2. CASE ShowFrame
    <2> DEFINE f == Head(batch)
    <2>1. f \in Frame
      BY <1>2, TailFacts DEF ShowFrame, TypeOK, GuiType
    <2>2. ~f.error /\ RecordStats(f)
      BY <1>2 DEF ShowFrame
    <2>3. \/ PutRow(f) /\ UNCHANGED missed
          \/ missed' = Add1(missed, f.id) /\ UNCHANGED rows
      BY <1>2 DEF ShowFrame
    <2> HIDE DEF f
    <2>4. CASE PutRow(f) /\ UNCHANGED missed
      <3>1. NewRow(f) \/ \E k \in DOMAIN rows : rows[k].frame.id = f.id /\ CountIn(f, k)
        BY <2>4, PutRowCounts
      <3>2. QED
        BY <1>0, <2>1, <2>2, <2>4, <3>1, OneMore
    <2>5. CASE missed' = Add1(missed, f.id) /\ UNCHANGED rows
      BY <1>0, <2>1, <2>2, <2>5, OneMore
    <2>6. QED
      BY <2>3, <2>4, <2>5
  <1>3. CASE ImportFrame
    <2> DEFINE f == LoggedFrame(Head(todo), "log")
    <2>1. f \in Frame /\ ~f.error
      <3>1. todo \in Seq(Record) /\ todo # << >>
        BY <1>3 DEF ImportFrame, TypeOK, LogType
      <3>2. QED
        BY <3>1, LoggedFrameFacts
    <2>2. /\ RecordStats(f) /\ UNCHANGED missed
          /\ \/ RowsOf(Key(f)) = {} /\ NewRow(f)
             \/ RowsOf(Key(f)) # {} /\ CountIn(f, Min(RowsOf(Key(f))))
      BY <1>3 DEF ImportFrame
    <2> HIDE DEF f
    <2>3. NewRow(f) \/ \E k \in DOMAIN rows : rows[k].frame.id = f.id /\ CountIn(f, k)
      BY <1>0, <2>2, ImportCounts DEF RowType
    <2>4. QED
      BY <1>0, <2>1, <2>2, <2>3, OneMore
  <1>4. CASE \E first : Clear(first)
    BY <1>4, ClearBalances
  <1>5. QED
    BY <1>1, <1>2, <1>3, <1>4, CountSteps

\* The rows, kept by number, extended flag and channel, and the statistics, kept by
\* number alone, count the same frames but for those polled while the monitor was
\* frozen, for any ids and however they came (app_state.hpp:102, 606-636, 749-778).
THEOREM RowsAndStatsAgree == Spec => []CountsAgree
  <1>1. Init => Balanced
    <2>1. ASSUME Init, NEW i \in Ids
          PROVE  RowTotal(rows, i) + missed[i] = per_id[i]
      <3>1. rows = << >> /\ missed[i] = 0 /\ per_id[i] = 0
        BY <2>1 DEF Init, None
      <3>2. QED
        BY <3>1, NoRows
    <2>2. QED
      BY <2>1 DEF Balanced
  <1>2. IInv /\ Balanced /\ [Next]_vars => Balanced'
    BY CountsKept DEF IInv, MonitorInv
  <1>3. QED
    BY Invariant, <1>1, <1>2, CountsMeans, PTL DEF Spec

-----------------------------------------------------------------------------
(* The scrollback.                                                          *)

\* No frame of s is an error frame.
NoErrors(s) == \A n \in DOMAIN s : ~s[n].error

\* An import fills the scrollback beyond its limit and cuts it at the end.
ScrollLength ==
  Len(scrollback) = IF gui = "import" \/ Total(per_id) < MaxScrollback THEN Total(per_id)
                                                                     ELSE MaxScrollback
ScrollInv == ScrollLength /\ NoErrors(scrollback)

\* Newest keeps as many frames as it may, each of them one that was there, and
\* the newest last (app_state.hpp:610-611, 781).
LEMMA NewestKeeps ==
  ASSUME NEW s \in Seq(Frame)
  PROVE  /\ Len(Newest(s)) = IF Len(s) > MaxScrollback THEN MaxScrollback ELSE Len(s)
         /\ NoErrors(s) => NoErrors(Newest(s))
         /\ s # << >> => Newest(s)[Len(Newest(s))] = s[Len(s)]
  <1>1. CASE Len(s) > MaxScrollback
    <2> DEFINE m == Len(s) - MaxScrollback + 1
    <2>1. m \in 1 .. Len(s) /\ Len(s) - m + 1 = MaxScrollback /\ MaxScrollback \in Nat \ {0}
      BY <1>1, PipelineConstants
    <2>2. Newest(s) = SubSeq(s, m, Len(s))
      BY <1>1 DEF Newest
    <2> HIDE DEF m
    <2>3. /\ Len(SubSeq(s, m, Len(s))) = Len(s) - m + 1
          /\ \A n \in 1 .. Len(SubSeq(s, m, Len(s))) :
               m + n - 1 \in 1 .. Len(s) /\ SubSeq(s, m, Len(s))[n] = s[m + n - 1]
      BY <2>1
    <2>4. NoErrors(s) => NoErrors(Newest(s))
      <3>1. Newest(s) \in Seq(Frame)
        BY NewestFacts
      <3>2. QED
        BY <2>2, <2>3, <3>1 DEF NoErrors
    <2>5. Len(Newest(s)) = MaxScrollback
      BY <2>1, <2>2, <2>3
    <2>6. Newest(s)[MaxScrollback] = s[m + MaxScrollback - 1]
      BY <2>1, <2>2, <2>3, <2>5
    <2>7. m + MaxScrollback - 1 = Len(s)
      BY <2>1
    <2>8. QED
      BY <1>1, <2>4, <2>5, <2>6, <2>7
  <1>2. CASE ~(Len(s) > MaxScrollback)
    BY <1>2 DEF Newest
  <1>3. QED
    BY <1>1, <1>2

\* A frame after the others.
LEMMA AppendKeeps ==
  ASSUME NEW s \in Seq(Frame), NEW f \in Frame
  PROVE  /\ Append(s, f) \in Seq(Frame) /\ Len(Append(s, f)) = Len(s) + 1
         /\ Append(s, f) # << >> /\ Append(s, f)[Len(s) + 1] = f
         /\ DOMAIN Append(s, f) = DOMAIN s \cup {Len(s) + 1}
         /\ \A n \in DOMAIN s : Append(s, f)[n] = s[n]
         /\ NoErrors(s) /\ ~f.error => NoErrors(Append(s, f))
  BY DEF NoErrors

\* The steps that change the scrollback, the statistics or end an import.
LEMMA ScrollSteps ==
  ASSUME [Next]_vars
  PROVE  \/ UNCHANGED <<per_id, scrollback>> /\ (gui' = "import" <=> gui = "import")
         \/ ShowFrame \/ ImportFrame \/ ImportDone \/ \E first : Clear(first)
  <1>1. ASSUME NEW log \in Logs, ImportLog(log)
        PROVE  Clear(FALSE)
    BY <1>1 DEF ImportLog
  <1>2. ImportMotec => Clear(TRUE)
    BY DEF ImportMotec
  <1>3. ClearMonitor => Clear(FALSE)
    BY DEF ClearMonitor
  <1>4. ASSUME NEW d \in Devices, NEW connects \in BOOLEAN, LeaveLog(d, connects)
        PROVE  Clear(FALSE)
    BY <1>4 DEF LeaveLog
  <1>5. ASSUME \/ UNCHANGED <<logVars, shownVars, freeze>>
               \/ ShowError \/ \E d \in Devices : Connect(d)
               \/ \E c \in log_channels \cup {0} : LoadLogDbc(c) \/ UnloadLogDbc(c)
               \/ ToggleFreeze \/ ClearDelta
        PROVE  UNCHANGED <<per_id, scrollback>>
    BY <1>5 DEF shownVars, statVars, ShowError, RecordStats, Connect,
       LoadLogDbc, UnloadLogDbc, LogDbc, ToggleFreeze, ClearDelta
  <1>6. ASSUME gui = "import" /\ gui' # "import"
        PROVE  ImportDone
    BY <1>6 DEF Next, Gui, Menu, Working, Panels, ReplayThread, vars, guiVars, InPanel,
       ToJoin, BeginPoll, StopReplay, PauseReplay, DisconnectAll, ImportMotec, OpenReplay,
       ImportLog, LoadLogDbc, UnloadLogDbc, LogDbc, Joined, ImportFrame, DrainSlot,
       DrainReplay, ShowError, ShowFrame, EndPoll, ToggleFreeze, ClearMonitor, ClearDelta,
       NoPanelCommand, Connect, LeaveLog, DisconnectSlot, SlotDbc, Receive, ReplayEnd,
       ReplayNext, ReplayGoesOn, ReplayPush, others
  <1>7. ASSUME gui' = "import"
        PROVE  gui = "import" \/ Clear(FALSE)
    BY <1>7, ImportSteps
  <1>8. QED
    BY <1>1, <1>2, <1>3, <1>4, <1>5, <1>6, <1>7, MonitorSteps

\* A frame that is counted enters the scrollback, and the oldest leaves only
\* when it is full (app_state.hpp:600-611, 740-781).
LEMMA ScrollKept ==
  ASSUME TypeOK, ScrollInv, [Next]_vars
  PROVE  ScrollInv'
  <1>0. /\ scrollback \in Seq(Frame) /\ per_id \in [Ids -> Nat] /\ Total(per_id) \in Nat
        /\ MaxScrollback \in Nat \ {0}
    BY TotalFacts, PipelineConstants DEF TypeOK, StatType
  <1>1. CASE UNCHANGED <<per_id, scrollback>> /\ (gui' = "import" <=> gui = "import")
    BY <1>1 DEF ScrollInv, ScrollLength, NoErrors
  <1>2. CASE ShowFrame
    <2> DEFINE f == Head(batch)
    <2>1. f \in Frame
      BY <1>2, TailFacts DEF ShowFrame, TypeOK, GuiType
    <2>2. /\ gui = "show" /\ gui' = "show" /\ ~f.error
          /\ RecordStats(f) /\ scrollback' = Newest(Append(scrollback, f))
      BY <1>2 DEF ShowFrame
    <2> HIDE DEF f
    <2>3. per_id' = Add1(per_id, f.id) /\ f.id \in Ids
      BY <2>1, <2>2 DEF RecordStats, Frame
    <2>4. Total(per_id') = Total(per_id) + 1
      BY <1>0, <2>3, TotalAdd1
    <2>5. /\ Append(scrollback, f) \in Seq(Frame)
          /\ Len(Append(scrollback, f)) = Len(scrollback) + 1
          /\ NoErrors(Append(scrollback, f))
      BY <1>0, <2>1, <2>2, AppendKeeps DEF ScrollInv
    <2>6. /\ Len(scrollback') = IF Len(scrollback) + 1 > MaxScrollback
                                THEN MaxScrollback ELSE Len(scrollback) + 1
          /\ NoErrors(scrollback')
      BY <2>2, <2>5, NewestKeeps
    <2>7. Len(scrollback) = IF Total(per_id) < MaxScrollback THEN Total(per_id)
                                                             ELSE MaxScrollback
      BY <2>2 DEF ScrollInv, ScrollLength
    <2>8. Len(scrollback') = IF Total(per_id) + 1 < MaxScrollback THEN Total(per_id) + 1
                                                                  ELSE MaxScrollback
      BY <1>0, <2>6, <2>7
    <2>9. QED
      BY <2>2, <2>4, <2>6, <2>8 DEF ScrollInv, ScrollLength, NoErrors
  <1>3. CASE ImportFrame
    <2> DEFINE f == LoggedFrame(Head(todo), "log")
    <2>1. f \in Frame /\ ~f.error
      <3>1. todo \in Seq(Record) /\ todo # << >>
        BY <1>3 DEF ImportFrame, TypeOK, LogType
      <3>2. QED
        BY <3>1, LoggedFrameFacts
    <2>2. /\ gui = "import" /\ gui' = "import"
          /\ RecordStats(f) /\ scrollback' = Append(scrollback, f)
      BY <1>3 DEF ImportFrame
    <2> HIDE DEF f
    <2>3. per_id' = Add1(per_id, f.id) /\ f.id \in Ids
      BY <2>1, <2>2 DEF RecordStats, Frame
    <2>4. Total(per_id') = Total(per_id) + 1
      BY <1>0, <2>3, TotalAdd1
    <2>5. Len(scrollback') = Len(scrollback) + 1 /\ NoErrors(scrollback')
      BY <1>0, <2>1, <2>2, AppendKeeps DEF ScrollInv
    <2>6. Len(scrollback) = Total(per_id)
      BY <2>2 DEF ScrollInv, ScrollLength
    <2>7. QED
      BY <2>2, <2>4, <2>5, <2>6 DEF ScrollInv, ScrollLength, NoErrors
  <1>4. CASE ImportDone
    <2>1. /\ gui = "import" /\ gui' # "import" /\ UNCHANGED per_id
          /\ scrollback' = Newest(scrollback)
      BY <1>4 DEF ImportDone, statVars
    <2>2. Len(scrollback) = Total(per_id) /\ NoErrors(scrollback)
      BY <2>1 DEF ScrollInv, ScrollLength
    <2>3. /\ Len(scrollback') = IF Total(per_id) > MaxScrollback THEN MaxScrollback
                                                                 ELSE Total(per_id)
          /\ NoErrors(scrollback')
      BY <1>0, <2>1, <2>2, NewestKeeps
    <2>4. Len(scrollback') = IF Total(per_id) < MaxScrollback THEN Total(per_id)
                                                              ELSE MaxScrollback
      BY <1>0, <2>3
    <2>5. QED
      BY <2>1, <2>3, <2>4 DEF ScrollInv, ScrollLength, NoErrors
  <1>5. CASE \E first : Clear(first)
    <2>1. scrollback' = << >> /\ per_id' = None
      BY <1>5 DEF Clear
    <2>2. Total(per_id') = 0 /\ 0 < MaxScrollback
      BY <1>0, <2>1, TotalNone
    <2>3. QED
      BY <2>1, <2>2 DEF ScrollInv, ScrollLength, NoErrors
  <1>6. QED
    BY <1>1, <1>2, <1>3, <1>4, <1>5, ScrollSteps

\* The scrollback holds as many frames as were counted, up to its limit, and
\* never an error, for any limit (app_state.hpp:608-611, 781).
THEOREM ScrollbackIsFull == Spec => []ScrollbackFull
  <1>1. Init => ScrollInv
    <2>1. ASSUME Init
          PROVE  scrollback = << >> /\ Total(per_id) = 0 /\ 0 < MaxScrollback
      BY <2>1, TotalNone, PipelineConstants DEF Init
    <2>2. QED
      BY <2>1 DEF ScrollInv, ScrollLength, NoErrors
  <1>2. IInv /\ ScrollInv /\ [Next]_vars => ScrollInv'
    BY ScrollKept DEF IInv
  <1>3. ScrollInv => ScrollbackFull
    BY DEF ScrollInv, ScrollLength, NoErrors, ScrollbackFull
  <1>4. QED
    BY Invariant, <1>1, <1>2, <1>3, PTL DEF Spec

-----------------------------------------------------------------------------
(* Logs.                                                                    *)

\* A log is shown while no adapter is connected, so that neither its frames
\* nor a replay's bring errors.
QuietInv == /\ NoErrors(replay_buf)
            /\ log_mode => slots = << >> /\ NoErrors(batch)

\* Pushing a frame that is none brings no errors, whether or not one is dropped
\* (frame_buffer.hpp:16-39).
LEMMA PushQuiet ==
  ASSUME NEW q \in Seq(Frame), NEW f \in Frame, NoErrors(q), ~f.error
  PROVE  NoErrors(Push(q, f))
  <1> DEFINE p == IF Len(q) < Capacity THEN q ELSE Tail(q)
  <1>1. p \in Seq(Frame) /\ NoErrors(p)
    <2>1. CASE Len(q) < Capacity
      BY <2>1
    <2>2. CASE ~(Len(q) < Capacity)
      <3>1. q # << >>
        BY <2>2, PipelineConstants
      <3>2. Tail(q) \in Seq(Frame) /\ Len(Tail(q)) = Len(q) - 1
            /\ \A n \in 1 .. Len(Tail(q)) : Tail(q)[n] = q[n + 1]
        BY <3>1
      <3>3. NoErrors(Tail(q))
        BY <3>2 DEF NoErrors
      <3>4. QED
        BY <2>2, <3>2, <3>3
    <2>3. QED
      BY <2>1, <2>2
  <1>2. Push(q, f) = Append(p, f)
    BY DEF Push
  <1> HIDE DEF p
  <1>3. QED
    BY <1>1, <1>2, AppendKeeps

\* Joining two drained buffers (app_state.hpp:588-600).
LEMMA ConcatQuiet ==
  ASSUME NEW p \in Seq(Frame), NEW q \in Seq(Frame), NoErrors(p), NoErrors(q)
  PROVE  NoErrors(p \o q)
  <1>1. /\ p \o q \in Seq(Frame) /\ Len(p \o q) = Len(p) + Len(q)
        /\ \A n \in 1 .. Len(p) + Len(q) :
             (p \o q)[n] = IF n <= Len(p) THEN p[n] ELSE q[n - Len(p)]
    BY ConcatProperties
  <1>2. ASSUME NEW n \in 1 .. Len(p) + Len(q)
        PROVE  ~(p \o q)[n].error
    <2>1. CASE n <= Len(p)
      BY <1>1, <2>1 DEF NoErrors
    <2>2. CASE n > Len(p)
      <3>1. n - Len(p) \in 1 .. Len(q)
        BY <2>2
      <3>2. QED
        BY <1>1, <2>2, <3>1 DEF NoErrors
    <2>3. QED
      BY <2>1, <2>2
  <1>3. QED
    BY <1>1, <1>2 DEF NoErrors

\* Showing the first frame of a batch.
LEMMA TailQuiet ==
  ASSUME NEW q \in Seq(Frame), q # << >>, NoErrors(q)
  PROVE  ~Head(q).error /\ NoErrors(Tail(q))
  <1>1. /\ Head(q) = q[1] /\ Tail(q) \in Seq(Frame) /\ Len(Tail(q)) = Len(q) - 1
        /\ \A n \in 1 .. Len(Tail(q)) : Tail(q)[n] = q[n + 1]
        /\ 1 \in 1 .. Len(q)
    OBVIOUS
  <1>2. QED
    BY <1>1 DEF NoErrors

\* How a log comes to be shown, and the adapters of a live session go
\* (connection.hpp:142-158, app_state.hpp:504-586, 717-726).
LEMMA ModeSteps ==
  ASSUME [Next]_vars
  PROVE  \/ UNCHANGED <<log_mode, slots>>
         \/ UNCHANGED log_mode /\ NoSlots
         \/ UNCHANGED log_mode /\ \E i \in DOMAIN slots : DisconnectSlot(i)
         \/ NoSlots /\ gui = "menu" /\ UNCHANGED batch
         \/ ~log_mode'
  <1>1. ASSUME NEW d \in Devices, NEW connects \in BOOLEAN, LeaveLog(d, connects)
        PROVE  ~log_mode'
    BY <1>1, Zenon DEF LeaveLog
  <1>2. ASSUME NEW d \in Devices, Connect(d)
        PROVE  ~log_mode'
    <2>1. ~log_mode /\ log_mode' = log_mode
      BY <1>2 DEF Connect
    <2>2. QED
      BY <2>1, Zenon
  <1>3. ASSUME NEW log \in Logs, ImportLog(log)
        PROVE  NoSlots /\ gui = "menu" /\ UNCHANGED batch
    BY <1>3 DEF ImportLog
  <1>4. ImportMotec => NoSlots /\ gui = "menu" /\ UNCHANGED batch
    BY DEF ImportMotec
  <1>5. DisconnectAll => log_mode' = log_mode /\ NoSlots
    BY DEF DisconnectAll, logVars
  <1>6. ASSUME NEW i \in DOMAIN slots, DisconnectSlot(i)
        PROVE  log_mode' = log_mode
    BY <1>6 DEF DisconnectSlot, logVars
  <1>7. ASSUME \/ UNCHANGED vars
               \/ BeginPoll \/ StopReplay \/ PauseReplay \/ \E log \in Logs : OpenReplay(log)
               \/ \E c \in log_channels \cup {0} : LoadLogDbc(c) \/ UnloadLogDbc(c)
               \/ Working \/ ToggleFreeze \/ ClearMonitor \/ ClearDelta \/ NoPanelCommand
               \/ \E d \in Devices : SlotDbc(d)
               \/ ReplayThread
               \/ \E d \in Devices, m \in OnBus, e \in BOOLEAN : Receive(d, m, e)
        PROVE  log_mode' = log_mode /\ slots' = slots
    BY <1>7 DEF vars, logVars, slotVars, BeginPoll, StopReplay, PauseReplay, OpenReplay,
       LoadLogDbc, UnloadLogDbc, LogDbc, Working, Joined, ImportFrame, ImportDone, DrainSlot,
       DrainReplay, ShowError, ShowFrame, EndPoll, ToggleFreeze, ClearMonitor, ClearDelta,
       NoPanelCommand, SlotDbc, ReplayThread, ReplayEnd, ReplayNext, ReplayGoesOn,
       ReplayPush, others, Receive
  <1>8. QED
    BY <1>1, <1>2, <1>3, <1>4, <1>5, <1>6, <1>7 DEF Next, Gui, Menu, Panels

\* Every step keeps error frames out of a log and of a replay
\* (app_state.hpp:588-600, 664-691, 717-726).
LEMMA QuietKept ==
  ASSUME TypeOK, FlowInv, QuietInv, [Next]_vars
  PROVE  QuietInv'
  <1>0. /\ batch \in Seq(Frame) /\ replay_buf \in Seq(Frame) /\ NoErrors(replay_buf)
        /\ slots \in Seq(Devices) /\ at \in Nat \ {0}
        /\ log_mode => slots = << >> /\ NoErrors(batch)
    BY DEF TypeOK, GuiType, SlotType, ReplayType, QuietInv
  <1>e. NoErrors(<< >>)
    BY DEF NoErrors
  <1>1. NoErrors(replay_buf')
    <2>1. CASE UNCHANGED replay_buf
      BY <1>0, <2>1
    <2>2. CASE ReplayPush
      <3>1. played[pos] \in Record
        BY <2>2 DEF FlowInv, ReplayPush, TypeOK, ReplayType
      <3>2. NoErrors(Push(replay_buf, LoggedFrame(played[pos], "replay")))
        BY <1>0, <3>1, LoggedFrameFacts, PushQuiet
      <3>3. QED
        BY <2>2, <3>2 DEF ReplayPush
    <2>3. CASE DrainReplay
      BY <1>e, <2>3 DEF DrainReplay
    <2>4. QED
      BY <2>1, <2>2, <2>3, ReplaySteps DEF ReplayEnd, ReplayNext, ReplayGoesOn,
         StopReplay, PauseReplay, OpenReplay, Joined
  <1>2. log_mode' => slots' = << >> /\ NoErrors(batch')
    <2>1. CASE log_mode
      <3>1. slots = << >> /\ NoErrors(batch) /\ DOMAIN slots = {} /\ Len(slots) = 0
        BY <1>0, <2>1
      <3>2. log_mode' => slots' = << >>
        BY <3>1, ModeSteps DEF NoSlots
      <3>3. NoErrors(batch')
        <4>1. CASE UNCHANGED batch
          BY <3>1, <4>1
        <4>2. ~DrainSlot
          BY <1>0, <3>1 DEF DrainSlot
        <4>3. CASE DrainReplay
          <5>1. NoErrors(batch \o replay_buf)
            BY <1>0, <3>1, ConcatQuiet
          <5>2. QED
            BY <4>3, <5>1 DEF DrainReplay
        <4>4. CASE ShowError \/ ShowFrame
          <5>1. batch # << >> /\ batch' = Tail(batch)
            BY <4>4 DEF ShowError, ShowFrame
          <5>2. NoErrors(Tail(batch))
            BY <1>0, <3>1, <5>1, TailQuiet
          <5>3. QED
            BY <5>1, <5>2
        <4>5. QED
          BY <4>1, <4>2, <4>3, <4>4, GuiSteps DEF guiVars, ImportFrame
      <3>4. QED
        BY <3>2, <3>3
    <2>2. CASE ~log_mode
      <3>1. CASE NoSlots /\ gui = "menu" /\ UNCHANGED batch
        <4>1. batch' = << >> /\ slots' = << >>
          BY <3>1 DEF FlowInv, NoSlots
        <4>2. QED
          BY <1>e, <4>1
      <3>2. log_mode' => NoSlots /\ gui = "menu" /\ UNCHANGED batch
        BY <2>2, ModeSteps, Zenon
      <3>3. QED
        BY <3>1, <3>2
    <2>3. QED
      BY <2>1, <2>2
  <1>3. QED
    BY <1>1, <1>2 DEF QuietInv

\* The frames of an id, those of them that are decoded, and how many there are.
OfId(frames, i) == {n \in DOMAIN frames : frames[n].id = i}
DecodedOfId(frames, channels, i) ==
  {n \in DOMAIN frames : frames[n].id = i /\ frames[n].source \in channels}
CountsOf(frames) == [i \in Ids |-> Cardinality(OfId(frames, i))]

\* Exactly the log: its frames are counted and decoded, and nothing else.
ShowsLog == /\ signals = Decoded(imported, log_dbc)
            /\ per_id = CountsOf(imported)
            /\ errors = 0

ShownInv == gui = "import" \/ OnlyLog => ShowsLog

\* One frame more.
LEMMA CountsOfAppend ==
  ASSUME NEW s \in Seq(Frame), NEW f \in Frame
  PROVE  CountsOf(Append(s, f)) = Add1(CountsOf(s), f.id)
  <1> DEFINE t == Append(s, f)
             m == Len(s) + 1
  <1>1. DOMAIN t = DOMAIN s \cup {m} /\ t[m] = f /\ (\A n \in DOMAIN s : t[n] = s[n]) /\ m \notin DOMAIN s
    BY AppendKeeps
  <1>2. IsFiniteSet(DOMAIN s)
    BY FS_Interval
  <1> HIDE DEF t, m
  <1>3. ASSUME NEW i \in Ids
        PROVE  Cardinality(OfId(t, i)) = Cardinality(OfId(s, i)) + (IF i = f.id THEN 1 ELSE 0)
    <2>1. IsFiniteSet(OfId(s, i)) /\ Cardinality(OfId(s, i)) \in Nat
      BY <1>2, FS_Subset, FS_CardinalityType DEF OfId
    <2>2. CASE i = f.id
      <3>1. OfId(t, i) = OfId(s, i) \cup {m} /\ m \notin OfId(s, i)
        BY <1>1, <2>2 DEF OfId
      <3>2. QED
        BY <2>1, <2>2, <3>1, FS_AddElement
    <2>3. CASE i # f.id
      <3>1. OfId(t, i) = OfId(s, i)
        BY <1>1, <2>3 DEF OfId
      <3>2. QED
        BY <2>1, <2>3, <3>1
    <2>4. QED
      BY <2>2, <2>3
  <1>4. f.id \in Ids /\ \A i \in Ids : Cardinality(OfId(s, i)) \in Nat
    BY <1>2, FS_Subset, FS_CardinalityType DEF OfId, Frame
  <1>5. QED
    BY <1>3, <1>4 DEF CountsOf, Add1, t

\* One frame more is a sample more, if its id is described and its channel has
\* a DBC file (app_state.hpp:614-621, 786-799).
LEMMA DecodedAppend ==
  ASSUME NEW s \in Seq(Frame), NEW f \in Frame, NEW channels
  PROVE  Decoded(Append(s, f), channels)
           = IF f.id \in Described /\ f.source \in channels
             THEN Add1(Decoded(s, channels), f.id) ELSE Decoded(s, channels)
  <1> DEFINE t == Append(s, f)
             m == Len(s) + 1
             more == f.id \in Described /\ f.source \in channels
  <1>0. \A frames : Decoded(frames, channels) =
          [i \in Ids |-> IF i \in Described THEN Cardinality(DecodedOfId(frames, channels, i))
                                            ELSE 0]
    BY DEF Decoded, DecodedOfId
  <1>1. DOMAIN t = DOMAIN s \cup {m} /\ t[m] = f /\ (\A n \in DOMAIN s : t[n] = s[n]) /\ m \notin DOMAIN s
    BY AppendKeeps
  <1>2. IsFiniteSet(DOMAIN s)
    BY FS_Interval
  <1> HIDE DEF t, m
  <1>3. ASSUME NEW i \in Ids
        PROVE  Cardinality(DecodedOfId(t, channels, i))
                 = Cardinality(DecodedOfId(s, channels, i))
                   + (IF i = f.id /\ f.source \in channels THEN 1 ELSE 0)
    <2>1. IsFiniteSet(DecodedOfId(s, channels, i)) /\ Cardinality(DecodedOfId(s, channels, i)) \in Nat
      BY <1>2, FS_Subset, FS_CardinalityType DEF DecodedOfId
    <2>2. CASE i = f.id /\ f.source \in channels
      <3>1. /\ DecodedOfId(t, channels, i) = DecodedOfId(s, channels, i) \cup {m}
            /\ m \notin DecodedOfId(s, channels, i)
        BY <1>1, <2>2 DEF DecodedOfId
      <3>2. QED
        BY <2>1, <2>2, <3>1, FS_AddElement
    <2>3. CASE ~(i = f.id /\ f.source \in channels)
      <3>1. DecodedOfId(t, channels, i) = DecodedOfId(s, channels, i)
        BY <1>1, <2>3 DEF DecodedOfId
      <3>2. QED
        BY <2>1, <2>3, <3>1
    <2>4. QED
      BY <2>2, <2>3
  <1>4. f.id \in Ids /\ \A i \in Ids : Cardinality(DecodedOfId(s, channels, i)) \in Nat
    BY <1>2, FS_Subset, FS_CardinalityType DEF DecodedOfId, Frame
  <1>5. CASE more
    BY <1>0, <1>3, <1>4, <1>5 DEF Add1, t
  <1>6. CASE ~more
    BY <1>0, <1>3, <1>4, <1>6 DEF t
  <1>7. QED
    BY <1>5, <1>6

\* An empty log counts nothing.
LEMMA NothingDecoded ==
  /\ CountsOf(<< >>) = None
  /\ \A channels : Decoded(<< >>, channels) = None
  <1>1. \A i, channels : OfId(<< >>, i) = {} /\ DecodedOfId(<< >>, channels, i) = {}
    BY DEF OfId, DecodedOfId
  <1>2. Cardinality({}) = 0
    BY FS_EmptySet
  <1>3. \A channels : Decoded(<< >>, channels) =
          [i \in Ids |-> IF i \in Described THEN Cardinality(DecodedOfId(<< >>, channels, i))
                                            ELSE 0]
    BY DEF Decoded, DecodedOfId
  <1>4. QED
    BY <1>1, <1>2, <1>3 DEF CountsOf, None

\* Only import_log() makes the GUI thread import.
LEMMA ImportStarts ==
  ASSUME [Next]_vars, gui' = "import", gui # "import"
  PROVE  \E log \in Logs : ImportLog(log)
  BY DEF Next, Gui, Menu, Working, Panels, ReplayThread, vars, guiVars, InPanel,
     ToJoin, BeginPoll, StopReplay, PauseReplay, DisconnectAll, ImportMotec, OpenReplay,
     LoadLogDbc, UnloadLogDbc, LogDbc, Joined, ImportFrame, ImportDone, DrainSlot,
     DrainReplay, ShowError, ShowFrame, EndPoll, ToggleFreeze, ClearMonitor, ClearDelta,
     NoPanelCommand, Connect, LeaveLog, DisconnectSlot, SlotDbc, Receive, ReplayEnd,
     ReplayNext, ReplayGoesOn, ReplayPush, others

\* Imported frames are shown as the log says, and the first frame of anything
\* else ends that (app_state.hpp:600-621, 717-799).
LEMMA ShownKept ==
  ASSUME TypeOK, FlowInv, BufferInv, QuietInv, LiveHasNoLog, ShownInv, [Next]_vars
  PROVE  ShownInv'
  <1>0. scrollback \in Seq(Frame) /\ imported \in Seq(Frame) /\ batch \in Seq(Frame)
    BY DEF TypeOK, StatType, LogType, GuiType
  <1>1. CASE UNCHANGED <<log_mode, scrollback, imported, log_dbc, per_id, errors, signals>>
             /\ (gui' = "import" => gui = "import")
    BY <1>1 DEF ShownInv, ShowsLog, OnlyLog
  <1>2. CASE ShowError
    <2>1. ~log_mode
      <3>1. batch # << >> /\ Head(batch).error
        BY <1>2 DEF ShowError
      <3>2. log_mode => NoErrors(batch)
        BY DEF QuietInv
      <3>3. QED
        BY <1>0, <3>1, <3>2, TailQuiet
    <2>2. log_mode' = log_mode /\ gui' = "show"
      BY <1>2 DEF ShowError, logVars
    <2>3. ~OnlyLog'
      BY <2>1, <2>2 DEF OnlyLog
    <2>4. QED
      BY <2>2, <2>3 DEF ShownInv
  <1>3. CASE ShowFrame
    <2> DEFINE f == Head(batch)
    <2>1. f \in Frame /\ f.from # "log"
      BY <1>0, <1>3, TailFacts DEF ShowFrame, BufferInv
    <2>2. gui' = "show" /\ scrollback' = Newest(Append(scrollback, f))
      BY <1>3 DEF ShowFrame
    <2> HIDE DEF f
    <2>3. /\ Append(scrollback, f) \in Seq(Frame) /\ Append(scrollback, f) # << >>
          /\ Append(scrollback, f)[Len(Append(scrollback, f))] = f
          /\ Len(Append(scrollback, f)) > 0
      BY <1>0, <2>1, AppendKeeps
    <2>4. /\ scrollback' \in Seq(Frame) /\ scrollback'[Len(scrollback')] = f
          /\ Len(scrollback') > 0
      <3> DEFINE s == Append(scrollback, f)
      <3>1. s \in Seq(Frame) /\ s # << >> /\ s[Len(s)] = f /\ Len(s) > 0 /\ Len(s) \in Nat
        BY <2>3
      <3>2. scrollback' = Newest(s)
        BY <2>2
      <3> HIDE DEF s
      <3>3. /\ Newest(s) \in Seq(Frame)
            /\ Len(Newest(s)) = IF Len(s) > MaxScrollback THEN MaxScrollback ELSE Len(s)
            /\ Newest(s)[Len(Newest(s))] = s[Len(s)]
        BY <3>1, NewestFacts, NewestKeeps
      <3>4. MaxScrollback \in Nat \ {0}
        BY PipelineConstants
      <3>5. Len(Newest(s)) > 0
        BY <3>1, <3>3, <3>4
      <3>6. QED
        BY <3>1, <3>2, <3>3, <3>5
    <2>5. Len(scrollback') \in DOMAIN scrollback'
      BY <2>4
    <2>6. ~OnlyLog'
      BY <2>1, <2>4, <2>5 DEF OnlyLog
    <2>7. QED
      BY <2>2, <2>6 DEF ShownInv
  <1>4. ASSUME NEW log \in Logs, ImportLog(log)
        PROVE  ShownInv'
    <2>1. imported' = << >> /\ signals' = None /\ per_id' = None /\ errors' = 0
      BY <1>4 DEF ImportLog, Clear
    <2>2. ShowsLog'
      BY <2>1, NothingDecoded DEF ShowsLog
    <2>3. QED
      BY <2>2 DEF ShownInv
  <1>5. ASSUME scrollback' = << >>, gui' # "import"
        PROVE  ShownInv'
    BY <1>5 DEF ShownInv, OnlyLog
  <1>6. CASE ImportFrame
    <2> DEFINE f == LoggedFrame(Head(todo), "log")
    <2>1. f \in Frame /\ ~f.error
      <3>1. todo \in Seq(Record) /\ todo # << >>
        BY <1>6 DEF ImportFrame, TypeOK, LogType
      <3>2. QED
        BY <3>1, LoggedFrameFacts
    <2>2. /\ gui = "import" /\ RecordStats(f) /\ Decode(f)
          /\ imported' = Append(imported, f) /\ UNCHANGED <<log_mode, log_dbc>>
      BY <1>6 DEF ImportFrame
    <2> HIDE DEF f
    <2>3. ShowsLog /\ log_mode
      BY <2>2 DEF ShownInv, FlowInv
    <2>4. per_id' = Add1(per_id, f.id) /\ errors' = 0
      BY <2>1, <2>2, <2>3 DEF RecordStats, ShowsLog
    <2>5. per_id' = CountsOf(imported')
      BY <1>0, <2>1, <2>2, <2>3, <2>4, CountsOfAppend DEF ShowsLog
    <2>6. Decodable(f) <=> f.id \in Described /\ f.source \in log_dbc
      BY <2>3 DEF Decodable
    <2>7. signals' = Decoded(imported', log_dbc')
      <3>1. Decoded(Append(imported, f), log_dbc)
              = IF Decodable(f) THEN Add1(Decoded(imported, log_dbc), f.id)
                                ELSE Decoded(imported, log_dbc)
        BY <1>0, <2>1, <2>6, DecodedAppend
      <3>2. QED
        BY <2>2, <2>3, <3>1 DEF Decode, ShowsLog
    <2>8. QED
      BY <2>4, <2>5, <2>7 DEF ShownInv, ShowsLog
  <1>7. CASE ImportDone
    <2>1. /\ gui = "import"
          /\ UNCHANGED <<imported, log_dbc, per_id, errors, signals>>
      BY <1>7 DEF ImportDone, logVars, statVars
    <2>2. QED
      BY <2>1 DEF ShownInv, ShowsLog
  <1>8. ASSUME NEW c \in log_channels \cup {0}, LoadLogDbc(c) \/ UnloadLogDbc(c)
        PROVE  ShownInv'
    <2>1. PICK channels : LogDbc(channels)
      BY <1>8 DEF LoadLogDbc, UnloadLogDbc
    <2>2. /\ gui = "menu" /\ gui' = "poll" /\ log_dbc' = channels /\ Redecode(channels)
          /\ UNCHANGED <<log_mode, imported, per_id, errors, scrollback>>
      BY <2>1 DEF LogDbc, statVars
    <2>3. OnlyLog' => OnlyLog
      BY <2>2 DEF OnlyLog
    <2>4. ShowsLog => ShowsLog'
      <3>1. CASE imported = << >>
        BY <2>2, <3>1, NothingDecoded DEF Redecode, ShowsLog
      <3>2. CASE imported # << >>
        BY <2>2, <3>2 DEF Redecode, ShowsLog
      <3>3. QED
        BY <3>1, <3>2
    <2>5. QED
      BY <2>2, <2>3, <2>4 DEF ShownInv
  <1>9. ASSUME gui' # "import", ~log_mode'
        PROVE  ShownInv'
    BY <1>9 DEF ShownInv, OnlyLog
  <1>10. QED
    <2>1. CASE gui' = "import" /\ gui # "import"
      BY <1>4, <2>1, ImportStarts
    <2>2. CASE gui' = "import" => gui = "import"
      <3>1. ASSUME \/ UNCHANGED <<logVars, shownVars, freeze>> \/ ToggleFreeze \/ ClearDelta
            PROVE  ShownInv'
        <4>1. UNCHANGED <<log_mode, scrollback, imported, log_dbc, per_id, errors, signals>>
          BY <3>1 DEF logVars, shownVars, statVars, ToggleFreeze, ClearDelta
        <4>2. QED
          BY <1>1, <2>2, <4>1
      <3>2. ASSUME ImportMotec \/ ClearMonitor
            PROVE  ShownInv'
        <4>1. scrollback' = << >> /\ gui' # "import"
          BY <3>2 DEF ImportMotec, ClearMonitor, Clear, InPanel
        <4>2. QED
          BY <1>5, <4>1
      <3>3. ASSUME NEW d \in Devices, Connect(d)
            PROVE  ShownInv'
        <4>1. gui' = "menu" /\ ~log_mode /\ log_mode' = log_mode
          BY <3>3 DEF Connect, InPanel
        <4>2. ~log_mode'
          BY <4>1, Zenon
        <4>3. QED
          BY <1>9, <4>1, <4>2
      <3>4. ASSUME NEW d \in Devices, NEW connects \in BOOLEAN, LeaveLog(d, connects)
            PROVE  ShownInv'
        <4>1. gui' = "menu"
          BY <3>4 DEF LeaveLog, InPanel
        <4>2. ~log_mode'
          BY <3>4, Zenon DEF LeaveLog
        <4>3. QED
          BY <1>9, <4>1, <4>2
      <3>5. QED
        BY <1>2, <1>3, <1>4, <1>6, <1>7, <1>8, <3>1, <3>2, <3>3, <3>4, MonitorSteps
    <2>3. QED
      BY <2>1, <2>2

\* An imported log is shown whole and alone, for any log, any DBC files and
\* any scrollback (app_state.hpp:717-799).
THEOREM LogsAreShown == Spec => []LogShown
  <1>1. Init => QuietInv /\ ShownInv
    <2>1. ASSUME Init
          PROVE  ~log_mode /\ gui = "menu" /\ replay_buf = << >>
      BY <2>1 DEF Init
    <2>2. QED
      BY <2>1 DEF QuietInv, ShownInv, OnlyLog, NoErrors
  <1>2. IInv /\ QuietInv /\ ShownInv /\ [Next]_vars => QuietInv' /\ ShownInv'
    BY QuietKept, ShownKept DEF IInv, MonitorInv
  <1>3. ShownInv => LogShown
    BY DEF ShownInv, ShowsLog, CountsOf, OfId, LogShown
  <1>4. QED
    BY Invariant, <1>1, <1>2, <1>3, PTL DEF Spec
=============================================================================
