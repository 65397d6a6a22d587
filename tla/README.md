# jcan in TLA+

jcan is a CAN bus tool: a Dear ImGui program (`gui_main.cpp`) and a small
command line dump (`main.cpp`) over a set of adapter drivers. This directory
specifies how its parts behave, checks small instances with TLC and proves
theorems about all instances with TLAPS. Paths are relative to `src/src/`.

## The system

| component | state it keeps | operations | talks to | hard part |
|---|---|---|---|---|
| `frame_buffer.hpp` | a ring: `buf_`, `head_`, `tail_`, `count_`, a mutex | push, pop, drain, clear, size, empty | every hand-over of frames between threads | drain is a loop under the mutex while others push; full and empty ring look alike |
| adapter session: `app_state.hpp` 130-165, 447-586, `widgets/connection.hpp` | slots (descriptor, adapter, buffer, I/O thread, paused flag, DBC), the transmit mark, `connected`, `log_mode` | connect, disconnect one, disconnect all, Set TX, quit | I/O threads, scheduler, logger, drivers | threads that refer to objects the GUI destroys; an index that shifts; opens that fail |
| transmit scheduler: `tx_scheduler.hpp`, `widgets/transmitter.hpp` | jobs, a mutex, a thread, what was sent | upsert, with_jobs (start, stop, edit, remove, send once), start, stop, run | one adapter; the GUI through the mutex | mutex held while sending; stop joins; periods |
| frame pipeline: `app_state.hpp` 588-851, `widgets/monitor.hpp` | monitor rows and their index, frozen rows, scrollback, signals, replay thread and buffer | poll, freeze, clear, start / pause / stop replay, import, redecode, overlays | buffers, logger, signal store, DBC | two ways of filling the rows; leftovers of a replay; order of frames of several slots |
| session log: `logger.hpp`, `app_state.hpp` 350-445, 529-550 | file, format, count; export thread and its flags | start, log, stop, flush, load, export, new log | pipeline, GUI | a file exported while it is written; formats that must round-trip |
| `signal_store.hpp` | samples and a description per signal | push, clear, queries | pipeline, plots | retention is applied at some sizes only |
| `dbc_engine.hpp` | networks and an index of messages | load, unload, decode, encode | pipeline, transmitter | an index of pointers into what is unloaded |
| `signal_source.hpp` | waveform, table, expression | evaluate | transmitter | an expression parser, interpolation |
| Kvaser driver: `hardware_kvaser.hpp` | a registry of shared USB handles, per channel state | open, close, send, receive | libusb | channels share a handle and an endpoint; failed opens; lost replies |
| Vector driver: `hardware_vector.hpp` | a partial event, timings | open, close, send, receive | libusb | events split over transfers |
| slcan driver: `hardware_slcan.hpp` | an accumulator of characters | open, close, send, receive | serial port | lines split over reads, junk |
| SocketCAN, mocks, Windows wrappers | sockets, generators | the same four | kernel, vendor libraries | little of their own |
| `hardware.hpp`, `types.hpp` | none | dispatch; length codes | everything | recv keeps one frame of a batch; boundaries of length codes |
| discovery, permissions, settings, theme, panels, `motec_ld.hpp` | preferences, drawing | scans, files, drawing | system | input and output |

What makes each correct, in a sentence:

- buffer: it is a first-in first-out queue that, when full, loses its oldest
  frame and nothing else, whoever calls it;
- session: threads never outlive what they refer to, flags agree with slots, a
  failed open changes nothing, the scheduler sends on the slot the panel marks;
- scheduler: one sender at a time, only enabled jobs, each job about once a period;
- pipeline: one row per frame key, rows count the frames that came in, nothing of
  an earlier recording shows up in a later one;
- log: what is recorded is in the file, what is exported is what was recorded,
  what is written can be read;
- drivers: every frame on the wire arrives once, whole, in order, on its channel;
  a failed open leaves nothing behind.

`PROJECT.json` lists the hazards of this code line by line, with the properties
that cover them, or why none does. A hazard that a property is worded around (it
names the case in which the code goes wrong, so that it holds all the same) does not
count as covered: its note says so.

## Modules

| module | what it is |
|---|---|
| `DropOldestQueue` | abstract specification: an atomic bounded queue that drops its oldest frame |
| `FrameBuffer` | the ring of `frame_buffer.hpp`, shown to implement it |
| `FrameBufferProofs` | its theorems |
| `AdapterSession` | the session, the I/O threads, the transmit thread and its mutex |
| `MCAdapterSession` | symmetry for TLC |
| `AdapterSessionProofs` | the theorems about the session |
| `FramePipeline` | polling, freeze, clear, replay and imports: from the buffers to rows, statistics, scrollback and signals |
| `MCFramePipeline` | the logs of the small instances, symmetry |
| `FramePipelineProofs` | the theorems about the pipeline, and those about what it counts: rows, statistics, scrollback, imported logs |
| `KvaserShared` | the channels of a Kvaser USB device: registry, initialisation, answers, closing |
| `MCKvaserShared` | symmetry for TLC |
| `KvaserSharedProofs` | the theorems about the shared handle |
| `AdapterContract` | abstract specification: what an application may expect of any adapter |
| `Adapters` | the variant of `hardware.hpp` with an adapter of any kind, shown to keep the contract |
| `DriverSteps` | the steps that `open()` functions are made of, messages and their units |
| `VectorDriver`, `SlcanDriver`, `OtherDrivers` | how each driver opens and how it makes frames of what it reads |
| `MCAdapters` | the kinds of adapters for TLC |
| `AdaptersProofs` | the theorem that every driver keeps the contract |
| `SessionLog` | recording, new logs, and the export thread reading the file meanwhile |
| `SessionLogProofs` | the theorems about exports |
| `TxScheduler` | when the transmit scheduler sends |
| `TxSchedulerProofs` | the theorems about periods |
| `FrameFormats` | frames in the formats of every bus and log, written and read |
| `BitTiming` | the search for a bit timing |
| `MCCodecs` | the frames, cards and bitrates for TLC |
| `CodecProofs` | the theorems about formats and timings |

The modules of the session, the pipeline, the log and the scheduler are about the
same GUI thread; each has what its subject needs of it and takes the others as
environment. `AdapterSession` says when the scheduler runs and on which adapter,
`TxScheduler` when it sends; `FramePipeline` takes frames out of buffers that
`FrameBuffer` shows to be queues; what an adapter's `recv_many()` gives the I/O
threads is `Adapters` and, for Kvaser, `KvaserShared`; what a line of the log
says is `FrameFormats`, when it is written `SessionLog`. The drivers have pure
functions, instantiated by `Adapters`, because `std::visit` is all that joins them.

### FrameBuffer

`buf`, `head`, `tail`, `count` are the members; `lock` is `mtx_` while a thread
is inside `drain()`. `Push`, `Pop` and `Clear` are one step each, since nothing
they read or write is touched without the mutex. `drain()` is a loop, so it is
`DrainBegin` (take the mutex), `DrainStep` per frame, `DrainEnd` (release it and
return); other threads are between any two. `result` and `kept` are what the
operations returned, by thread: the abstract queue's observable part.

`Pop` and `Clear` are in the interface and in the specification; the program as it
stands calls push and drain.

### AdapterSession

The GUI thread is a program: `gui` is `"idle"` between two commands of the user,
otherwise the place in a command where another thread can run first.

| `gui` | code |
|---|---|
| `opening`, `retry` | `adapter_open()` in `connect()`, the first time and after the udev rule |
| `startTx`, `startFirst` | `tx_sched.start()`: its join, then the new thread; after a first connect the session log too |
| `dropTx`, `dropIo`, `dropLast` | the three joins of `disconnect_slot()` |
| `allTx`, `allIo` | the joins of `disconnect()` |
| `import` | the file dialog, which blocks the GUI thread |
| `lock`, `send` | waiting for the scheduler's mutex in `with_jobs()`; `adapter_send()` of Send Once, mutex held |
| `exit` | `main()` has returned |

`slots` is `adapter_slots`, `tx_slot_idx` the mark (from 0, as in the code), `hw`
the adapter that `run()` holds a reference to, which becomes `None` when that
adapter is destroyed, `open` the devices whose adapter is open, `io[d]` and `tx`
the program counters of the threads, `ioStop` and `txStop` their stop tokens,
`paused` the slots with `io_paused`. `jobs` is the transmit list and `mtx` its
mutex. `std::jthread`'s reset is two things, as it is in the library: ask to stop
(when the command begins to wait) and join (when the thread has returned).

The transmit thread holds the mutex from the first job of a round to the last, the
sends included: `TxLock` takes it and notes the enabled jobs, `TxSend` / `TxSent`
or `TxNotDue` for each, `TxUnlock`, `TxWake`. Whether a job is due is left open.
A receive, a send and an open take as long as they take and may fail, the device
permitting: each is a state that another step leaves.

What is left out: frames (what the I/O threads push is `FrameBuffer`'s business),
periods (`TxScheduler`'s), DBC files, the text shown. The list of devices never changes; scanning
again only changes what can be selected.

Two simplifications a reader should know of. Confirming an import disconnects and
opens the dialog: `DisconnectAll("import")` goes to `import` when it is done. The
export thread that `main()` joins before it disconnects is not part of this module.

### FramePipeline

The GUI thread goes round: a menu command or none, `poll_frames()`, a panel
command or none (`gui_main.cpp:192-757`). `gui` says where it is:

| `gui` | code |
|---|---|
| `menu` | the menu bar and the result of a file dialog, which blocks |
| `join` | `replay_thread.reset()` in `stop_replay()`, called from the menu or from `start_replay()` |
| `import` | the loop of `import_log()`, a frame a step |
| `poll` | `poll_frames()`: `DrainSlot` for slot `at`, then `DrainReplay` |
| `show` | its loop over the drained frames, `batch` |
| `panels` | connection and monitor panels |

Only the replay thread (`replay`: `head` of its loop, `pause`, `wait`) and the I/O
threads (`Receive`) run beside it; what they share with it is the buffers, which
`FrameBuffer` shows to behave as drop-oldest queues, and the flags `replaying`,
`paused` and the stop token. The steps of `import` and `show` could be one; they
are apart because the loops are, and because threads may run between any two.

`rows`, `index`, `frozen_rows`, `scrollback`, `per_id`, `errors` are the members of
the same names, the index counted from 1. A frame has a number and an extended flag.
A row is for a number, a flag and a channel (`Key`, `app_state.hpp:624`); the
statistics (102), the signals and the messages of a DBC file (614-617) go by the
number alone, so standard and extended frames of one number are added up there.
The payload is not modelled, and a row keeps its last frame and its count. Two
things are not in the code: the field `from` of a frame (bus, replay or log), which
no guard reads, and `missed`, the frames polled while the monitor was frozen.

Frames in a buffer are polled in the next frame of the GUI, or thrown away with
their slot when it is disconnected: `FramesArePolled` says that there is no third
way. A replay that is still playing, or has come to its end and was not stopped,
when the monitor is cleared or a log imported goes on to fill what is shown then:
`NothingLeftOver` is about replays that were stopped.

`slots`, connecting and disconnecting are those of `AdapterSession`, here one step
each: what happens between is that module's subject. `slotDbc` and `log_dbc` hold
who has a DBC file, `Described` the numbers that such a file describes. Left out:
timestamps and everything computed from them, the speed of a replay, the text
filters, overlays, and the calls to the logger and the scheduler, which change
nothing here. Files that cannot be read or hold nothing change nothing, so they
are no action.

In log mode a replay finds an empty index and appends second rows for the keys of
the log; `RowsIndexed` says what holds all the same, and `LogShown` stops speaking
once a replay is shown.

### KvaserShared

Every channel is an adapter (`handle`, `ctx`: `dev_`, `ctx_`) with an I/O thread
(`io`); `registry` is `kvaser_shared_devs()`, whose entries count their users.
`gui` is where the GUI thread is in `open()` or `close()`: `opening` (paused the
others, looks for the device), `endpoints`, `flush`, `send` and `wait` for one
command of the `Program` after the other, `returning`, `joining`. `Program` is the
sequence of commands of the call, for a leaf card or an mhydra card, for the first
channel or a later one. `live` and `liveCtx` are the libusb objects that exist; an
address may be used again after it was freed.

The device is external: it answers `pending` commands in order whenever it likes,
reports states and frames of its own, and everything lands in one endpoint `ep`,
of which any reader takes any non-empty prefix. An answer is recognised by its
number only, as in the code. `owed` are the frames a channel has not got yet,
`alone` the channels that have had the device to themselves, and `abandoned`
counts the opens that failed after they had counted themselves in
(`hardware_kvaser.hpp:524`); these three are history.

Two things the model shows of the code, and its properties are worded for. An
entry left by a failed initialisation may share its address with a later handle,
and then a later channel is given the context that went with the old one:
`CtxLive` holds while no two entries have one address. A failed open of a second
channel leaves its count, so the device is not released when the last channel
closes: `Counted` has `abandoned` in its sum, and so does not speak against it. A
second channel of a leaf card never
opens: once counted in, it is refused (`hardware_kvaser.hpp:547-549`).

### Adapters and the drivers

`at` is the step `open()` is at. A step (`DriverSteps`) is a call of the system or
of a library: whether it takes something, whether `open()` depends on it, what its
early return releases, how often it is tried, whether it puts the device on the bus
and what it drops. `StepDone`, `TryAgain`, `StepSkipped`, `OpenFails` and
`OpenReturns` are the same for all drivers; the sequences of steps are theirs.
`line` is what the device has said and nobody has read, in units: words of an
event (`VectorDriver`), characters of a line (`SlcanDriver`), whole messages (the
others); `part` is `rx_partial_` or `rx_accum_`. `RecvMany(k)` reads any `k` units,
so every way of cutting the stream into transfers occurs; `RecvOne` is `recv()`,
which the command line tool uses.

`AdapterContract` is three actions a user can rely on (open, receive, close) and
what a device does; `Due` is the refinement mapping: the frames of which a first
unit is in `part` or `line`, in order. The contract names where drivers keep less: slcan and
the XL library leave something open when `open()` fails, an slcan adapter may begin
with a torn piece of a line that looks like an error message (the flush of `open()`
cuts where it likes), and `recv()` keeps the first frame of a batch only (but for
canlib, where it reads one).

Assumed of the outside: a transfer that times out carries no data
(`hardware_vector.hpp:433` would drop it), transfers of a Vector device are whole
words, the one transfer that is dropped while its FPGA starts ends with an event,
and lines of an slcan adapter stay short enough for the accumulator, which
`AdapterConstants` states. So nothing here speaks of a tail of less than four bytes,
nor of an accumulator that overflows.

### SessionLog

Files are named for the second they are begun in, so `disk` maps seconds to lines
and a second log of one second begins the file again (`Opened`). `unwritten` is
what the stream holds; `Log` may hand any part of it to the file and may leave a
line cut (`cut`). `Flushed` is what the files would hold if it were flushed. The
export thread (`at`: `read`, `open`, `write`, `flag`, `done`) reads line by line
what the file holds by then. `job` is what it captured when it was started, with
`asked`, the lines that had been logged then, as history; `renewed` is history too.

A cut line is copied as it is. Parsed, it may be dropped, be read with the wrong
data, or throw: `stoll` in `parse_csv_line()` is caught nowhere on that thread, so
the program ends (`crashed`). `ExportComplete` says that this takes a line that was
being written while the export ran. A line of a frame without data (`Bare`) is lost
when it is parsed (`logger.hpp:256`). Both, and a file that is begun again while it is
exported (`renewed`), are exceptions that `ExportComplete` makes, not defects it would
find; the loss is what `LogsReadBack` finds. `WrittenFlagFirst`, `NotOpenedUnchecked` and
the other definitions named for what they leave out are not part of `Next`: they are
variants the properties are tested against.

### TxScheduler

Time is counted in ticks, `Ms` of them to a millisecond: the code computes with
floats, and the theorems hold for ticks of any size. Only differences are kept: `age` since
`last_sent`, `idle` since the send itself, `spent` since the round read the clock,
`nap` what is left of the sleep. `ReadClock`, `Lock`, `Send` or `Skip` for each
job, `Unlock` are a round of `run()`; the panel's `Add`, `Toggle`, `SetPeriod`,
`Remove` need the mutex. `settled` are the jobs that have been sent since anything
was done to them, `gap` the time between the last two sends of such a job.
`MaxRound` is how long a round may take from its clock to its end, `Jitter` how late
a sleep may end; of the two only `MaxRound > 0` is assumed. `Cap` stops
the counting of times where nothing depends on them any more.

### FrameFormats and BitTiming

A frame is written to one of ten bus formats or four log formats and read back by
the same program. The log formats are what the logger and `export_to_file()` write as
CSV and as ASC, and what "Export Log..." (`start_export()`) makes of a CSV session
log: ASC lines of channel 1, whatever the channel was (`app_state.hpp:412`), or, in a
file of an extension it does not know, CSV without a channel. Words are kept by
fields, flags by bit numbers; of the data what matters is how many bytes come along.
`Kept` is what each format has room for: FD is lost on a leaf, hydra or XL adapter; FD
and remote frames on slcan; the kind FD on canlib, which is given the length for the
dlc; fd, brs and rtr in ASC; the channel in what "Export Log..." makes.
Lines that the parsers pass over (`PassedOver`) are no part of `Kept`: that a log is
not read back is a finding, below. Identifiers are any the transmitter's editor takes,
32 bits without a mask (`transmitter.hpp:677`); what a card or a kernel makes of one
with more bits than a frame has is outside (`Passes`). Error frames are a field of
`can_frame` that no frame written here has set: they are neither sent nor logged.
`BitTiming` is the search of three drivers over the clocks and
bitrates the program knows.

## Runs

| run | instance | shows |
|---|---|---|
| `frame_buffer` | 3 cells, 2 frames, 2 threads | types, the ring invariant, that the ring implements the queue, that `drain()` ends |
| `session_three` | 3 devices, 2 jobs | types, ownership of the I/O threads, consistency between commands, one sender at a time, log mode, clean exit |
| `session_two` | 2 devices and one without a driver, 1 job, fairness | the scheduler stays on the mark, sends go to open adapters, every command ends |
| `session_mark` | 3 devices, 2 jobs | the mark goes wrong (a finding, below) |
| `pipeline` | 2 adapters, 1 number, extended on the bus and standard in a log, buffers of 1, scrollback of 2, 3 frames | rows and index, rows and statistics, Freeze, scrollback, logs and replays that leave nothing behind |
| `pipeline_live` | 2 adapters, 2 numbers, a log of a standard and an extended frame on 2 channels, 2 frames, fairness | stopping a replay ends, received frames are polled, an imported log is decoded as its DBC files say |
| `kvaser` | 2 channels, 2 handles and contexts, endpoint of 2, 2 pending commands, 2 frames | the handle outlives its users and no more, counts, contexts, no frame of a lone channel is lost, an open channel is on the bus |
| `drivers` | 7 kinds of adapters, 3 frames, 2 other messages, line of 12 units, fairness | every driver keeps the contract, `open()` ends, frames arrive |
| `session_log` | 2 seconds, 3 frames, one without data, 2 exports | types, exports are complete, the message has one owner |
| `tx_sched` | 2 jobs, 2 ticks to a millisecond, periods of 2 and 7 ticks, rounds of up to 2, jitter 1, waits of up to 5 | types, a job is sent once a period |
| `codecs` | 6 ids, every flag, dlc and format; 4 cards and clocks, 9 bitrates | frames survive their formats, timings are exact |
| `log_files` | as `codecs` | logs that are written are not read back (a finding, below) |

Bounds. Three cells are enough for the ring to be empty, partly full, full and
wrapped at every offset, with a cell that is neither the oldest nor the newest;
the theorems remove the bound. Two frames tell order and loss apart. Three slots
are what it takes for an erased slot to be before, at or after the mark and for
`disconnect()` to be between two slots; two jobs, for one to be sent while another
is edited. The unbound device of `session_two` exercises the refused connect;
`session_three` leaves it out for room. Devices with a driver are interchangeable,
as jobs are, so they are symmetric; the run with a liveness property uses no
symmetry. No run disables the check for deadlock: a session that has ended
stutters by an action of its own, and the GUI can always do something before.

In the pipeline `MaxFrames` bounds the frames counted since the last clear and
those under way; clearing makes room again, so sequences of commands are not
bounded, only what lies between two clears. Three frames overflow a buffer of one
and a scrollback of two, and two adapters make the second slot move when the first
goes. The keys differ in the flag and the channel: both logs and buses bring frames of
one number under several keys. `pipeline_live` has a second number, which no DBC file
describes.

Two channels of a Kvaser card are what it takes to share a handle, two handles
and contexts for a stale entry to meet a new handle with and without its
address, and two messages in the endpoint for an answer to be behind or before
another; a late answer of one call is taken by the next.
`HYDRA_MAX_CARD_CHANNELS` is 1 there: the `map` command is the same each time.
In `drivers` a frame is 3 words or 5 characters and a line of 12 units holds two
and a half frames, so a transfer may end in, at and behind any unit; frames with
and without the digit F alternate. An accumulator of 7 is far from 256 but as
far as the shortened lines need. In `session_log` three frames are one before,
one while and one after an export, with the one in the middle without data; two
seconds allow a new file and the same file again, two exports a message that is
still unread. In `tx_sched` the long period is above the longest wait, so the
thread wakes without anything due, and the short one, the panel's least of a
millisecond, is the length of a round, so it is due again when the round ends. With two
ticks to a millisecond waits fall on either side of the two milliseconds below which
they are spun out, and on halves of one. In `codecs` the ids lie around
the 11 bits of a standard frame, at the end of the 29 bits and at the end of 31 (TLC's
integers have no 32), the addresses at
the ends of the two fields that an address is split over.

`session_log`, `codecs` and `log_files` do not check for deadlock: the program exits, or is
terminated by an exception, and a frame once read is done with. `MaxFrames`,
`MaxSent`, `MaxLines` and `MaxExports` bound what happens in a behaviour, `MaxQueue`,
`MaxPending`, `MaxLine`, `MaxNoise`, `MaxEntries` and `MaxAbandoned` what may pile up.

Fairness. Every thread is scheduled (`WF` on the GUI's unfinished commands, on the
transmit thread and on each I/O thread): the operating system's part. A receive has
a timeout of 50 ms, sends and opens have timeouts of their own, a dialog is closed
by somebody. `SF` on taking the mutex: the scheduler lets go of it between two rounds, so it
is free again and again but not always, and a waiting thread is taken to get it in the
end although nothing in `std::mutex` promises that in so many words. Mostly the
scheduler sleeps there; but when a round takes as long as a short wait, it goes on at
once (`tx_scheduler.hpp:127-131`). `GuiReturns` rests on the assumption there, and is
about threads that wait for each other, not about that race.
In the pipeline the GUI's loop goes round (`WF`, whatever it does) and the
replay thread is scheduled; it may wait for the time of its next frame but not for
ever, and a paused replay is not obliged to be resumed. In `Adapters` a call of
`open()` goes on (`WF` on its steps: each call of the system returns) and the caller
goes on receiving (`WF` on `RecvNext`: the I/O thread's loop). Nothing obliges the
user to act, so no command is fair, and no device to say anything.

## Findings

`session_mark`: the panel writes `[TX]` next to the slot at `tx_slot_idx`
(`connection.hpp:31`) and offers `Set TX` on the others (37). `disconnect_slot()`
erases from the vector and only clamps the index (`app_state.hpp:557-560`). With
three adapters connected, the second marked, disconnecting the first leaves the
scheduler on the second (it has not been told anything) and the label on the
third. If the user then disconnects the adapter the scheduler is on, `idx` is not
`tx_slot_idx`, so nobody stops the thread before its adapter is destroyed:
`SendsOnOpen` fails there. With two adapters the clamp happens to be right, and
`MarkWithTwo` proves that.

`log_files`: the menu writes logs as "CSV Log" and "Vector ASC" (`gui_main.cpp:290`)
and offers "CSV / ASC" files to import and to replay (305-307, 353). Of what it has
written it does not find everything again. `parse_asc_line()` passes over every line
that does not begin with a digit (`logger.hpp:271`), which is meant for the header;
but the time is written right-aligned in twelve places (`logger.hpp:141`, 197,
`app_state.hpp:412`) and begins with spaces until 10 000 seconds have passed. And the
CSV line of a frame without data ends in a comma, where `getline()` finds nothing
(`logger.hpp:256`): such frames are lost by an import, a replay, or an export that
converts the session log. TLC shows the second; with `format \in AscFormats` for
`LogFormats` it shows the first. What is not passed over comes back as it should:
`RoundTrip`.

## Proofs

`tlapm` checks every obligation of the eight proof modules, from no assumption but
the named ones of the modules (`CapacityPositive`, `BlankIsNoFrame`,
`SessionConstants`, `PipelineConstants`, `KvaserConstants`, `TxConstants`,
`SessionLogConstants`, `FormatConstants`, `AdapterConstants`). `PipelineConstants` has it that the
numbers of frames are finitely many, as the 32-bit ones of the code are;
`FormatConstants` that addresses have six bits; `TxConstants` that waits, rounds and a
millisecond are at least a tick; `AdapterConstants`
that the slcan accumulator, 256 characters in the code, has room for a line and for
what an adapter says between two returns.

`RingCorrect` (`Spec => [](TypeOK /\ RingInv)`): `TypeOK /\ RingInv` is inductive
as it stands. The arithmetic is in two lemmas, `Wrap` and `CellOf`: an index is
never more than one capacity beyond the end, so `%` subtracts at most once.
`TakeFacts` says what taking the oldest frame does, for `pop()` and for an
iteration of `drain()` alike.

`RingImplementsQueue` (`Spec => AbstractSpec`): the refinement maps the queue to
the frames `drain()` has already moved followed by those still in the ring.
`PushContents` and `TakeContents` say what a step does to that sequence,
`StepRefines` maps each action: `DrainBegin` and `DrainStep` to a stutter,
`DrainEnd` to the whole abstract drain.

The session's theorems share one invariant, `IInv`. What the runs check speaks of
`gui = "idle"`; a proof by induction has to know what holds in the middle of each
command. `SlotInv` ties slots, open adapters and I/O threads together, the part of
`disconnect()` that has been done included (`Remaining`); `CommandInv` the flags;
`TxInv` says in which places of which command the transmit thread exists and has
been asked to stop; `MutexInv` who holds the mutex and that a round's jobs stay
enabled. Each has one lemma with one step per action. `TypeCorrect`,
`IoThreadsOwned`, `SessionIsConsistent`, `SendsAreSerialised`,
`LogModeIsExclusive` and `ExitIsClean` follow from it, for any devices, drivers and
jobs. `MarkWithTwo` and `SendsWithTwo` add `MarkInv` and the hypothesis that at most
two slots are ever connected, which is exactly where they use that the clamp is right.

The pipeline has some thirty actions and five groups of variables, of which an
action changes one or two. Four footprint lemmas (`SlotSteps`, `ReplaySteps`,
`MonitorSteps`, `GuiSteps`) say which actions change which group, so that each
conjunct of the invariant is carried through the few that matter. The invariant
adds to what the runs check: `FlowInv` (the thread's place is in its log while it
plays; an import starts from an empty index and finishes before anything else
touches the rows; a stopped replay's frames wait only until the poll) and
`BufferInv` (no frame of an imported log is in a buffer, which is what keeps logs
out of live sessions). `PutRowFacts` is the lemma about the rows: a polled frame
keeps rows and index together and lets counts only grow, which is what
`RowsAreIndexed` and `FrozenRowsArePast` need.

The last sections of `FramePipelineProofs` are about what it counts. `CountsAgree` compares sums over
sets, which are folds of a community module, recursive functions on the subsets of
a finite set. Their facts (a sum exists, is a natural, grows by what is added, is the
same in whichever order the elements are taken) are shown by least counterexample:
of the subsets for which one fails take one that contains no other (`LeastSubset`,
`LeastNat`), and look at what happens when it loses an element. On these rest
`CountInTotal` and `NewRowTotal`, which say what a frame does to the rows' total,
whether it finds its row or makes one. `ScrollbackIsFull` carries `ScrollLength`, the
number of shown frames up to the limit, through the polls that drop what is too old,
and `LogsAreShown` says in addition what is still to come in the middle of an import.

The scheduler's theorem, `SentOncePerPeriod`, is about two bounds. The lower one
follows from `StampInv`: `last_sent` is the clock of the round, the send itself at
most a round later. The upper one does not hold by itself. `DueInv` says how late a
job may be at each place of the loop: looked at in this round, it is due when the
wait is over (`age - spent + wait <= period`), because `wait` is the least of all
remaining times; asleep, `age + nap <= period + MaxRound - 1`, because the sleep is
counted from the end of the round when it is long (and is then a millisecond, at least
a tick, less)
and from its clock when it is short; awake, the jitter is added once. Both bounds
are tight: TLC finds either one violated when it is made one smaller.

The Kvaser theorems rest on the observation that nothing the card answers matters to
who holds the handle. `LiveInv` (the device is open at most once), `EntryInv` (the
entry that later channels use is the first for its handle; an entry that was never
initialised counts one), `CallInv` (who holds a handle in the middle of a call) and
`CountInv` (the count is the holders and the abandoned opens) give `HandlesStayOpen`:
a release happens at a count of one, so the closing channel is the only holder.
`CtxInv` adds, as long as no two entries have one address, that a channel's context
is that of its entry.

Who receives what does depend on the answers. `CardInv`, inductive together with
the registry's invariant, adds the commands under way, the endpoint and the I/O threads. An
answer is recognised by the number of its command only, so that a late one may end
a wait early; but the commands reach the card in order, and `BusInv` needs no more
than that the start command has been sent: `OpenIsOnBus`. `AloneInv` and
`FramesInv` give `AloneGetsAll`: while one channel has the device to itself, no other
reads the endpoint, so that what the channel is owed is what the endpoint holds for it,
in the order the frames came. `CardTypes` needs the programs' shape: a call waits only
for a command of its own program.

`ExportsAreComplete` is about a file that grows while it is read. `LogInv` keeps the
lines of each file in the order of the frames, those on disk before those in the
stream, and `count` equal to the lines of the open file; `LogStep` shows that a step
extends every file, on disk and in all, except one that is begun again, in which
case an export of it is marked `renewed`. `ReadInv` says that what has been read is
what survives of the lines up to `pos`, in order, and carries over to the longer file;
`OutInv` that what has been written is a prefix of what has been read, and all of it
when the result is told. That only a concurrent write can make parsing throw is the
last conjunct of `ReadInv`: the thread meets a part of a line only at the end of the
file, and then the stream holds a line more than the disk. `MessageSafe` is
inductive on its own: the flag is set before the thread starts and cleared last.

`CodecProofs` is about values, not steps. A frame is written as the list of its
fields (`R`) and a step of a codec as the change of one of them, so that `Puts` and
`Gets` are all there is to know about records. Each format has a lemma that reads what
it writes; they share `LengthFacts` (`len_to_dlc()` undoes `dlc_to_len()`),
`PayloadFacts`, and `FlagIn` and `FlagOut` about the bits of a word. Where the code packs
bits the lemmas are arithmetic: `LeafIds` puts an identifier together from five
fields as `leaf_parse_rx_frame()` does, `HeadComesBack` follows an address of an
mhydra card through the two places it is kept in, there and back. `ReadIsKept` puts
the formats together, and `FramesComeBack` holds for every identifier, where the run
has six. `TimingsAreExact` needs no more cases than the run has, but shows why they
come out: for every card and rate there is a split of at least 12 quanta that fits
(`SplitExists`), the search takes the largest (`MaxFacts`, again by least
counterexample), and from 12 quanta on the sample point lies between 75 and 80 percent
(`SamplePoint`).

`AdaptersKeepContract` (`Spec => KeepsContract`) is the refinement of `AdapterContract`
for every kind of adapter, any accumulator, batch and number of frames, and any way
the stream is cut. The idea is that along the units on their way the numbers of the
frames only grow: `Numbered(s, b)` says that `b[j]` is the number of the last frame
that begins in the first `j` units of `s`. What a driver has made of the units up to a
place is then a row of numbers (`Run`), and what is left of them a row that goes on
there; `RunCat` joins the two. That each driver does make this of the units is shown
of its own loop. `VectorRecvIs` is about the one that completes an event kept from
the last transfer and walks over the others by their size; `LinesAre` about the one
that takes characters up to a return. Both loops are recursive functions, and a
function that satisfies the recursion is found by least counterexample. `LineIs` has
`parse_slcan` read a line of a frame as that frame and nothing else as one,
`LineMessage` adds the piece that the flush may have left. `VectorReceives`, `SlcanReceives` and
their like for the other drivers end in one form, `Receives`, from which `ReceivedWas`
concludes for all of them: what `recv_many()` returns was due first, and the rest
remains due.

The inductive invariant is `Inv`. `WayInv`: what is kept and on the line is a stream of
whole messages, numbered up to the last frame sent, except that the first line of an
slcan adapter may lack its beginning; what a driver keeps between two calls is no
whole message (`Kept`), without which the next transfer would be cut at the wrong
place; and of other messages there are at most as many units as fit into the accumulator
with a line, so that it is never emptied. `OpenInv`: at step `p` of `open()` the adapter
holds what the steps before took (`Holds`), so that an early return leaves only what
the contract names. `SlcanSteps`, `SocketSteps`, `XlSteps`, `CanlibSteps` and
`VectorSteps` check that call by call, the twenty-seven of the Vector driver by three
lists (`Find`, `Firmware`, `Channel`) of which only the first takes anything.

Only model-checked: `DrainEnds`, `GuiReturns`, `JoinEnds`, `FramesArePolled`,
`OpenEnds` and `FramesArrive`, which are liveness under fairness, out of the prover's
reach. Every other property of a passing run is a theorem. Only found by TLC: the two
violations.

## Not modelled

Discovery, permissions, settings, theme and drawing are input and output with no
protocol; overlays and chart traces, which keep each other's indices, are drawing
too. The signal store is one container on one thread. Of the DBC engine the parsing,
decoding and encoding belong to a library outside the repository, and its index is
rebuilt as a whole; which files decide what is decoded is in `FramePipeline`.
Waveforms and expressions of `signal_source.hpp` and the numbers of `motec_ld.hpp`
are floating point, beyond TLC. The firmware is data.

Of modelled parts: how Kvaser commands are packed into transfers; that closing a
SocketCAN adapter takes the interface down although it was up before; slcan
adapters that say nonsense; what a card, the kernel or a library does with a standard
frame whose identifier is too long, and canlib's `canWrite()` with more than eight
bytes; timestamps, and the speed of a replay. Time is counted in `TxScheduler` only;
in the other modules a timeout may come at any moment.

## Plan

Done, in the order of what several threads share: `FrameBuffer`, `AdapterSession`,
`FramePipeline`, `KvaserShared`, `Adapters` with the drivers, `SessionLog`,
`TxScheduler`, the formats and timings. What would be added next:

1. Overlays in `FramePipeline`: layers, and traces of charts that keep their indices.
2. The index of `DbcEngine` against the networks that are loaded, and the retention
   of `SignalStore`.
3. Refinement of `FramePipeline`'s atomic connects by `AdapterSession`, for a proof
   that a tag is the slot's index whenever a frame is shown.

No module that is proved about declares a recursive operator.
