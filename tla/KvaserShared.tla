---------------------------- MODULE KvaserShared ----------------------------
(***************************************************************************)
(* The channels of one Kvaser USB device.  Every channel is an adapter of  *)
(* its own, with a thread that receives for it, but all of them go through *)
(* one device handle and read one endpoint.  The first channel to open     *)
(* claims the device, enters the handle in a registry and initialises the  *)
(* card; a later one takes the handle over from the registry and counts    *)
(* itself in; the last one to close releases the device.                   *)
(*                                                                         *)
(* Opening and closing happen on the GUI thread, one call at a time.  The  *)
(* other channels' receive threads run on meanwhile: connect() sets their  *)
(* io_paused and sleeps 20 ms, a receive that has begun lasts up to 50 ms, *)
(* and disconnecting pauses nobody.                                        *)
(*                                                                         *)
(* The bytes of commands, replies and frames are abstracted to what a      *)
(* reader looks at: the command number, the channel, and for a frame which *)
(* one it is.  A transfer returns any non-empty prefix of what the device  *)
(* has queued.                                                             *)
(***************************************************************************)
EXTENDS Integers, FiniteSets, SequencesExt

CONSTANTS Channels,       \* channels of the card
          Handles,        \* addresses a device handle may have
          Contexts,       \* addresses a libusb context may have
          None,
          MaxCardChannels,\* HYDRA_MAX_CARD_CHANNELS: channels asked for
          MaxEntries,     \* bound: entries of the registry
          MaxQueue,       \* bound: messages the endpoint holds
          MaxPending,     \* bound: commands the device has not answered
          MaxFrames,      \* bound: frames on the bus
          MaxAbandoned    \* bound: opens that fail counted, per handle

ASSUME KvaserConstants ==
  /\ IsFiniteSet(Channels)
  /\ None \notin Channels \cup Handles \cup Contexts
  /\ {MaxCardChannels, MaxEntries, MaxQueue, MaxPending, MaxFrames, MaxAbandoned} \subseteq Nat

VARIABLES
  mhydra,             \* the card's protocol: mhydra or leaf
  live, liveCtx,      \* handles and contexts that are open
  registry,           \* kvaser_shared_devs()
  handle, ctx,        \* dev_ and ctx_ of each channel's adapter
  open,               \* channels whose adapter has open_
  gui,                \* where the GUI thread is in open() or close()
  call, chan, step,   \* that call, its channel, its next command
  pending,            \* commands the device has yet to answer
  started,            \* channels whose chip is on the bus
  ep,                 \* the endpoint: replies, events and frames
  io, paused,         \* receive threads; channels with io_paused
  frames,             \* frames seen on the bus
  owed,               \* since it opened: frames a channel has not got yet
  alone,              \* channels that had the device to themselves since
  abandoned           \* opens that failed after they had counted themselves in

registryVars == <<live, liveCtx, registry, handle, ctx, open, abandoned>>
callVars == <<gui, call, chan, step>>
deviceVars == <<pending, started, frames>>
vars == <<mhydra, registryVars, callVars, deviceVars, ep, io, paused, owed, alone>>

Calls == {"first", "second", "close"}

Init == /\ mhydra \in BOOLEAN
        /\ live = {} /\ liveCtx = {} /\ registry = << >>
        /\ handle = [c \in Channels |-> None] /\ ctx = [c \in Channels |-> None]
        /\ open = {} /\ abandoned = 0
        /\ gui = "idle" /\ call = "close" /\ chan = None /\ step = 1
        /\ pending = << >> /\ started = {} /\ frames = 0
        /\ ep = << >>
        /\ io = [c \in Channels |-> "off"] /\ paused = {}
        /\ owed = [c \in Channels |-> {}] /\ alone = {}
-----------------------------------------------------------------------------
(* Commands.                                                                *)

\* run_init_sequence_mhydra(), with mhydra_map_channels() in front.
HydraInit == [i \in 1..MaxCardChannels |-> "map"]
               \o <<"card", "info", "details", "mode", "params", "start">>

\* run_init_sequence(): the driver mode is sent twice.
LeafInit == <<"info", "card", "mode", "mode", "params", "start">>

SecondInitUnstarted == <<"mode", "params">>

\* What open() sends for a channel of a card that is initialised.
SecondInit == <<"mode", "params", "start">>

Program == CASE call = "first" -> IF mhydra THEN HydraInit ELSE LeafInit
             [] call = "second" -> SecondInit
             [] call = "close" -> <<"stop">>

Command == Program[step]

\* Sent without waiting for an answer.
Unanswered == IF mhydra THEN {"mode"} ELSE {"mode", "params"}

\* The number that is taken for the answer.  An mhydra card starts a chip when
\* it reports that chip's state, which it also does on its own.
Answer(cmd) == IF mhydra /\ cmd = "start" THEN "chipstate" ELSE cmd

Commands == {"map", "card", "info", "details", "mode", "params", "start", "stop"}

Messages == [cmd : Commands \cup {"chipstate", "frame"}, ch : Channels, n : 0..MaxFrames]

FramesOf(s, c) == {m \in ToSet(s) : m.cmd = "frame" /\ m.ch = c}
-----------------------------------------------------------------------------
(* open().                                                                  *)

\* The first entry of the registry a later channel may use.
Usable == SelectInSeq(registry, LAMBDA e : e.init_done)

\* The first entry for a handle.
EntryOf(h) == SelectInSeq(registry, LAMBDA e : e.dev = h)

Idle == gui' = "idle" /\ chan' = None /\ call' = "close" /\ step' = 1

Begin(what, c, pc) == gui' = pc /\ call' = what /\ chan' = c /\ step' = 1

ConnectPausingAll(c) ==
  /\ gui = "idle" /\ c \notin open
  /\ gui' = "opening" /\ chan' = c /\ UNCHANGED <<call, step>>
  /\ paused' = Channels
  /\ UNCHANGED <<mhydra, registryVars, deviceVars, ep, io, owed, alone>>

\* connect() pauses the other channels and sleeps 20 ms.
Connect(c) ==
  /\ gui = "idle" /\ c \notin open
  /\ gui' = "opening" /\ chan' = c /\ UNCHANGED <<call, step>>
  /\ paused' = open
  /\ UNCHANGED <<mhydra, registryVars, deviceVars, ep, io, owed, alone>>

\* Not found, not permitted, or the interface is claimed by somebody else: what
\* was opened is closed again.
OpenRefused ==
  /\ gui = "opening"
  /\ Idle /\ paused' = {}
  /\ UNCHANGED <<mhydra, registryVars, deviceVars, ep, io, owed, alone>>

OpenFirst(h, x) ==
  /\ gui = "opening"
  /\ Usable = 0 /\ Len(registry) < MaxEntries
  /\ h \notin live /\ x \notin liveCtx
  /\ live' = live \cup {h} /\ liveCtx' = liveCtx \cup {x}
  /\ handle' = [handle EXCEPT ![chan] = h] /\ ctx' = [ctx EXCEPT ![chan] = x]
  /\ registry' = Append(registry, [dev |-> h, ctx |-> x, refcount |-> 1, init_done |-> FALSE])
  /\ abandoned' = 0
  /\ Begin("first", chan, "endpoints")
  /\ alone' = {}
  /\ UNCHANGED <<mhydra, open, deviceVars, ep, io, paused, owed>>

OpenSecondUncounted ==
  /\ gui = "opening"
  /\ Usable # 0 /\ abandoned < MaxAbandoned
  /\ handle' = [handle EXCEPT ![chan] = registry[Usable].dev]
  /\ ctx' = [ctx EXCEPT ![chan] = registry[Usable].ctx]
  /\ Begin("second", chan, "flush")
  /\ alone' = {}
  /\ UNCHANGED <<mhydra, live, liveCtx, registry, open, abandoned, deviceVars, ep, io, paused, owed>>

OpenSecondAnyEntry ==
  /\ gui = "opening"
  /\ registry # << >>
  /\ handle' = [handle EXCEPT ![chan] = registry[1].dev]
  /\ ctx' = [ctx EXCEPT ![chan] = registry[1].ctx]
  /\ registry' = [registry EXCEPT ![1].refcount = @ + 1]
  /\ Begin("second", chan, "flush")
  /\ alone' = {}
  /\ UNCHANGED <<mhydra, live, liveCtx, open, abandoned, deviceVars, ep, io, paused, owed>>

\* The handle and context opened for this channel are closed at once.
OpenSecond ==
  /\ gui = "opening"
  /\ Usable # 0 /\ abandoned < MaxAbandoned
  /\ handle' = [handle EXCEPT ![chan] = registry[Usable].dev]
  /\ ctx' = [ctx EXCEPT ![chan] = registry[Usable].ctx]
  /\ registry' = [registry EXCEPT ![Usable].refcount = @ + 1]
  /\ Begin("second", chan, "flush")
  /\ alone' = {}
  /\ UNCHANGED <<mhydra, live, liveCtx, open, abandoned, deviceVars, ep, io, paused, owed>>

\* discover_endpoints(), discover_endpoints_mhydra().
EndpointsFound ==
  /\ gui = "endpoints" /\ gui' = "flush"
  /\ UNCHANGED <<mhydra, registryVars, call, chan, step, deviceVars, ep, io, paused, owed, alone>>

\* flush_rx(): whatever is read is dropped, whosever it is.
FlushReads(k) ==
  /\ gui = "flush"
  /\ ep' = SubSeq(ep, k + 1, Len(ep))
  /\ UNCHANGED <<mhydra, registryVars, callVars, deviceVars, io, paused, owed, alone>>

\* Nothing came for 50 ms, or it was the eighth read.
FlushEnds ==
  /\ gui = "flush" /\ (call = "second" => mhydra)
  /\ gui' = "send"
  /\ UNCHANGED <<mhydra, registryVars, call, chan, step, deviceVars, ep, io, paused, owed, alone>>

\* The next command of the call; after the last one the call returns.
Advance == IF step < Len(Program)
           THEN gui' = "send" /\ step' = step + 1 /\ UNCHANGED <<call, chan>>
           ELSE gui' = "returning" /\ UNCHANGED <<call, chan, step>>

\* leaf_send_cmd(), mhydra_send_cmd().
Send ==
  /\ gui = "send" /\ Len(pending) < MaxPending
  /\ pending' = Append(pending, [cmd |-> Command, ch |-> chan])
  /\ IF Command \in Unanswered THEN Advance
     ELSE gui' = "wait" /\ UNCHANGED <<call, chan, step>>
  /\ UNCHANGED <<mhydra, registryVars, started, frames, ep, io, paused, owed, alone>>

\* leaf_send_cmd_wait(), mhydra_send_and_wait(): the rest of the transfer goes
\* with what came before the answer.
WaitReads(k) ==
  /\ gui = "wait"
  /\ ep' = SubSeq(ep, k + 1, Len(ep))
  /\ IF \E i \in 1..k : ep[i].cmd = Answer(Command) THEN Advance ELSE UNCHANGED callVars
  /\ UNCHANGED <<mhydra, registryVars, deviceVars, io, paused, owed, alone>>

FirstFailsUnlisted ==
  /\ call = "first" /\ gui \in {"endpoints", "send", "wait"}
  /\ Idle
  /\ handle' = [handle EXCEPT ![chan] = None] /\ ctx' = [ctx EXCEPT ![chan] = None]
  /\ paused' = {}
  /\ UNCHANGED <<mhydra, live, liveCtx, registry, open, abandoned, deviceVars, ep, io, owed, alone>>

\* No endpoints, a transfer that fails, no answer in two seconds, or a card
\* with fewer channels: the device is released, its entry stays.
FirstFails ==
  /\ call = "first" /\ gui \in {"endpoints", "send", "wait"}
  /\ Idle
  /\ live' = live \ {handle[chan]} /\ liveCtx' = liveCtx \ {ctx[chan]}
  /\ handle' = [handle EXCEPT ![chan] = None] /\ ctx' = [ctx EXCEPT ![chan] = None]
  /\ paused' = {}
  /\ UNCHANGED <<mhydra, registry, open, abandoned, deviceVars, ep, io, owed, alone>>

\* A leaf card always, an mhydra card when a command fails: open() returns
\* and connect() drops the adapter, which stays counted in the entry.
SecondFails ==
  /\ call = "second"
  /\ gui \in (IF mhydra THEN {"send", "wait"} ELSE {"flush"})
  /\ Idle
  /\ handle' = [handle EXCEPT ![chan] = None] /\ ctx' = [ctx EXCEPT ![chan] = None]
  /\ abandoned' = abandoned + 1
  /\ paused' = {}
  /\ UNCHANGED <<mhydra, live, liveCtx, registry, open, deviceVars, ep, io, owed, alone>>

\* open() returns and connect() starts the receive thread and resumes the others.
Opened ==
  /\ call \in {"first", "second"} /\ gui = "returning"
  /\ Idle
  /\ registry' = IF call = "first"
                 THEN [registry EXCEPT ![EntryOf(handle[chan])].init_done = TRUE]
                 ELSE registry
  /\ open' = open \cup {chan}
  /\ io' = [io EXCEPT ![chan] = "check"] /\ paused' = {}
  /\ owed' = [owed EXCEPT ![chan] = FramesOf(ep, chan)]
  /\ alone' = IF open = {} THEN {chan} ELSE {}
  /\ UNCHANGED <<mhydra, live, liveCtx, handle, ctx, abandoned, deviceVars, ep>>
-----------------------------------------------------------------------------
(* disconnect_slot() and close().                                           *)

Disconnect(c) ==
  /\ gui = "idle" /\ c \in open
  /\ gui' = "joining" /\ chan' = c /\ UNCHANGED <<call, step>>
  /\ UNCHANGED <<mhydra, registryVars, deviceVars, ep, io, paused, owed, alone>>

\* stop_io() has joined the channel's receive thread; close() stops the chip.
Close ==
  /\ gui = "joining"
  /\ io[chan] = "check" /\ io' = [io EXCEPT ![chan] = "off"]
  /\ Begin("close", chan, "send")
  /\ alone' = {}
  /\ UNCHANGED <<mhydra, registryVars, deviceVars, ep, paused, owed>>

\* The answer to the stop command is not waited for any longer, or the command
\* could not be written: close() goes on.
StopUnanswered ==
  /\ call = "close" /\ gui \in {"send", "wait"}
  /\ gui' = "returning"
  /\ UNCHANGED <<mhydra, registryVars, call, chan, step, deviceVars, ep, io, paused, owed, alone>>

Left == /\ open' = open \ {chan}
        /\ handle' = [handle EXCEPT ![chan] = None]
        /\ ctx' = [ctx EXCEPT ![chan] = None]
        /\ owed' = [owed EXCEPT ![chan] = {}]
        /\ Idle
        /\ UNCHANGED <<mhydra, deviceVars, ep, io, paused, alone>>

\* --refcount <= 0 : release, close, exit, erase.
ReleasedEarly ==
  /\ call = "close" /\ gui = "returning"
  /\ LET i == EntryOf(handle[chan]) IN
     /\ i # 0 /\ registry[i].refcount <= 2
     /\ registry' = RemoveAt(registry, i)
  /\ live' = live \ {handle[chan]} /\ liveCtx' = liveCtx \ {ctx[chan]}
  /\ abandoned' = 0
  /\ Left

Released ==
  /\ call = "close" /\ gui = "returning"
  /\ LET i == EntryOf(handle[chan]) IN
     /\ i # 0 /\ registry[i].refcount <= 1
     /\ registry' = RemoveAt(registry, i)
  /\ live' = live \ {handle[chan]} /\ liveCtx' = liveCtx \ {ctx[chan]}
  /\ abandoned' = 0
  /\ Left

StillShared ==
  /\ call = "close" /\ gui = "returning"
  /\ LET i == EntryOf(handle[chan]) IN
     /\ i # 0 => registry[i].refcount > 1
     /\ registry' = IF i = 0 THEN registry ELSE [registry EXCEPT ![i].refcount = @ - 1]
  /\ UNCHANGED <<live, liveCtx, abandoned>>
  /\ Left
-----------------------------------------------------------------------------
(* The receive threads: recv_many_leaf(), recv_many_mhydra().               *)

IoChecks(c) ==
  /\ io[c] = "check" /\ c \notin paused
  /\ ~(gui = "joining" /\ chan = c)
  /\ io' = [io EXCEPT ![c] = "read"]
  /\ UNCHANGED <<mhydra, registryVars, callVars, deviceVars, ep, paused, owed, alone>>

IoReadsOneOnly(c, k) ==
  /\ io[c] = "read"
  /\ io' = [io EXCEPT ![c] = "check"]
  /\ ep' = SubSeq(ep, k + 1, Len(ep))
  /\ owed' = [owed EXCEPT ![c] = @ \ ToSet(SubSeq(ep, 1, 1))]
  /\ UNCHANGED <<mhydra, registryVars, callVars, deviceVars, paused, alone>>

\* Frames of other channels, replies and events are dropped.
IoReads(c, k) ==
  /\ io[c] = "read"
  /\ io' = [io EXCEPT ![c] = "check"]
  /\ ep' = SubSeq(ep, k + 1, Len(ep))
  /\ owed' = [owed EXCEPT ![c] = @ \ ToSet(SubSeq(ep, 1, k))]
  /\ UNCHANGED <<mhydra, registryVars, callVars, deviceVars, paused, alone>>

\* Nothing came in time, or the transfer failed.
IoTimesOut(c) ==
  /\ io[c] = "read"
  /\ io' = [io EXCEPT ![c] = "check"]
  /\ UNCHANGED <<mhydra, registryVars, callVars, deviceVars, ep, paused, owed, alone>>
-----------------------------------------------------------------------------
(* The device.                                                              *)

DeviceAnswers ==
  /\ pending # << >>
  /\ LET p == Head(pending) IN
     /\ started' = CASE p.cmd = "start" -> started \cup {p.ch}
                     [] p.cmd = "stop" -> started \ {p.ch}
                     [] OTHER -> started
     /\ \/ /\ p.cmd \in Unanswered /\ ep' = ep
        \/ /\ p.cmd \notin Unanswered /\ Len(ep) < MaxQueue
           /\ ep' = Append(ep, [cmd |-> Answer(p.cmd), ch |-> p.ch, n |-> 0])
  /\ pending' = Tail(pending)
  /\ UNCHANGED <<mhydra, registryVars, callVars, frames, io, paused, owed, alone>>

ReportsState(c) ==
  /\ c \in started /\ Len(ep) < MaxQueue
  /\ ep' = Append(ep, [cmd |-> "chipstate", ch |-> c, n |-> 0])
  /\ UNCHANGED <<mhydra, registryVars, callVars, deviceVars, io, paused, owed, alone>>

ReceivesFrame(c) ==
  /\ c \in started /\ Len(ep) < MaxQueue /\ frames < MaxFrames
  /\ frames' = frames + 1
  /\ LET m == [cmd |-> "frame", ch |-> c, n |-> frames + 1] IN
     /\ ep' = Append(ep, m)
     /\ owed' = IF c \in open THEN [owed EXCEPT ![c] = @ \cup {m}] ELSE owed
  /\ UNCHANGED <<mhydra, registryVars, callVars, pending, started, io, paused, alone>>
-----------------------------------------------------------------------------
GuiNext == \/ \E c \in Channels : Connect(c) \/ Disconnect(c)
           \/ \E h \in Handles, x \in Contexts : OpenFirst(h, x)
           \/ OpenRefused \/ OpenSecond \/ EndpointsFound \/ FlushEnds \/ Send
           \/ FirstFails \/ SecondFails \/ Opened
           \/ Close \/ StopUnanswered \/ Released \/ StillShared
           \/ \E k \in 1..Len(ep) : FlushReads(k) \/ WaitReads(k)

IoNext == \E c \in Channels : \/ IoChecks(c) \/ IoTimesOut(c)
                              \/ \E k \in 1..Len(ep) : IoReads(c, k)

DeviceNext == DeviceAnswers \/ \E c \in Channels : ReportsState(c) \/ ReceivesFrame(c)

Next == GuiNext \/ IoNext \/ DeviceNext

Spec == Init /\ [][Next]_vars
-----------------------------------------------------------------------------
(* Correctness.                                                             *)

TypeOK ==
  /\ mhydra \in BOOLEAN
  /\ live \subseteq Handles /\ liveCtx \subseteq Contexts
  /\ registry \in Seq([dev : Handles, ctx : Contexts, refcount : Nat, init_done : BOOLEAN])
  /\ handle \in [Channels -> Handles \cup {None}]
  /\ ctx \in [Channels -> Contexts \cup {None}]
  /\ open \subseteq Channels /\ abandoned \in Nat
  /\ gui \in {"idle", "opening", "endpoints", "flush", "send", "wait", "returning", "joining"}
  /\ call \in Calls /\ chan \in Channels \cup {None} /\ step \in 1..(MaxCardChannels + 6)
  /\ pending \in Seq([cmd : Commands, ch : Channels])
  /\ started \subseteq Channels /\ frames \in Nat
  /\ ep \in Seq(Messages)
  /\ io \in [Channels -> {"off", "check", "read"}] /\ paused \subseteq open
  /\ owed \in [Channels -> SUBSET Messages] /\ alone \subseteq Channels

\* Channels whose adapter holds a handle: the open ones, and one being opened.
Users == {c \in Channels : handle[c] # None}

\* A thread transfers on a handle only while it is open: no channel outlives
\* the release of the device, in whatever order channels open, fail to open
\* and close.
HandlesLive == \A c \in Users : handle[c] \in live

\* The count of the entry for an open handle is the channels that hold it and
\* the opens that failed once they had counted themselves, and it is not zero:
\* without such opens it falls to zero exactly when the last channel closes, and
\* the device is released for other programs as soon as nobody uses it.
Counted == \A h \in live :
  LET i == EntryOf(h) IN
  /\ i # 0 /\ registry[i].refcount > 0
  /\ registry[i].refcount = Cardinality({c \in Users : handle[c] = h}) + abandoned

\* libusb_exit() is called once for each context, as long as the registry has
\* no two entries for one address: an entry that a failed initialisation left
\* behind hands a later channel the context that went with it.
CtxLive == (\A i, j \in DOMAIN registry : registry[i].dev = registry[j].dev => i = j)
             => \A c \in Users : ctx[c] \in liveCtx

\* A channel that has had the device to itself since it opened gets every frame
\* received for it, in order: what it has not got is still in the endpoint.
AloneLosesNothing ==
  /\ \A c \in alone : owed[c] = FramesOf(ep, c)
  /\ \A i, j \in DOMAIN ep :
       i < j /\ ep[i].cmd = "frame" /\ ep[j].cmd = "frame" => ep[i].n < ep[j].n

\* Where the device has yet to answer a start or a stop of a channel.
Asked(c) == {i \in DOMAIN pending : pending[i].ch = c /\ pending[i].cmd \in {"start", "stop"}}

\* A channel is on the bus, or will be once the device has answered.
OnBus(c) == /\ Asked(c) = {} => c \in started
            /\ \A i \in Asked(c) : (\A j \in Asked(c) : j <= i) => pending[i].cmd = "start"

\* A channel that open() reported open is on the bus, or its start command is
\* the last one the device has to answer for it: no mix-up of answers, late ones
\* included, lets open() return without it.
OpenOnBus == \A c \in open \ {chan} : OnBus(c)
=============================================================================
