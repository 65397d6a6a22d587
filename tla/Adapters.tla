------------------------------ MODULE Adapters ------------------------------
(***************************************************************************)
(* hardware.hpp: an adapter is a variant of the drivers, and open(),       *)
(* close(), send() and recv_many() go to the driver that it holds.  Here   *)
(* is one adapter of each kind, from make_adapter() on, with the device at *)
(* its other end; connect() makes a new one for every attempt and drops    *)
(* the one that failed to open.                                            *)
(*                                                                         *)
(* Opening is the only call of several steps that are observable: frames   *)
(* arrive meanwhile.  Receiving takes any part of what is on the line.     *)
(* The libusb driver for Kvaser is the subject of KvaserShared.            *)
(***************************************************************************)
EXTENDS DriverSteps

CONSTANTS Kinds, AccumMax, BatchSize,
          MaxSent,     \* bound: frames handed over by the device
          MaxLine,     \* bound: units on the line
          MaxNoise     \* bound: messages that are no frames, at a time

Vector == INSTANCE VectorDriver
Slcan == INSTANCE SlcanDriver
Other == INSTANCE OtherDrivers

AllKinds == {"slcan", "socket", "vector", "xl", "canlib", "mock", "echo"}

\* A line of text is at most 26 characters long, and so is what an adapter says
\* between two returns: far from the 256 that are taken for junk.
ASSUME AdapterConstants ==
  /\ Kinds \subseteq AllKinds
  /\ {AccumMax, BatchSize, MaxSent, MaxLine, MaxNoise} \subseteq Nat
  /\ BatchSize > 0 /\ AccumMax >= MaxNoise + 5

VARIABLES
  kind, caller,
  open,       \* open() has returned success
  at, tries,  \* the step open() is at, 0 outside it, and its failed attempts
  held, left, \* what the adapter has taken; what adapters now gone have left
  onbus,      \* the device hands over frames
  line, part, \* on the way, and kept by the driver
  sent, got   \* frames handed over, and frames received since open()

callVars == <<open, at, tries, held, left>>
vars == <<kind, caller, callVars, onbus, line, part, sent, got>>
-----------------------------------------------------------------------------
(* std::visit                                                               *)

OpenSteps == CASE kind = "vector" -> Vector!OpenSteps
               [] kind = "slcan" -> Slcan!OpenSteps
               [] kind = "socket" -> Other!SocketSteps
               [] kind = "xl" -> Other!XlSteps
               [] kind = "canlib" -> Other!CanlibSteps
               [] OTHER -> Other!MockSteps

Units(n) == CASE kind = "vector" -> Vector!Units(n)
              [] kind = "slcan" -> Slcan!Units(n)
              [] OTHER -> Other!Units(n)

\* What a device says beside frames: events, receipts, answers, the bell.
Noise == CASE kind = "vector" -> {Vector!Other}
           [] kind = "slcan" -> {Slcan!Answer, Slcan!Bell}
           [] kind = "xl" -> {Other!Units(0)}
           [] OTHER -> {}

Whole(frames) == [frames |-> frames, part |-> << >>]

Recv(units) == CASE kind = "vector" -> Vector!Recv(part, units)
                 [] kind = "slcan" -> Slcan!Recv(part, units)
                 [] kind = "socket" -> Whole(Other!SocketRecv(units))
                 [] kind = "xl" -> Whole(Other!XlRecv(units))
                 [] kind = "canlib" -> Whole(Other!CanlibRecv(units))
                 [] kind = "mock" -> Whole(Other!MockRecv(units))
                 [] kind = "echo" -> Whole(Other!EchoRecv(units))

\* The mock produces no more at a time, the others take all there is.
Most == IF kind = "mock" /\ BatchSize < Len(line) THEN BatchSize ELSE Len(line)
-----------------------------------------------------------------------------
Init == /\ kind \in Kinds /\ caller \in {"gui", "cli"}
        /\ open = FALSE /\ at = 0 /\ tries = 0 /\ held = {} /\ left = {}
        /\ onbus \in (IF kind = "slcan" THEN BOOLEAN ELSE {FALSE})
        /\ line = << >> /\ part = << >> /\ sent = 0 /\ got = << >>

\* make_adapter() and adapter_open().
BeginOpen ==
  /\ ~open /\ at = 0
  /\ at' = 1 /\ tries' = 0 /\ held' = {} /\ part' = << >> /\ got' = << >>
  /\ UNCHANGED <<kind, caller, open, left, onbus, line, sent>>

Now == OpenSteps[at]

Goes(step, rest) == CASE step.drops = "all" -> rest = << >>
                      [] step.drops = "whole" -> \E j \in 0..Len(line) :
                                                    /\ j > 0 => line[j].i = line[j].len
                                                    /\ rest = SubSeq(line, j + 1, Len(line))
                      [] step.drops = "some" -> \E j \in 0..Len(line) :
                                                   rest = SubSeq(line, j + 1, Len(line))
                      [] OTHER -> rest = line

StepDone ==
  /\ at \in DOMAIN OpenSteps
  /\ at' = at + 1 /\ tries' = 0
  /\ held' = held \cup Now.takes
  /\ onbus' = CASE Now.bus = "on" -> TRUE [] Now.bus = "off" -> FALSE [] OTHER -> onbus
  /\ Goes(Now, line')
  /\ UNCHANGED <<kind, caller, open, left, part, sent, got>>

TryAgainForEver ==
  /\ at \in DOMAIN OpenSteps
  /\ Now.tries > 1
  /\ tries' = (tries + 1) % Now.tries
  /\ UNCHANGED <<kind, caller, open, at, held, left, onbus, line, part, sent, got>>

TryAgain ==
  /\ at \in DOMAIN OpenSteps
  /\ tries + 1 < Now.tries
  /\ tries' = tries + 1
  /\ UNCHANGED <<kind, caller, open, at, held, left, onbus, line, part, sent, got>>

\* A call that open() does not need: the next one follows.
StepSkipped ==
  /\ at \in DOMAIN OpenSteps /\ ~Now.needed
  /\ at' = at + 1 /\ tries' = 0
  /\ UNCHANGED <<kind, caller, open, held, left, onbus, line, part, sent, got>>

\* A command may have reached the device although it counts as failed.
OpenFails ==
  /\ at \in DOMAIN OpenSteps /\ Now.needed
  /\ tries + 1 >= Now.tries
  /\ at' = 0 /\ tries' = 0
  /\ left' = left \cup (held \ Now.frees) /\ held' = {}
  /\ onbus' \in {onbus} \cup (IF Now.bus = "on" THEN {TRUE} ELSE {})
  /\ UNCHANGED <<kind, caller, open, line, part, sent, got>>

OpenReturns ==
  /\ at = Len(OpenSteps) + 1
  /\ open' = TRUE /\ at' = 0
  /\ UNCHANGED <<kind, caller, tries, held, left, onbus, line, part, sent, got>>

\* close(): the device may or may not get the command that takes it off the bus.
Close ==
  /\ open /\ open' = FALSE
  /\ held' = {} /\ part' = << >> /\ got' = << >>
  /\ line' = << >>
  /\ onbus' \in (IF kind = "slcan" THEN BOOLEAN ELSE {FALSE})
  /\ UNCHANGED <<kind, caller, at, tries, left, sent>>

\* Of the units, those of messages that are no frames.
Noisy(units) == Cardinality({j \in DOMAIN units : units[j].n = 0})

\* Where a port was left open, or nobody has opened one yet, nothing is received.
DeviceSends ==
  /\ onbus /\ (open \/ held # {}) /\ kind # "echo" /\ sent < MaxSent
  /\ Len(line) + Len(Units(sent + 1)) <= MaxLine
  /\ sent' = sent + 1 /\ line' = line \o Units(sent + 1)
  /\ UNCHANGED <<kind, caller, callVars, onbus, part, got>>

DeviceSays ==
  /\ held # {} /\ Noisy(part \o line) < MaxNoise
  /\ \E message \in Noise : /\ Len(line) + Len(message) <= MaxLine
                            /\ line' = line \o message
  /\ UNCHANGED <<kind, caller, callVars, onbus, part, sent, got>>

\* send() to the mock that echoes; other drivers keep nothing of what they send.
Send ==
  /\ open /\ kind = "echo" /\ sent < MaxSent
  /\ sent' = sent + 1 /\ line' = line \o Units(sent + 1)
  /\ UNCHANGED <<kind, caller, callVars, onbus, part, got>>

RecvMany(k) ==
  /\ open /\ caller = "gui"
  /\ LET r == Recv(SubSeq(line, 1, k)) IN got' = got \o r.frames /\ part' = r.part
  /\ line' = SubSeq(line, k + 1, Len(line))
  /\ UNCHANGED <<kind, caller, callVars, onbus, sent>>

\* recv(), which the command line tool calls: the front of the batch.  Only that of
\* canlib reads one message.
RecvOne(k) ==
  /\ open /\ caller = "cli" /\ (kind = "canlib" => k = 1)
  /\ LET r == Recv(SubSeq(line, 1, k))
     IN got' = got \o (IF r.frames = << >> THEN << >> ELSE <<Head(r.frames)>>) /\ part' = r.part
  /\ line' = SubSeq(line, k + 1, Len(line))
  /\ UNCHANGED <<kind, caller, callVars, onbus, sent>>

OpenNext == StepDone \/ TryAgain \/ StepSkipped \/ OpenFails \/ OpenReturns

RecvNext == \E k \in 1..Most : RecvMany(k) \/ RecvOne(k)

Next == \/ BeginOpen \/ OpenNext \/ Close \/ Send \/ RecvNext
        \/ DeviceSends \/ DeviceSays

Spec == Init /\ [][Next]_vars /\ WF_vars(OpenNext) /\ WF_vars(RecvNext)
-----------------------------------------------------------------------------
(* Correctness.                                                             *)

\* What the flush of an slcan adapter left of a line, when it looks like an error
\* message.
Piece(units) ==
  LET next == SelectInSeq(units, LAMBDA u : u.i = 1)
      tail == IF next = 0 THEN units ELSE SubSeq(units, 1, next - 1)
  IN IF tail = << >> THEN << >> ELSE Slcan!Message1(Front(tail))

\* The frames that are on their way: those whose first unit is.
Due == LET way == part \o line
       IN IF ~open THEN << >>
          ELSE (IF kind = "slcan" THEN Piece(way) ELSE << >>) \o FramesIn(way)

Contract == INSTANCE AdapterContract WITH due <- Due

\* Whatever the driver, and however the stream of bytes is cut into transfers,
\* every frame is received once, whole, in order, and a failed open leaves
\* nothing behind except where AdapterContract says so.
KeepsContract == Contract!Spec

\* open() returns: its waits and retries are bounded.
OpenEnds == at # 0 ~> at = 0

\* Whatever is on its way has been received in the end, however it was cut, unless
\* the adapter is closed: nothing is kept for a transfer that does not come.
FramesArrive == []<>(Due = << >>)
=============================================================================
