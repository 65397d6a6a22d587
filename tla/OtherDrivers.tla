---------------------------- MODULE OtherDrivers ----------------------------
(***************************************************************************)
(* The drivers that are given frame by frame: SocketCAN, the two Windows   *)
(* libraries, and the mocks.  A unit is a message.                         *)
(***************************************************************************)
EXTENDS DriverSteps

CONSTANT BatchSize    \* k_batch_size: what a mock produces at a time

Units(n) == Message(n, 1)

\* hardware_sock.hpp.  The interface is configured when it is not up: setting it
\* down or its bitrate may fail, getting it up may not.
SocketSteps ==
  << May("link_down"), May("link_type"), Must("link_up", {}), Takes("fd", {}),
     Must("if_index", {"fd"}), PutsOn(Must("bind", {"fd"})), May("err_filter"), May("fd_frames") >>

\* hardware_vector_xlapi.hpp.  The event for notifications is closed by close(),
\* and not when xlActivateChannel() fails.
XlSteps ==
  << Must("driver", {}), Must("config", {}), Must("channel", {}), Takes("xlport", {}),
     May("output"), May("bitrate"),
     [May("event") EXCEPT !.takes = {"event"}], DropsAll(May("flush")),
     PutsOn(Must("activate", {"xlport"})) >>

\* hardware_kvaser_canlib.hpp.
CanlibSteps ==
  << Must("load", {}), Takes("hnd", {}), Must("bus_params", {"hnd"}), May("output"),
     PutsOn(Must("bus_on", {"hnd"})) >>

\* hardware_mock.hpp: opening one fails only when it is open already.
MockSteps == << DropsAll(PutsOn(May("mock"))) >>

\* Receipts of own frames and error messages are skipped.
XlRecv(units) == FramesIn(units)

\* The kernel gives frames only, error frames among them.
SocketRecv(units) == [j \in DOMAIN units |-> units[j].n]

\* canReadWait() for the first, canRead() for those that are there already.
CanlibRecv(units) == <<units[1].n>> \o SocketRecv(Tail(units))

\* As many as are due by the clock, at most a batch.
MockRecv(units) == [j \in DOMAIN units \cap 1..BatchSize |-> units[j].n]

\* What the application sent, all of it: the list is swapped under the mutex.
EchoRecv(units) == SocketRecv(units)
=============================================================================
