----------------------------- MODULE DriverSteps ----------------------------
(***************************************************************************)
(* What the open() functions of the drivers are made of: calls of the      *)
(* operating system or of the vendor's library, in order.  A call may      *)
(* take something (a handle, a port, an interface).  When a call fails     *)
(* that open() depends on, what it releases is in the code of that early   *)
(* return; a call open() does not depend on may fail without consequence.  *)
(*                                                                         *)
(* And what a line is made of: units, each of which knows the message it   *)
(* belongs to.  n is the number of the frame, 0 for a message that is not  *)
(* a frame; i of len is the place of the unit in its message.              *)
(***************************************************************************)
EXTENDS Naturals, SequencesExt

Torn == 0     \* a frame made of a part of a message

Step(do, takes, needed, frees) ==
  [do |-> do, takes |-> takes, needed |-> needed, frees |-> frees, tries |-> 1,
   bus |-> "same", drops |-> "nothing"]

\* The call has to succeed; frees is released if it does not.
Must(do, frees) == Step(do, {}, TRUE, frees)

Takes(what, frees) == Step(what, {what}, TRUE, frees)

May(do) == Step(do, {}, FALSE, {})

Tried(times, step) == [step EXCEPT !.tries = times]

\* The call puts the device on the bus, or takes it off.
PutsOn(step) == [step EXCEPT !.bus = "on"]
TakesOff(step) == [step EXCEPT !.bus = "off"]

\* The call drops all of what has been received, or the messages of a transfer from
\* the front, or any part from the front.
DropsAll(step) == [step EXCEPT !.drops = "all"]
DropsWhole(step) == [step EXCEPT !.drops = "whole"]
DropsSome(step) == [step EXCEPT !.drops = "some"]

Message(n, len) == [i \in 1..len |-> [n |-> n, i |-> i, len |-> len]]

\* The frames that begin among the units, one after the other.
FramesIn(units) ==
  LET from[j \in 1..(Len(units) + 1)] ==
        IF j > Len(units) THEN << >>
        ELSE (IF units[j].i = 1 /\ units[j].n > 0 THEN <<units[j].n>> ELSE << >>) \o from[j + 1]
  IN from[1]
=============================================================================
