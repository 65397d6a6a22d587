----------------------------- MODULE SlcanDriver ----------------------------
(***************************************************************************)
(* hardware_slcan.hpp: lines of text on a serial port.                     *)
(*                                                                         *)
(* A unit is a character, of which the parser sees the class c: a letter   *)
(* that begins a message ("cmd"), a digit ("hex"), the digit F, which is   *)
(* also the letter of an error message, a carriage return, or something    *)
(* else.  A frame is a command, three digits and the return; every other   *)
(* frame has digits F.  The adapter answers a command with a return after  *)
(* another character, or rings the bell.                                   *)
(***************************************************************************)
EXTENDS DriverSteps

CONSTANT AccumMax    \* 256: longer is not a line

OpenSteps ==
  << Takes("port", {}), Takes("tty", {"port"}), May("configure"),
     TakesOff(May("C")), Must("S", {}), May("M"), May("m"), PutsOn(Must("O", {})),
     DropsSome(May("flush")) >>

Text(n, classes) ==
  [i \in 1..Len(classes) |-> [n |-> n, i |-> i, len |-> Len(classes), c |-> classes[i]]]

Units(n) == LET x == IF n % 2 = 1 THEN "F" ELSE "hex" IN Text(n, <<"cmd", x, x, x, "cr">>)
Answer == Text(0, <<"other", "cr">>)
Bell == Text(0, <<"other">>)

\* parse_slcan() from the first letter that could begin a message.  An F needs
\* two characters after it; a message cut short does not parse.
Message1(line) ==
  LET p == SelectInSeq(line, LAMBDA u : u.c \in {"cmd", "F"})
      text == SubSeq(line, p, Len(line))
  IN IF p = 0 THEN << >>
     ELSE IF line[p].c = "F" THEN IF Len(text) >= 3 THEN <<Torn>> ELSE << >>
     ELSE IF Len(text) # line[p].len - 1 THEN << >>
     ELSE IF \E j \in DOMAIN text : text[j].n # line[p].n \/ text[j].i # j THEN <<Torn>>
     ELSE <<line[p].n>>

\* The loop of recv_many(): at a return what has been kept is a line.
Lines(part, chars) ==
  LET upto[j \in 0..Len(chars)] ==
        IF j = 0 THEN [frames |-> << >>, part |-> part]
        ELSE LET read == upto[j - 1]
             IN IF chars[j].c = "cr"
                THEN [frames |-> read.frames \o Message1(read.part), part |-> << >>]
                ELSE [frames |-> read.frames, part |-> Append(read.part, chars[j])]
  IN upto[Len(chars)]

\* recv_many(): part is rx_accum_.
Recv(part, chars) ==
  LET read == Lines(part, chars)
  IN IF Len(read.part) > AccumMax THEN [frames |-> read.frames, part |-> << >>] ELSE read
=============================================================================
