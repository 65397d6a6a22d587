--------------------------- MODULE AdapterContract --------------------------
(***************************************************************************)
(* What the application may expect of an adapter, whatever its driver.     *)
(* open() either returns with the device on the bus or leaves nothing      *)
(* behind.  From then on every frame the device hands over is received     *)
(* once, whole, in order, until close() gives everything back.             *)
(*                                                                         *)
(* Where drivers keep less than that, this is said here: two leave         *)
(* something open when open() fails, one may begin with a piece of a       *)
(* frame, and a caller of recv() gets only the first frame of a batch.     *)
(***************************************************************************)
EXTENDS Naturals, Sequences

CONSTANTS Kinds, Torn

VARIABLES kind,    \* of driver
          caller,  \* "gui" receives with recv_many(), "cli" with recv()
          open,    \* open() has returned success, close() has not been called
          left,    \* what failed opens did not give back
          sent,    \* frames the device has handed over, they are numbered
          due,     \* those that are still to be received
          got      \* those received since open()

vars == <<kind, caller, open, left, sent, due, got>>

Init == /\ kind \in Kinds /\ caller \in {"gui", "cli"}
        /\ open = FALSE /\ left = {} /\ sent = 0 /\ due = << >> /\ got = << >>

Frames(i, j) == [m \in 1..(j - i + 1) |-> i + m - 1]

\* What came while open() was at work may or may not be received.
Open == /\ ~open /\ open' = TRUE
        /\ \E i \in 1..(sent + 1), piece \in {<< >>} \cup (IF kind = "slcan" THEN {<<Torn>>} ELSE {}) :
             due' = piece \o Frames(i, sent)
        /\ got' = << >>
        /\ UNCHANGED <<kind, caller, left, sent>>

\* A failed open of any other driver changes nothing.
OpenLeaves == /\ ~open
              /\ \/ kind = "slcan" /\ left' = left \cup {"port", "tty"}
                 \/ kind = "xl" /\ left' = left \cup {"event"}
              /\ UNCHANGED <<kind, caller, open, sent, due, got>>

Frame == /\ sent' = sent + 1
         /\ due' = IF open THEN Append(due, sent + 1) ELSE due
         /\ UNCHANGED <<kind, caller, open, left, got>>

Receive == /\ open
           /\ \E k \in 1..Len(due) :
                /\ got' = got \o SubSeq(due, 1, IF caller = "gui" THEN k ELSE 1)
                /\ due' = SubSeq(due, k + 1, Len(due))
           /\ UNCHANGED <<kind, caller, open, left, sent>>

Close == /\ open /\ open' = FALSE
         /\ due' = << >> /\ got' = << >>
         /\ UNCHANGED <<kind, caller, left, sent>>

Next == Open \/ OpenLeaves \/ Frame \/ Receive \/ Close

Spec == Init /\ [][Next]_vars
=============================================================================
