---------------------------- MODULE FrameBuffer ----------------------------
(***************************************************************************)
(* frame_buffer<capacity>: the ring behind every hand-over of frames       *)
(* between threads (an I/O thread to the GUI, the replay thread to the     *)
(* GUI, the transmit scheduler to the GUI).                                *)
(*                                                                         *)
(* A critical section of one statement group is one step.  drain() is a    *)
(* loop: it takes the mutex, moves one frame per iteration and releases    *)
(* the mutex, each a step of its own, so other threads run in between and  *)
(* only the mutex keeps them away from head, tail and count.               *)
(*                                                                         *)
(* Operators named after a slip (AdvanceNoWrap, PushKeepsTail...) are      *)
(* mutants: what the definition that follows would be with that slip.      *)
(***************************************************************************)
EXTENDS Integers, Sequences

CONSTANTS Capacity,   \* the template parameter
          Frames, Threads,
          Blank       \* what a cell of buf_ holds before anything is stored

ASSUME CapacityPositive == Capacity \in Nat \ {0}
ASSUME BlankIsNoFrame == Blank \notin Frames

VARIABLES buf, head, tail, count,   \* the ring
          lock,                     \* {t} while t is inside drain(), else {}
          out,                      \* drain()'s local vector
          result, kept              \* what the operations returned, by thread

ring == <<buf, head, tail, count>>
vars == <<buf, head, tail, count, lock, out, result, kept>>

AdvanceNoWrap(i) == i + 1

Advance(i) == (i + 1) % Capacity

FreeAlways == TRUE

\* mtx_ can be taken.
Free == lock = {}

Init == /\ buf = [i \in 0 .. Capacity - 1 |-> Blank]
        /\ head = 0 /\ tail = 0 /\ count = 0
        /\ lock = {} /\ out = << >>
        /\ result = [t \in Threads |-> << >>]
        /\ kept = [t \in Threads |-> TRUE]

PushKeepsTail(t, f) ==
  /\ Free
  /\ buf' = [buf EXCEPT ![head] = f]
  /\ head' = Advance(head)
  /\ count' = IF count < Capacity THEN count + 1 ELSE count
  /\ kept' = [kept EXCEPT ![t] = count < Capacity]
  /\ UNCHANGED <<tail, lock, out, result>>

Push(t, f) ==
  /\ Free
  /\ buf' = [buf EXCEPT ![head] = f]
  /\ head' = Advance(head)
  /\ IF count < Capacity THEN count' = count + 1 /\ UNCHANGED tail
                         ELSE tail' = Advance(tail) /\ UNCHANGED count
  /\ kept' = [kept EXCEPT ![t] = count < Capacity]
  /\ UNCHANGED <<lock, out, result>>

Pop(t) ==
  /\ Free
  /\ \/ /\ count = 0
        /\ result' = [result EXCEPT ![t] = << >>]
        /\ UNCHANGED <<tail, count>>
     \/ /\ count > 0
        /\ result' = [result EXCEPT ![t] = <<buf[tail]>>]
        /\ tail' = Advance(tail)
        /\ count' = count - 1
  /\ UNCHANGED <<buf, head, lock, out, kept>>

DrainBegin(t) ==
  /\ Free
  /\ lock' = {t}
  /\ UNCHANGED <<ring, out, result, kept>>

DrainStep(t) ==
  /\ lock = {t} /\ count > 0
  /\ out' = Append(out, buf[tail])
  /\ tail' = Advance(tail)
  /\ count' = count - 1
  /\ UNCHANGED <<buf, head, lock, result, kept>>

DrainEndKeepsLock(t) ==
  /\ lock = {t} /\ count = 0
  /\ result' = [result EXCEPT ![t] = out]
  /\ out' = << >>
  /\ UNCHANGED <<ring, lock, kept>>

DrainEnd(t) ==
  /\ lock = {t} /\ count = 0
  /\ result' = [result EXCEPT ![t] = out]
  /\ out' = << >>
  /\ lock' = {}
  /\ UNCHANGED <<ring, kept>>

Clear ==
  /\ Free
  /\ head' = 0 /\ tail' = 0 /\ count' = 0
  /\ UNCHANGED <<buf, lock, out, result, kept>>

Next == \/ \E t \in Threads, f \in Frames : Push(t, f)
        \/ \E t \in Threads : Pop(t) \/ DrainBegin(t) \/ DrainStep(t) \/ DrainEnd(t)
        \/ Clear

\* A thread inside drain() keeps running; nobody is obliged to call anything.
Fairness == \A t \in Threads : WF_vars(DrainStep(t) \/ DrainEnd(t))

Spec == Init /\ [][Next]_vars
FairSpec == Spec /\ Fairness
-----------------------------------------------------------------------------

TypeOK == /\ buf \in [0 .. Capacity - 1 -> Frames \cup {Blank}]
          /\ head \in 0 .. Capacity - 1
          /\ tail \in 0 .. Capacity - 1
          /\ count \in 0 .. Capacity
          /\ lock \in SUBSET Threads
          /\ out \in Seq(Frames)
          /\ result \in [Threads -> Seq(Frames)]
          /\ kept \in [Threads -> BOOLEAN]

\* The i-th oldest frame of the ring is in this cell.
Cell(i) == (tail + i - 1) % Capacity

(* The three indices agree (head is where the frame after the newest goes), *)
(* the cells between tail and head hold frames that were pushed, and        *)
(* whatever drain() has already taken plus what is left fits the ring: no   *)
(* push slips in between.  head_, tail_ and count_ are updated by different *)
(* operations on different threads, and with the ring full or empty head    *)
(* and tail coincide, so nothing else tells the two apart.                  *)
RingInv == /\ head = (tail + count) % Capacity
           /\ \A i \in 1 .. count : buf[Cell(i)] \in Frames
           /\ Len(out) + count <= Capacity
           /\ lock = {} => out = << >>
           /\ \A t, u \in lock : t = u

Contents == [i \in 1 .. count |-> buf[Cell(i)]]

(* The ring implements the atomic drop-oldest queue.  In the middle of      *)
(* drain() the queue is what has been moved followed by what has not.       *)
Abstract == INSTANCE DropOldestQueue WITH queue <- out \o Contents
AbstractSpec == Abstract!Spec

(* A thread inside drain() leaves it and releases the mutex: the loop ends  *)
(* because nobody can push while it runs (frame_buffer.hpp:41).             *)
DrainEnds == \A t \in Threads : t \in lock ~> t \notin lock
=============================================================================
