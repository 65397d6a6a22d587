-------------------------- MODULE DropOldestQueue --------------------------
(***************************************************************************)
(* What jcan's frame_buffer promises its callers: a bounded first-in       *)
(* first-out queue of CAN frames, shared by several threads, every         *)
(* operation of which takes effect at once.  A push into a full queue      *)
(* never blocks and never refuses the new frame: it costs the oldest one.  *)
(***************************************************************************)
EXTENDS Naturals, Sequences

CONSTANTS Capacity,   \* frames the queue can hold
          Frames,     \* frames that may be pushed
          Threads     \* threads that share the queue

VARIABLES queue,      \* the frames held, oldest first
          result,     \* result[t]: the frames t's latest pop or drain returned
          kept        \* kept[t]: what t's latest push returned

vars == <<queue, result, kept>>

Init == /\ queue = << >>
        /\ result = [t \in Threads |-> << >>]
        /\ kept = [t \in Threads |-> TRUE]

Push(t, f) ==
  /\ IF Len(queue) < Capacity
     THEN queue' = Append(queue, f)
     ELSE queue' = Append(Tail(queue), f)
  /\ kept' = [kept EXCEPT ![t] = Len(queue) < Capacity]
  /\ UNCHANGED result

Pop(t) ==
  /\ \/ /\ queue = << >>
        /\ result' = [result EXCEPT ![t] = << >>]
        /\ UNCHANGED queue
     \/ /\ queue # << >>
        /\ result' = [result EXCEPT ![t] = <<Head(queue)>>]
        /\ queue' = Tail(queue)
  /\ UNCHANGED kept

Drain(t) ==
  /\ result' = [result EXCEPT ![t] = queue]
  /\ queue' = << >>
  /\ UNCHANGED kept

Clear == queue' = << >> /\ UNCHANGED <<result, kept>>

Next == \/ \E t \in Threads, f \in Frames : Push(t, f)
        \/ \E t \in Threads : Pop(t) \/ Drain(t)
        \/ Clear

Spec == Init /\ [][Next]_vars
=============================================================================
