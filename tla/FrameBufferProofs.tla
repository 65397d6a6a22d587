------------------------- MODULE FrameBufferProofs -------------------------
(***************************************************************************)
(* For every capacity, every set of frames and every set of threads: the   *)
(* ring of FrameBuffer is well formed, and it implements DropOldestQueue.  *)
(***************************************************************************)
EXTENDS FrameBuffer, SequenceTheorems, TLAPS

-----------------------------------------------------------------------------
(* The wrap-around of an index is linear: every index of the ring stays     *)
(* below twice the capacity, where % subtracts the capacity at most once.   *)
LEMMA Wrap ==
  ASSUME NEW s \in 0 .. Capacity - 1, NEW n \in 0 .. Capacity
  PROVE  /\ (s + n) % Capacity = IF s + n < Capacity THEN s + n ELSE s + n - Capacity
         /\ (s + n) % Capacity \in 0 .. Capacity - 1
  BY CapacityPositive

(* The i-th oldest frame of a ring whose oldest frame is in cell s.         *)
LEMMA CellOf ==
  ASSUME NEW s \in 0 .. Capacity - 1, NEW i \in 1 .. Capacity
  PROVE  /\ (s + i - 1) % Capacity = IF s + i - 1 < Capacity
                                     THEN s + i - 1 ELSE s + i - 1 - Capacity
         /\ (s + i - 1) % Capacity \in 0 .. Capacity - 1
  BY CapacityPositive

IInv == TypeOK /\ RingInv

(* The cells that hold frames are distinct from the one the next push       *)
(* writes, unless the ring is full.                                         *)
LEMMA CellFacts ==
  ASSUME IInv, NEW i \in 1 .. count
  PROVE  /\ Cell(i) = IF tail + i - 1 < Capacity THEN tail + i - 1
                                                 ELSE tail + i - 1 - Capacity
         /\ Cell(i) \in 0 .. Capacity - 1
         /\ buf[Cell(i)] \in Frames
         /\ Cell(1) = tail
         /\ count < Capacity => Cell(i) # head
  <1>1. tail \in 0 .. Capacity - 1 /\ count \in 0 .. Capacity /\ i \in 1 .. Capacity
    BY CapacityPositive DEF IInv, TypeOK
  <1>2. 1 \in 1 .. Capacity
    BY CapacityPositive
  <1>3. Cell(1) = tail
    BY <1>1, <1>2, CellOf, CapacityPositive DEF Cell
  <1>4. head = IF tail + count < Capacity THEN tail + count ELSE tail + count - Capacity
    BY <1>1, Wrap, CapacityPositive DEF IInv, RingInv
  <1>5. /\ Cell(i) = IF tail + i - 1 < Capacity THEN tail + i - 1
                                                ELSE tail + i - 1 - Capacity
        /\ Cell(i) \in 0 .. Capacity - 1
    BY <1>1, CellOf DEF Cell
  <1>6. count < Capacity => Cell(i) # head
    BY <1>1, <1>4, <1>5, CapacityPositive
  <1>7. QED
    BY <1>3, <1>5, <1>6 DEF IInv, RingInv

\* A new ring satisfies the invariant.
LEMMA InitInv == Init => IInv
  <1> SUFFICES ASSUME Init PROVE IInv
    OBVIOUS
  <1>1. 0 % Capacity = 0
    BY CapacityPositive
  <1>2. TypeOK
    BY CapacityPositive DEF Init, TypeOK
  <1>3. RingInv
    BY <1>1, CapacityPositive DEF Init, RingInv
  <1>4. QED
    BY <1>2, <1>3 DEF IInv

(* What moving an index one cell further does.                              *)
LEMMA AdvanceFacts ==
  ASSUME IInv
  PROVE  /\ Advance(head) = IF head + 1 < Capacity THEN head + 1 ELSE 0
         /\ Advance(tail) = IF tail + 1 < Capacity THEN tail + 1 ELSE 0
         /\ head = IF tail + count < Capacity THEN tail + count
                                              ELSE tail + count - Capacity
  <1>1. /\ head \in 0 .. Capacity - 1 /\ tail \in 0 .. Capacity - 1
        /\ count \in 0 .. Capacity /\ 1 \in 0 .. Capacity
    BY CapacityPositive DEF IInv, TypeOK
  <1>2. (head + 1) % Capacity = IF head + 1 < Capacity THEN head + 1 ELSE head + 1 - Capacity
    BY <1>1, Wrap
  <1>3. (tail + 1) % Capacity = IF tail + 1 < Capacity THEN tail + 1 ELSE tail + 1 - Capacity
    BY <1>1, Wrap
  <1>4. head = IF tail + count < Capacity THEN tail + count ELSE tail + count - Capacity
    BY <1>1, Wrap DEF IInv, RingInv
  <1>5. QED
    BY <1>1, <1>2, <1>3, <1>4, CapacityPositive DEF Advance

\* A push keeps the invariant, whether or not it overwrites.
LEMMA PushInv ==
  ASSUME IInv, NEW t \in Threads, NEW f \in Frames, Push(t, f)
  PROVE  IInv'
  <1>1. TypeOK'
    BY AdvanceFacts, CapacityPositive DEF Push, IInv, TypeOK
  <1>2. tail' \in 0 .. Capacity - 1 /\ count' \in 0 .. Capacity
    BY <1>1 DEF TypeOK
  <1>3. head' = (tail' + count') % Capacity
    <2>1. (tail' + count') % Capacity = IF tail' + count' < Capacity
                                        THEN tail' + count' ELSE tail' + count' - Capacity
      BY <1>2, Wrap
    <2>2. head' = IF head + 1 < Capacity THEN head + 1 ELSE 0
      BY AdvanceFacts DEF Push
    <2>3. CASE count < Capacity
      <3>1. tail' = tail /\ count' = count + 1
        BY <2>3 DEF Push
      <3>2. QED
        BY <1>2, <2>1, <2>2, <2>3, <3>1, AdvanceFacts, CapacityPositive DEF IInv, TypeOK
    <2>4. CASE count = Capacity
      <3>1. tail' = (IF tail + 1 < Capacity THEN tail + 1 ELSE 0) /\ count' = count
        BY <2>4, AdvanceFacts, CapacityPositive DEF Push
      <3>2. QED
        BY <1>2, <2>1, <2>2, <2>4, <3>1, AdvanceFacts, CapacityPositive DEF IInv, TypeOK
    <2>5. QED
      BY <2>3, <2>4, CapacityPositive DEF IInv, TypeOK
  <1>4. ASSUME NEW i \in 1 .. count' PROVE buf'[Cell(i)'] \in Frames
    <2>1. i \in 1 .. Capacity
      BY <1>2, CapacityPositive
    <2>2. Cell(i)' = IF tail' + i - 1 < Capacity THEN tail' + i - 1
                                                 ELSE tail' + i - 1 - Capacity
      BY <1>2, <2>1, CellOf DEF Cell
    <2>3. CASE i \in 1 .. count /\ count < Capacity
      BY <2>2, <2>3, CellFacts DEF Push, IInv, TypeOK, Cell
    <2>4. CASE i = count + 1 /\ count < Capacity
      BY <2>2, <2>4, AdvanceFacts, CapacityPositive DEF Push, IInv, TypeOK
    <2>5. CASE count = Capacity /\ i < Capacity
      <3>1. i + 1 \in 1 .. count
        BY <2>5, CapacityPositive DEF IInv, TypeOK, Push
      <3>2. Cell(i + 1) = IF tail + (i + 1) - 1 < Capacity
                          THEN tail + (i + 1) - 1 ELSE tail + (i + 1) - 1 - Capacity
        BY <3>1, CellFacts
      <3>3. tail' = IF tail + 1 < Capacity THEN tail + 1 ELSE 0
        BY <2>5, AdvanceFacts, CapacityPositive DEF Push, IInv, TypeOK
      <3>4. Cell(i + 1) = Cell(i)'
        BY <2>1, <2>2, <2>5, <3>2, <3>3, CapacityPositive DEF IInv, TypeOK
      <3>5. Cell(i)' # head
        <4>1. head = tail
          BY <2>5, AdvanceFacts, CapacityPositive DEF IInv, TypeOK
        <4>2. QED
          BY <2>1, <2>2, <2>5, <3>3, <4>1, CapacityPositive DEF IInv, TypeOK
      <3>6. buf[Cell(i + 1)] \in Frames
        BY <3>1, CellFacts
      <3>7. QED
        BY <3>4, <3>5, <3>6 DEF Push, IInv, TypeOK
    <2>6. CASE count = Capacity /\ i = Capacity
      BY <2>2, <2>6, AdvanceFacts, CapacityPositive DEF Push, IInv, TypeOK
    <2>7. QED
      BY <2>3, <2>4, <2>5, <2>6, CapacityPositive DEF Push, IInv, TypeOK
  <1>5. Len(out') + count' <= Capacity /\ out' = << >>
    BY CapacityPositive DEF Push, Free, IInv, TypeOK, RingInv
  <1>6. QED
    BY <1>1, <1>3, <1>4, <1>5 DEF IInv, RingInv, Push, Free

(* Taking the oldest frame, whether pop() or an iteration of drain() does. *)
LEMMA TakeFacts ==
  ASSUME IInv, count > 0, tail' = Advance(tail), count' = count - 1,
         UNCHANGED <<buf, head>>
  PROVE  /\ tail' \in 0 .. Capacity - 1 /\ count' \in 0 .. Capacity
         /\ head' = (tail' + count') % Capacity
         /\ buf[tail] \in Frames
         /\ \A i \in 1 .. count' : i + 1 \in 1 .. count /\ Cell(i)' = Cell(i + 1)
         /\ \A i \in 1 .. count' : buf'[Cell(i)'] \in Frames
  <1>1. tail' \in 0 .. Capacity - 1 /\ count' \in 0 .. Capacity
    BY AdvanceFacts, CapacityPositive DEF IInv, TypeOK
  <1>2. (tail' + count') % Capacity = IF tail' + count' < Capacity
                                      THEN tail' + count' ELSE tail' + count' - Capacity
    BY <1>1, Wrap
  <1>3. head' = (tail' + count') % Capacity
    <2>1. tail' = IF tail + 1 < Capacity THEN tail + 1 ELSE 0
      BY AdvanceFacts
    <2>2. head' = head /\ head = IF tail + count < Capacity THEN tail + count
                                                            ELSE tail + count - Capacity
      BY AdvanceFacts
    <2>3. tail \in 0 .. Capacity - 1 /\ count \in 1 .. Capacity /\ count' = count - 1
      BY DEF IInv, TypeOK
    <2>4. QED
      BY <1>2, <2>1, <2>2, <2>3, CapacityPositive
  <1>4. buf[tail] \in Frames
    <2>1. 1 \in 1 .. count
      BY DEF IInv, TypeOK
    <2>2. QED
      BY <2>1, CellFacts
  <1>5. ASSUME NEW i \in 1 .. count'
        PROVE  i + 1 \in 1 .. count /\ Cell(i)' = Cell(i + 1)
    <2>1. i + 1 \in 1 .. count
      BY DEF IInv, TypeOK
    <2>2. i \in 1 .. Capacity
      BY <1>1, CapacityPositive
    <2>3. (tail' + i - 1) % Capacity = IF tail' + i - 1 < Capacity
                                       THEN tail' + i - 1 ELSE tail' + i - 1 - Capacity
      BY <1>1, <2>2, CellOf
    <2>4. Cell(i + 1) = IF tail + (i + 1) - 1 < Capacity
                        THEN tail + (i + 1) - 1 ELSE tail + (i + 1) - 1 - Capacity
      BY <2>1, CellFacts
    <2>5. (tail' + i - 1) % Capacity = Cell(i + 1)
      BY <2>2, <2>3, <2>4, AdvanceFacts, CapacityPositive DEF IInv, TypeOK
    <2>6. QED
      BY <2>1, <2>5 DEF Cell
  <1>6. \A i \in 1 .. count' : buf'[Cell(i)'] \in Frames
    BY <1>5, CellFacts
  <1>7. QED
    BY <1>1, <1>3, <1>4, <1>5, <1>6

\* A pop keeps the invariant.
LEMMA PopInv ==
  ASSUME IInv, NEW t \in Threads, Pop(t)
  PROVE  IInv'
  <1>1. CASE count = 0
    <2>1. UNCHANGED <<buf, head, tail, count, lock, out, kept>>
      BY <1>1 DEF Pop, IInv, TypeOK
    <2>2. result' \in [Threads -> Seq(Frames)]
      <3>1. << >> \in Seq(Frames)
        OBVIOUS
      <3>2. result' = [result EXCEPT ![t] = << >>]
        BY <1>1 DEF Pop
      <3>3. QED
        BY <3>1, <3>2 DEF IInv, TypeOK
    <2>3. QED
      BY <2>1, <2>2 DEF IInv, TypeOK, RingInv, Cell
  <1>2. CASE count > 0
    <2>1. /\ tail' = Advance(tail) /\ count' = count - 1
          /\ UNCHANGED <<buf, head, lock, out, kept>>
          /\ result' = [result EXCEPT ![t] = <<buf[tail]>>]
      BY <1>2 DEF Pop, IInv, TypeOK
    <2>2. /\ tail' \in 0 .. Capacity - 1 /\ count' \in 0 .. Capacity
          /\ head' = (tail' + count') % Capacity
          /\ buf[tail] \in Frames
          /\ \A i \in 1 .. count' : buf'[Cell(i)'] \in Frames
      BY <1>2, <2>1, TakeFacts
    <2>3. result' \in [Threads -> Seq(Frames)]
      BY <2>1, <2>2 DEF IInv, TypeOK
    <2>4. TypeOK'
      BY <2>1, <2>2, <2>3 DEF IInv, TypeOK
    <2>5. Len(out) + count' <= Capacity
      <3>1. Len(out) \in Nat /\ Len(out) + count <= Capacity
        BY DEF IInv, TypeOK, RingInv
      <3>2. PICK n \in 0 .. Capacity : n = count' /\ n = count - 1
        BY <2>1, <2>2
      <3>3. Len(out) + n <= Capacity
        BY <3>1, <3>2, CapacityPositive DEF IInv, TypeOK
      <3>4. QED
        BY <3>2, <3>3
    <2>6. RingInv'
      BY <2>1, <2>2, <2>5 DEF IInv, RingInv
    <2>7. QED
      BY <2>4, <2>6 DEF IInv
  <1>3. QED
    BY <1>1, <1>2 DEF IInv, TypeOK

\* One iteration of drain() keeps the invariant.
LEMMA DrainStepInv ==
  ASSUME IInv, NEW t \in Threads, DrainStep(t)
  PROVE  IInv'
  <1>1. /\ tail' \in 0 .. Capacity - 1 /\ count' \in 0 .. Capacity
        /\ head' = (tail' + count') % Capacity
        /\ buf[tail] \in Frames
        /\ \A i \in 1 .. count' : buf'[Cell(i)'] \in Frames
    BY TakeFacts DEF DrainStep
  <1>2. out' \in Seq(Frames) /\ Len(out') = Len(out) + 1
    BY <1>1 DEF DrainStep, IInv, TypeOK
  <1>3. Len(out') + count' <= Capacity
    BY <1>2, CapacityPositive DEF DrainStep, IInv, TypeOK, RingInv
  <1>4. QED
    BY <1>1, <1>2, <1>3 DEF DrainStep, IInv, TypeOK, RingInv

\* The invariant is inductive.
LEMMA NextInv == IInv /\ [Next]_vars => IInv'
  <1> SUFFICES ASSUME IInv, [Next]_vars PROVE IInv'
    OBVIOUS
  <1>1. ASSUME NEW t \in Threads, NEW f \in Frames, Push(t, f) PROVE IInv'
    BY <1>1, PushInv
  <1>2. ASSUME NEW t \in Threads, Pop(t) PROVE IInv'
    BY <1>2, PopInv
  <1>3. ASSUME NEW t \in Threads, DrainBegin(t) PROVE IInv'
    BY <1>3 DEF DrainBegin, Free, ring, IInv, TypeOK, RingInv, Cell
  <1>4. ASSUME NEW t \in Threads, DrainStep(t) PROVE IInv'
    BY <1>4, DrainStepInv
  <1>5. ASSUME NEW t \in Threads, DrainEnd(t) PROVE IInv'
    BY <1>5, CapacityPositive DEF DrainEnd, ring, IInv, TypeOK, RingInv, Cell
  <1>6. CASE Clear
    <2>1. 0 % Capacity = 0
      BY CapacityPositive
    <2>2. QED
      BY <1>6, <2>1, CapacityPositive DEF Clear, Free, IInv, TypeOK, RingInv, Cell
  <1>7. CASE UNCHANGED vars
    BY <1>7 DEF vars, IInv, TypeOK, RingInv, Cell
  <1>8. QED
    BY <1>1, <1>2, <1>3, <1>4, <1>5, <1>6, <1>7 DEF Next

(* For every capacity, the three indices, the cells and the vector under    *)
(* construction stay well formed under any interleaving of push, pop,       *)
(* drain and clear (frame_buffer.hpp:16-62).                                *)
THEOREM RingCorrect == Spec => [](TypeOK /\ RingInv)
  <1>1. Spec => []IInv
    BY InitInv, NextInv, PTL DEF Spec
  <1>2. QED
    BY <1>1, PTL DEF IInv

(* The members and the results of every call have their types: no index is  *)
(* ever outside the array, no cell under an index is unwritten              *)
(* (frame_buffer.hpp:16-62).                                                *)
THEOREM RingTypes == Spec => []TypeOK
  BY RingCorrect, PTL

-----------------------------------------------------------------------------
(* The frames of a ring as a sequence: b is the array, s the cell of the    *)
(* oldest frame, n the number of frames.                                    *)
LEMMA RingAsSeq ==
  ASSUME NEW b, NEW s \in 0 .. Capacity - 1, NEW n \in 0 .. Capacity,
         \A i \in 1 .. n : b[(s + i - 1) % Capacity] \in Frames
  PROVE  /\ [i \in 1 .. n |-> b[(s + i - 1) % Capacity]] \in Seq(Frames)
         /\ Len([i \in 1 .. n |-> b[(s + i - 1) % Capacity]]) = n
  <1>1. n \in Nat
    BY CapacityPositive
  <1>2. [i \in 1 .. n |-> b[(s + i - 1) % Capacity]] \in [1 .. n -> Frames]
    OBVIOUS
  <1>3. QED
    BY <1>1, <1>2

\* The contents of a well-formed ring are a sequence of count frames.
LEMMA ContentsFacts ==
  ASSUME IInv
  PROVE  /\ Contents \in Seq(Frames) /\ Len(Contents) = count
         /\ \A i \in 1 .. count : Contents[i] = buf[Cell(i)]
         /\ count = 0 => Contents = << >>
         /\ count > 0 => /\ Contents # << >>
                         /\ Head(Contents) = buf[tail]
                         /\ Tail(Contents) \in Seq(Frames)
                         /\ Len(Tail(Contents)) = count - 1
                         /\ \A i \in 1 .. count - 1 : Tail(Contents)[i] = buf[Cell(i + 1)]
  <1>1. tail \in 0 .. Capacity - 1 /\ count \in 0 .. Capacity /\ count \in Nat
    BY CapacityPositive DEF IInv, TypeOK
  <1>2. \A i \in 1 .. count : buf[(tail + i - 1) % Capacity] \in Frames
    BY CellFacts DEF Cell
  <1>3. Contents \in Seq(Frames) /\ Len(Contents) = count
    BY <1>1, <1>2, RingAsSeq DEF Contents, Cell
  <1>4. \A i \in 1 .. count : Contents[i] = buf[Cell(i)]
    BY DEF Contents
  <1>5. count = 0 => Contents = << >>
    BY <1>3, EmptySeq
  <1>6. ASSUME count > 0
        PROVE  /\ Contents # << >>
               /\ Head(Contents) = buf[tail]
               /\ Tail(Contents) \in Seq(Frames)
               /\ Len(Tail(Contents)) = count - 1
               /\ \A i \in 1 .. count - 1 : Tail(Contents)[i] = buf[Cell(i + 1)]
    <2>1. 1 \in 1 .. count /\ Contents # << >>
      BY <1>1, <1>3, <1>6
    <2>2. Head(Contents) = Contents[1]
      BY <1>3, <2>1
    <2>3. Head(Contents) = buf[tail]
      BY <1>4, <2>1, <2>2, CellFacts
    <2>4. /\ Tail(Contents) \in Seq(Frames)
          /\ Len(Tail(Contents)) = count - 1
          /\ \A i \in 1 .. count - 1 : Tail(Contents)[i] = Contents[i + 1]
      BY <1>3, <2>1, HeadTailProperties
    <2>5. \A i \in 1 .. count - 1 : i + 1 \in 1 .. count
      BY <1>1
    <2>6. QED
      BY <1>4, <2>1, <2>3, <2>4, <2>5
  <1>7. QED
    BY <1>3, <1>4, <1>5, <1>6

\* The abstract queue behind a state of the ring.
Q == out \o Contents

\* The frames taken and the frames held are a sequence of frames.
LEMMA QFacts ==
  ASSUME IInv
  PROVE  /\ Q \in Seq(Frames) /\ Len(Q) = Len(out) + count
         /\ lock = {} => Q = Contents
  <1>1. out \in Seq(Frames) /\ Contents \in Seq(Frames) /\ Len(Contents) = count
    BY ContentsFacts DEF IInv, TypeOK
  <1>2. Q \in Seq(Frames) /\ Len(Q) = Len(out) + count
    BY <1>1, ConcatProperties DEF Q
  <1>3. lock = {} => Q = Contents
    BY <1>1, ConcatEmptySeq DEF Q, IInv, RingInv
  <1>4. QED
    BY <1>2, <1>3

\* Taking the oldest frame takes the head of the contents.
LEMMA TakeContents ==
  ASSUME IInv, count > 0, tail' = Advance(tail), count' = count - 1,
         UNCHANGED <<buf, head>>
  PROVE  Contents' = Tail(Contents)
  <1>1. /\ tail' \in 0 .. Capacity - 1 /\ count' \in 0 .. Capacity
        /\ \A i \in 1 .. count' : Cell(i)' = Cell(i + 1) /\ buf'[Cell(i)'] \in Frames
    BY TakeFacts
  <1>2. \A i \in 1 .. count' : buf'[(tail' + i - 1) % Capacity] \in Frames
    BY <1>1 DEF Cell
  <1>3. Contents' \in Seq(Frames) /\ Len(Contents') = count'
    BY <1>1, <1>2, RingAsSeq DEF Contents, Cell
  <1>4. /\ Tail(Contents) \in Seq(Frames) /\ Len(Tail(Contents)) = count'
        /\ \A i \in 1 .. count' : Tail(Contents)[i] = buf[Cell(i + 1)]
    BY ContentsFacts
  <1>5. \A i \in 1 .. count' : Contents'[i] = buf'[Cell(i)']
    BY DEF Contents
  <1>6. \A i \in 1 .. count' : Contents'[i] = Tail(Contents)[i]
    BY <1>1, <1>4, <1>5
  <1>7. QED
    BY <1>3, <1>4, <1>6, SeqEqual

(* A sequence that holds the frames of Old and then f is Append(Old, f).    *)
LEMMA AppendIs ==
  ASSUME NEW Old \in Seq(Frames), NEW f \in Frames, NEW R \in Seq(Frames),
         NEW n \in Nat \ {0}, Len(R) = n, Len(Old) = n - 1,
         \A i \in 1 .. n - 1 : R[i] = Old[i],
         R[n] = f
  PROVE  R = Append(Old, f)
  <1>1. Len(Old) + 1 = n /\ \A i \in 1 .. n : i = n \/ i \in 1 .. Len(Old)
    OBVIOUS
  <1>2. /\ Append(Old, f) \in Seq(Frames) /\ Len(Append(Old, f)) = n
        /\ \A i \in 1 .. Len(Old) : Append(Old, f)[i] = Old[i]
        /\ Append(Old, f)[n] = f
    BY <1>1, AppendProperties
  <1>3. \A i \in 1 .. n : R[i] = Append(Old, f)[i]
    BY <1>1, <1>2
  <1>4. QED
    BY <1>2, <1>3, SeqEqual

\* A push appends to the contents, dropping their head when the ring is full.
LEMMA PushContents ==
  ASSUME IInv, NEW t \in Threads, NEW f \in Frames, Push(t, f)
  PROVE  Contents' = IF count < Capacity THEN Append(Contents, f)
                                         ELSE Append(Tail(Contents), f)
  <1>1. /\ head \in 0 .. Capacity - 1 /\ tail \in 0 .. Capacity - 1
        /\ count \in 0 .. Capacity /\ count \in Nat
        /\ buf'[head] = f
        /\ \A c \in 0 .. Capacity - 1 : c # head => buf'[c] = buf[c]
    BY CapacityPositive DEF Push, IInv, TypeOK
  <1>2. IInv'
    BY PushInv
  <1>3. Contents' \in Seq(Frames) /\ Len(Contents') = count'
    <2>1. PICK s \in 0 .. Capacity - 1, n \in 0 .. Capacity : tail' = s /\ count' = n
      BY <1>2 DEF IInv, TypeOK
    <2>2. \A i \in 1 .. n : buf'[(s + i - 1) % Capacity] \in Frames
      BY <1>2, <2>1 DEF IInv, RingInv, Cell
    <2>3. Contents' = [i \in 1 .. n |-> buf'[(s + i - 1) % Capacity]]
      BY <2>1 DEF Contents, Cell
    <2>4. QED
      BY <2>1, <2>2, <2>3, RingAsSeq
  <1>4. CASE count < Capacity
    <2>1. tail' = tail /\ count' = count + 1 /\ count + 1 \in Nat \ {0}
      BY <1>1, <1>4 DEF Push
    <2>2. \A i \in 1 .. count + 1 : Contents'[i] = buf'[(tail + i - 1) % Capacity]
      BY <2>1 DEF Contents, Cell
    <2>3. count + 1 \in 1 .. count + 1 /\ (tail + (count + 1) - 1) % Capacity = head
      <3>1. (tail + count) % Capacity = head /\ tail + (count + 1) - 1 = tail + count
        BY <1>1 DEF IInv, RingInv
      <3>2. QED
        BY <1>1, <3>1
    <2>4. Contents'[count + 1] = f
      BY <1>1, <2>2, <2>3
    <2>5. ASSUME NEW i \in 1 .. (count + 1) - 1
          PROVE  Contents'[i] = Contents[i]
      <3>1. i \in 1 .. count /\ i \in 1 .. count + 1
        BY <1>1
      <3>2. /\ Cell(i) \in 0 .. Capacity - 1 /\ Cell(i) # head
            /\ Contents[i] = buf[Cell(i)]
        BY <1>4, <3>1, CellFacts, ContentsFacts
      <3>3. QED
        BY <1>1, <2>2, <3>1, <3>2 DEF Cell
    <2>6. Contents \in Seq(Frames) /\ Len(Contents) = (count + 1) - 1
      BY <1>1, ContentsFacts
    <2>7. Len(Contents') = count + 1
      BY <1>3, <2>1
    <2>8. Contents' = Append(Contents, f)
      BY <1>3, <2>1, <2>4, <2>5, <2>6, <2>7, AppendIs
    <2>9. QED
      BY <1>4, <2>8
  <1>5. CASE count = Capacity
    <2> DEFINE s == IF tail + 1 < Capacity THEN tail + 1 ELSE 0
    <2>1. /\ tail' = s /\ count' = count /\ head = tail
          /\ s \in 0 .. Capacity - 1 /\ count \in 1 .. Capacity
      BY <1>1, <1>5, AdvanceFacts, CapacityPositive DEF Push
    <2>2. \A i \in 1 .. count : (s + i - 1) % Capacity =
             IF s + i - 1 < Capacity THEN s + i - 1 ELSE s + i - 1 - Capacity
      BY <1>5, <2>1, CellOf
    <2>3. (s + count - 1) % Capacity = head /\ count \in 1 .. count
      BY <1>1, <1>5, <2>1, <2>2, CapacityPositive
    <2>4. ASSUME NEW i \in 1 .. count - 1
          PROVE  buf'[(s + i - 1) % Capacity] = Tail(Contents)[i]
      <3>1. i \in 1 .. count /\ i + 1 \in 1 .. count /\ i < Capacity
        BY <1>1, <1>5, CapacityPositive
      <3>2. Cell(i + 1) = IF tail + (i + 1) - 1 < Capacity
                          THEN tail + (i + 1) - 1 ELSE tail + (i + 1) - 1 - Capacity
        BY <3>1, CellFacts
      <3>3. (s + i - 1) % Capacity = Cell(i + 1) /\ Cell(i + 1) # head
        BY <1>1, <2>1, <2>2, <3>1, <3>2, CapacityPositive
      <3>4. Cell(i + 1) \in 0 .. Capacity - 1
        BY <3>1, CellFacts
      <3>5. QED
        BY <1>1, <2>1, <3>3, <3>4, ContentsFacts
    <2> HIDE DEF s
    <2>5. \A i \in 1 .. count : Contents'[i] = buf'[(s + i - 1) % Capacity]
      BY <2>1 DEF Contents, Cell
    <2>6. Contents'[count] = f
      BY <1>1, <2>3, <2>5
    <2>7. \A i \in 1 .. count - 1 : Contents'[i] = Tail(Contents)[i]
      <3>1. \A i \in 1 .. count - 1 : i \in 1 .. count
        BY <1>1
      <3>2. QED
        BY <2>4, <2>5, <3>1
    <2>8. /\ Tail(Contents) \in Seq(Frames) /\ Len(Tail(Contents)) = count - 1
          /\ Len(Contents') = count /\ count \in Nat \ {0}
      BY <1>1, <1>3, <2>1, ContentsFacts
    <2>9. Contents' = Append(Tail(Contents), f)
      BY <1>3, <2>6, <2>7, <2>8, AppendIs
    <2>10. QED
      BY <1>1, <1>5, <2>9, CapacityPositive
  <1>6. count < Capacity \/ count = Capacity
    BY CapacityPositive DEF IInv, TypeOK
  <1>7. QED
    BY <1>4, <1>5, <1>6

\* Every step of the ring is a step of the queue, or leaves the queue as it is.
LEMMA StepRefines ==
  ASSUME IInv, [Next]_vars
  PROVE  [Abstract!Next]_(Abstract!vars)
  <1> USE DEF Q
  <1>1. ASSUME NEW t \in Threads, NEW f \in Frames, Push(t, f)
        PROVE  Abstract!Push(t, f)
    <2>1. out = << >> /\ out' = << >>
      BY <1>1 DEF Push, Free, IInv, RingInv
    <2>2. IInv'
      BY <1>1, PushInv
    <2>3. Contents \in Seq(Frames) /\ Len(Contents) = count /\ Q = Contents
      BY <1>1, ContentsFacts, QFacts DEF Push, Free
    <2>4. Contents' = IF count < Capacity THEN Append(Contents, f)
                                          ELSE Append(Tail(Contents), f)
      BY <1>1, PushContents
    <2>5. Q' = Contents'
      <3>1. tail' \in 0 .. Capacity - 1 /\ count' \in 0 .. Capacity
        BY <2>2 DEF IInv, TypeOK
      <3>2. \A i \in 1 .. count' : buf'[(tail' + i - 1) % Capacity] \in Frames
        BY <2>2 DEF IInv, RingInv, Cell
      <3>3. Contents' \in Seq(Frames)
        BY <3>1, <3>2, RingAsSeq DEF Contents, Cell
      <3>4. QED
        BY <2>1, <3>3, ConcatEmptySeq
    <2>6. QED
      BY <1>1, <2>3, <2>4, <2>5 DEF Push, Abstract!Push
  <1>2. ASSUME NEW t \in Threads, Pop(t)
        PROVE  Abstract!Pop(t)
    <2>1. out = << >> /\ out' = << >> /\ Q = Contents /\ count \in Nat
      BY <1>2, QFacts, CapacityPositive DEF Pop, Free, IInv, TypeOK, RingInv
    <2>2. CASE count = 0
      <3>1. Contents = << >> /\ Contents' = Contents /\ Q' = Q
        BY <1>2, <2>2, ContentsFacts DEF Pop, Contents, Cell
      <3>2. QED
        BY <1>2, <2>1, <2>2, <3>1 DEF Pop, Abstract!Pop
    <2>3. CASE count > 0
      <3>1. /\ result' = [result EXCEPT ![t] = <<buf[tail]>>]
            /\ tail' = Advance(tail) /\ count' = count - 1
            /\ UNCHANGED <<buf, head, lock, out, kept>>
        BY <1>2, <2>3, <2>1 DEF Pop
      <3>2. Contents' = Tail(Contents)
        BY <2>3, <3>1, TakeContents
      <3>3. /\ Contents # << >> /\ Head(Contents) = buf[tail]
            /\ Tail(Contents) \in Seq(Frames)
        BY <2>3, ContentsFacts
      <3>4. Q' = Tail(Contents)
        BY <2>1, <3>2, <3>3, ConcatEmptySeq
      <3>5. QED
        BY <2>1, <3>1, <3>3, <3>4 DEF Abstract!Pop
    <2>4. QED
      BY <2>1, <2>2, <2>3
  <1>3. ASSUME NEW t \in Threads, DrainBegin(t)
        PROVE  UNCHANGED Abstract!vars
    BY <1>3 DEF DrainBegin, ring, Contents, Cell, Abstract!vars
  <1>4. ASSUME NEW t \in Threads, DrainStep(t)
        PROVE  UNCHANGED Abstract!vars
    <2>1. /\ out \in Seq(Frames) /\ Contents \in Seq(Frames) /\ Contents # << >>
          /\ Head(Contents) = buf[tail] /\ Tail(Contents) \in Seq(Frames)
          /\ buf[tail] \in Frames
      BY <1>4, ContentsFacts, TakeFacts DEF DrainStep, IInv, TypeOK
    <2>2. Contents' = Tail(Contents) /\ out' = out \o <<buf[tail]>>
      BY <1>4, <2>1, TakeContents, AppendIsConcat DEF DrainStep
    <2>3. <<buf[tail]>> \o Tail(Contents) = Contents
      <3>1. <<buf[tail]>> \in Seq(Frames) /\ Len(<<buf[tail]>>) = 1
        BY <2>1
      <3>2. /\ Len(Tail(Contents)) = Len(Contents) - 1
            /\ \A i \in 1 .. Len(Tail(Contents)) : Tail(Contents)[i] = Contents[i + 1]
        BY <2>1, HeadTailProperties
      <3>3. /\ <<buf[tail]>> \o Tail(Contents) \in Seq(Frames)
            /\ Len(<<buf[tail]>> \o Tail(Contents)) = Len(Contents)
        BY <2>1, <3>1, <3>2, ConcatProperties, LenProperties
      <3>4. ASSUME NEW i \in 1 .. Len(Contents)
            PROVE  (<<buf[tail]>> \o Tail(Contents))[i] = Contents[i]
        <4>1. CASE i = 1
          BY <2>1, <3>1, <3>2, <4>1, ConcatProperties
        <4>2. CASE i # 1
          <5>1. i - 1 \in 1 .. Len(Tail(Contents)) /\ (i - 1) + 1 = i
            BY <3>2, <4>2
          <5>2. (<<buf[tail]>> \o Tail(Contents))[i] = Tail(Contents)[i - 1]
            BY <2>1, <3>1, <3>2, <4>2, ConcatProperties
          <5>3. QED
            BY <3>2, <5>1, <5>2
        <4>3. QED
          BY <4>1, <4>2
      <3>5. QED
        BY <2>1, <3>3, <3>4, SeqEqual
    <2>4. Q' = Q
      <3>1. <<buf[tail]>> \in Seq(Frames)
        BY <2>1
      <3>2. (out \o <<buf[tail]>>) \o Tail(Contents) = out \o (<<buf[tail]>> \o Tail(Contents))
        BY <2>1, <3>1, ConcatAssociative
      <3>3. QED
        BY <2>2, <2>3, <3>2
    <2>5. QED
      BY <1>4, <2>4 DEF DrainStep, Abstract!vars
  <1>5. ASSUME NEW t \in Threads, DrainEnd(t)
        PROVE  Abstract!Drain(t)
    <2>1. Contents = << >> /\ Contents' = << >> /\ out \in Seq(Frames) /\ out' = << >>
      <3>1. Contents = << >>
        BY <1>5, ContentsFacts DEF DrainEnd
      <3>2. Contents' = Contents
        BY <1>5 DEF DrainEnd, ring, Contents, Cell
      <3>3. QED
        BY <1>5, <3>1, <3>2 DEF DrainEnd, IInv, TypeOK
    <2>2. Q = out /\ Q' = << >>
      BY <2>1, ConcatEmptySeq
    <2>3. QED
      BY <1>5, <2>2 DEF DrainEnd, Abstract!Drain
  <1>6. ASSUME Clear PROVE Abstract!Clear
    <2>1. Q' = << >>
      <3>1. out' = << >> /\ count' = 0
        BY <1>6 DEF Clear, Free, IInv, RingInv
      <3>2. Contents' = << >>
        BY <3>1 DEF Contents
      <3>3. QED
        BY <3>1, <3>2
    <2>2. QED
      BY <1>6, <2>1 DEF Clear, Abstract!Clear
  <1>7. CASE UNCHANGED vars
    BY <1>7 DEF vars, Contents, Cell, Abstract!vars
  <1>8. QED
    BY <1>1, <1>2, <1>3, <1>4, <1>5, <1>6, <1>7 DEF Next, Abstract!Next

(* For every capacity, a ring whose drain() releases the mutex only at its  *)
(* end behaves as the atomic queue that drops its oldest frame: the frames  *)
(* a caller gets are those of the queue, in order, each once                *)
(* (frame_buffer.hpp:16-62).                                                *)
THEOREM RingImplementsQueue == Spec => AbstractSpec
  <1>1. Init => Abstract!Init
    <2> SUFFICES ASSUME Init PROVE Abstract!Init
      OBVIOUS
    <2>1. Contents = << >> /\ out = << >>
      BY DEF Init, Contents
    <2>2. out \o Contents = << >>
      BY <2>1
    <2>3. QED
      BY <2>2 DEF Init, Abstract!Init
  <1>2. IInv /\ [Next]_vars => [Abstract!Next]_(Abstract!vars)
    BY StepRefines
  <1>3. Spec => []IInv
    BY InitInv, NextInv, PTL DEF Spec
  <1>4. QED
    BY <1>1, <1>2, <1>3, PTL DEF Spec, AbstractSpec, Abstract!Spec
=============================================================================
