------------------------ MODULE AdapterSessionProofs ------------------------
(***************************************************************************)
(* For any devices, drivers and transmit list: what AdapterSession keeps   *)
(* true, and what it keeps true of the transmit thread while at most two   *)
(* adapters are connected.                                                 *)
(***************************************************************************)
EXTENDS AdapterSession, SequenceTheorems, TLAPS

-----------------------------------------------------------------------------
(* Connecting adds a slot at the end; disconnecting takes one out.          *)

\* adapter_slots.push_back(): the new slot comes last, the others keep their
\* index (app_state.hpp:521).
LEMMA AppendSlot ==
  ASSUME NEW s \in Seq(Devices), IsInjective(s), NEW d \in Devices \ ToSet(s)
  PROVE  /\ Append(s, d) \in Seq(Devices) /\ IsInjective(Append(s, d))
         /\ ToSet(Append(s, d)) = ToSet(s) \cup {d}
         /\ Append(s, d) # << >> /\ Len(Append(s, d)) = Len(s) + 1
         /\ \A i \in 1 .. Len(s) : Append(s, d)[i] = s[i]
         /\ Append(s, d)[Len(s) + 1] = d
  BY DEF IsInjective, ToSet

\* adapter_slots.erase(): the slots after the erased one move down by one
\* (app_state.hpp:557).
LEMMA RemoveSlot ==
  ASSUME NEW s \in Seq(Devices), IsInjective(s), NEW i \in 1 .. Len(s)
  PROVE  /\ RemoveAt(s, i) \in Seq(Devices) /\ IsInjective(RemoveAt(s, i))
         /\ ToSet(RemoveAt(s, i)) = ToSet(s) \ {s[i]}
         /\ Len(RemoveAt(s, i)) = Len(s) - 1
         /\ \A k \in 1 .. Len(s) - 1 :
               RemoveAt(s, i)[k] = IF k < i THEN s[k] ELSE s[k + 1]
  <1> DEFINE l == SubSeq(s, 1, i - 1)
             r == SubSeq(s, i + 1, Len(s))
  <1>1. /\ l \in Seq(Devices) /\ Len(l) = i - 1
        /\ \A k \in 1 .. i - 1 : l[k] = s[k]
    OBVIOUS
  <1>2. /\ r \in Seq(Devices) /\ Len(r) = Len(s) - i
        /\ \A k \in 1 .. Len(s) - i : r[k] = s[k + i]
    OBVIOUS
  <1> HIDE DEF l, r
  <1>3. RemoveAt(s, i) = l \o r
    BY DEF RemoveAt, l, r
  <1>4. /\ l \o r \in Seq(Devices) /\ Len(l \o r) = Len(s) - 1
        /\ \A k \in 1 .. Len(s) - 1 : (l \o r)[k] = IF k < i THEN s[k] ELSE s[k + 1]
    <2>1. /\ l \o r \in Seq(Devices) /\ Len(l \o r) = Len(l) + Len(r)
          /\ \A k \in 1 .. Len(l) + Len(r) :
                (l \o r)[k] = IF k <= Len(l) THEN l[k] ELSE r[k - Len(l)]
      BY <1>1, <1>2, ConcatProperties
    <2>2. Len(l) + Len(r) = Len(s) - 1
      BY <1>1, <1>2
    <2>3. ASSUME NEW k \in 1 .. Len(s) - 1
          PROVE  (l \o r)[k] = IF k < i THEN s[k] ELSE s[k + 1]
      <3>1. CASE k < i
        BY <1>1, <2>1, <2>2, <3>1
      <3>2. CASE k >= i
        <4>1. k - (i - 1) \in 1 .. Len(s) - i /\ (k - (i - 1)) + i = k + 1
          BY <3>2
        <4>2. (l \o r)[k] = r[k - (i - 1)]
          BY <1>1, <2>1, <2>2, <3>2
        <4>3. QED
          BY <1>2, <3>2, <4>1, <4>2
      <3>3. k < i \/ k >= i
        OBVIOUS
      <3>4. QED
        BY <3>1, <3>2, <3>3
    <2>4. QED
      BY <2>1, <2>2, <2>3
  <1> DEFINE q == l \o r
  <1> HIDE DEF q
  <1>5. /\ q \in Seq(Devices) /\ Len(q) = Len(s) - 1
        /\ \A k \in 1 .. Len(s) - 1 : q[k] = IF k < i THEN s[k] ELSE s[k + 1]
    BY <1>4 DEF q
  <1>6. IsInjective(q)
    <2>1. ASSUME NEW x \in 1 .. Len(s) - 1, NEW y \in 1 .. Len(s) - 1, q[x] = q[y]
          PROVE  x = y
      <3>1. PICK u \in 1 .. Len(s) : q[x] = s[u] /\ u = IF x < i THEN x ELSE x + 1
        BY <1>5
      <3>2. PICK v \in 1 .. Len(s) : q[y] = s[v] /\ v = IF y < i THEN y ELSE y + 1
        BY <1>5
      <3>3. u = v
        <4>1. \A m, n \in DOMAIN s : s[m] = s[n] => m = n
          BY DEF IsInjective
        <4>2. DOMAIN s = 1 .. Len(s)
          OBVIOUS
        <4>3. QED
          BY <2>1, <3>1, <3>2, <4>1, <4>2
      <3>4. QED
        BY <3>1, <3>2, <3>3
    <2>2. DOMAIN q = 1 .. Len(s) - 1
      BY <1>5
    <2>3. QED
      BY <2>1, <2>2 DEF IsInjective
  <1>7. ToSet(q) = ToSet(s) \ {s[i]}
    <2>1. ASSUME NEW d \in ToSet(q) PROVE d \in ToSet(s) \ {s[i]}
      BY <1>5 DEF ToSet, IsInjective
    <2>2. ASSUME NEW d \in ToSet(s) \ {s[i]} PROVE d \in ToSet(q)
      <3>1. PICK k \in 1 .. Len(s) : d = s[k] /\ k # i
        BY DEF ToSet
      <3>2. CASE k < i
        BY <1>5, <3>1, <3>2 DEF ToSet
      <3>3. CASE k > i
        <4>1. k - 1 \in 1 .. Len(q) /\ q[k - 1] = s[k]
          BY <1>5, <3>1, <3>3
        <4>2. QED
          BY <1>5, <3>1, <4>1 DEF ToSet
      <3>4. QED
        BY <3>1, <3>2, <3>3
    <2>3. QED
      BY <2>1, <2>2
  <1>8. QED
    BY <1>3, <1>5, <1>6, <1>7 DEF q

\* A slot in the list holds a device of the list.
LEMMA SlotFacts ==
  ASSUME NEW s \in Seq(Devices), NEW i \in 1 .. Len(s)
  PROVE  s[i] \in Devices /\ s[i] \in ToSet(s)
  BY DEF ToSet

\* No slots, no devices.
LEMMA NoSlots == ToSet(<< >>) = {}
  BY DEF ToSet

\* The empty list of slots is well formed.
LEMMA NoSlotsInjective == << >> \in Seq(Devices) /\ IsInjective(<< >>)
  BY DEF IsInjective

-----------------------------------------------------------------------------
(* The invariant.  Between two commands the session is consistent; inside   *)
(* one, the program counter tells how far the command has come.             *)

Dropping == {"dropTx", "dropIo", "allIo"}

\* The slots disconnect() has not come to yet, the present one included.
Remaining == {slots[i] : i \in at .. Len(slots)}

SlotInv ==
  /\ open = IF gui = "allIo" THEN Remaining ELSE ToSet(slots)
  /\ \A d \in Devices : io[d] # "none" <=> d \in open
  /\ \A d \in Devices : io[d] = "done" => d \in ioStop
  /\ ioStop = IF gui \in {"dropIo", "allIo"} THEN {slots[at]} ELSE {}
  /\ gui # "opening" => paused = {}
  /\ gui \in Dropping => at \in 1 .. Len(slots)
  /\ gui \in {"opening", "retry"} => dev \in Devices \ ToSet(slots)

CommandInv ==
  /\ connected <=> slots # << >>
  /\ recording => connected \/ gui = "dropLast"
  /\ log_mode => ~connected /\ gui \notin {"opening", "retry"}
  /\ gui \notin {"allTx", "allIo"} => after = "idle"
  /\ gui \in {"lock", "send", "startTx", "startFirst"} => slots # << >>
  /\ gui \in {"import", "exit", "dropLast"} => slots = << >>
  /\ gui = "allIo" => ~recording
  /\ slots # << >> => tx_slot_idx < Len(slots)

TxInv ==
  /\ gui \in {"idle", "opening", "retry", "lock", "send"} =>
       (TxRunning <=> slots # << >>)
  /\ gui \in {"startFirst", "allIo", "import", "exit"} => ~TxRunning
  /\ gui = "dropTx" => at = tx_slot_idx + 1
  /\ gui = "dropIo" /\ at = tx_slot_idx + 1 => ~TxRunning
  /\ gui = "dropIo" /\ at # tx_slot_idx + 1 => TxRunning
  /\ gui \in {"startTx", "dropLast", "allTx", "dropTx"} => (TxRunning <=> txStop)
  /\ txStop => TxRunning /\ gui \in {"startTx", "dropTx", "dropLast", "allTx"}
  /\ tx = "done" => txStop

MutexInv ==
  /\ mtx = "gui" <=> gui = "send"
  /\ mtx = "tx" <=> tx \in {"scan", "send"}
  /\ \A j \in todo : tx \in {"scan", "send"} => jobs[j] = "on"
  /\ tx = "send" => cur \in Jobs /\ jobs[cur] = "on"

IInv == TypeOK /\ SlotInv /\ CommandInv /\ TxInv /\ MutexInv

\* Every action keeps the types, and keeps a device from having two slots.
LEMMA TypeStep == ASSUME IInv, [Next]_vars PROVE TypeOK'
  <1> USE DEF IInv, guiVars, flags, ioVars, txVars, jobVars
  <1>1. ASSUME NEW d \in Devices, ConnectRefused(d) PROVE TypeOK'
    <2>1. log_mode' \in BOOLEAN
      BY <1>1 DEF ConnectRefused
    <2>2. UNCHANGED <<guiVars, slots, open, connected, recording, tx_slot_idx,
                      ioVars, txVars, jobVars>>
      BY <1>1 DEF ConnectRefused
    <2>3. QED
      BY <2>1, <2>2 DEF TypeOK
  <1>2. ASSUME NEW d \in Devices, Connect(d) PROVE TypeOK'
    <2>1. ToSet(slots) \subseteq Devices
      BY DEF TypeOK, ToSet
    <2>2. gui' = "opening" /\ dev' \in Devices /\ log_mode' \in BOOLEAN
          /\ paused' \in SUBSET Devices
          /\ UNCHANGED <<at, after, slots, open, connected, recording,
                tx_slot_idx, io, ioStop, txVars, jobVars>>
      BY <1>2, <2>1 DEF Connect
    <2>3. QED
      BY <2>2 DEF TypeOK
  <1>3. ASSUME NEW i \in 1 .. Len(slots), SetTx(i) PROVE TypeOK'
    BY <1>3, SessionConstants DEF SetTx, AskTxToStop, TxRunning, TypeOK
  <1>4. ASSUME NEW i \in 1 .. Len(slots), DisconnectSlot(i) PROVE TypeOK'
    <2>1. slots[i] \in Devices /\ i \in Nat
      BY <1>4 DEF TypeOK
    <2>2. txStop' \in BOOLEAN /\ ioStop' \in SUBSET Devices /\ at' \in Nat
          /\ gui' \in {"dropTx", "dropIo"}
      BY <1>4, <2>1 DEF DisconnectSlot, AskTxToStop, TxRunning, TypeOK
    <2>3. QED
      BY <1>4, <2>2 DEF DisconnectSlot, TypeOK
  <1>5. ASSUME NEW next \in {"idle", "import", "exit"}, DisconnectAll(next) PROVE TypeOK'
    <2>1. txStop' \in BOOLEAN /\ recording' \in BOOLEAN /\ gui' = "allTx"
          /\ after' \in {"idle", "import", "exit"}
      BY <1>5 DEF DisconnectAll, AskTxToStop, TxRunning, TypeOK
    <2>2. UNCHANGED <<dev, at, slots, open, connected, log_mode, tx_slot_idx,
                      ioVars, tx, hw, todo, cur, jobVars>>
      BY <1>5 DEF DisconnectAll
    <2>3. QED
      BY <2>1, <2>2 DEF TypeOK
  <1>6. ASSUME ImportDialog PROVE TypeOK'
    BY <1>6, SessionConstants DEF ImportDialog, TypeOK
  <1>7. ASSUME NewLog PROVE TypeOK'
    BY <1>7, SessionConstants DEF NewLog, TypeOK
  <1>8. ASSUME DrawTransmitter PROVE TypeOK'
    BY <1>8, SessionConstants DEF DrawTransmitter, TypeOK
  <1>9. ASSUME OpenFailed PROVE TypeOK'
    BY <1>9, SessionConstants DEF OpenFailed, TypeOK
  <1>10. ASSUME OpenDenied PROVE TypeOK'
    BY <1>10, SessionConstants DEF OpenDenied, TypeOK
  <1>11. ASSUME Opened PROVE TypeOK'
    <2>1. dev \in Devices \ ToSet(slots)
      BY <1>11 DEF Opened, SlotInv
    <2>2. slots' \in Seq(Devices) /\ IsInjective(slots')
      BY <1>11, <2>1, AppendSlot DEF Opened, TypeOK
    <2>3. open' \in SUBSET Devices /\ dev' = None /\ paused' = {}
          /\ io' \in [Devices -> {"none", "check", "recv", "nap", "done"}]
      BY <1>11, <2>1 DEF Opened, TypeOK
    <2>4. gui' \in {"idle", "startFirst"} /\ tx_slot_idx' \in Nat
      BY <1>11 DEF Opened, TypeOK
    <2>5. connected' \in BOOLEAN /\ log_mode' \in BOOLEAN
          /\ UNCHANGED <<at, after, recording, ioStop, txVars, jobVars>>
      BY <1>11 DEF Opened
    <2>6. QED
      BY <2>2, <2>3, <2>4, <2>5 DEF TypeOK
  <1>12. ASSUME StartTx PROVE TypeOK'
    <2>1. slots # << >> /\ tx_slot_idx < Len(slots)
      BY <1>12 DEF StartTx, CommandInv
    <2>2. tx_slot_idx + 1 \in 1 .. Len(slots)
      BY <2>1 DEF TypeOK
    <2>3. hw' \in Devices /\ recording' \in BOOLEAN
      <3>1. hw' \in Devices
        BY <1>12, <2>2 DEF StartTx, Marked, TypeOK
      <3>2. recording' = recording \/ recording' = TRUE
        BY <1>12 DEF StartTx
      <3>3. QED
        BY <3>1, <3>2 DEF TypeOK
    <2>4. gui' = "idle" /\ tx' = "check" /\ txStop' = FALSE
          /\ UNCHANGED <<dev, at, after, slots, open, connected, log_mode,
                tx_slot_idx, ioVars, todo, cur, jobVars>>
      BY <1>12 DEF StartTx
    <2>5. QED
      BY <2>3, <2>4 DEF TypeOK
  <1>13. ASSUME DropJoinTx PROVE TypeOK'
    <2>1. at \in 1 .. Len(slots)
      BY <1>13 DEF DropJoinTx, SlotInv, Dropping
    <2>2. ioStop' \in SUBSET Devices
      BY <1>13, <2>1 DEF DropJoinTx, TypeOK
    <2>3. gui' = "dropIo" /\ tx' = "none" /\ txStop' = FALSE /\ hw' = None
          /\ UNCHANGED <<dev, at, after, slots, open, flags, tx_slot_idx, io,
                paused, todo, cur, jobVars>>
      BY <1>13 DEF DropJoinTx, TxJoin
    <2>4. QED
      BY <2>2, <2>3 DEF TypeOK
  <1>14. ASSUME DropJoinIo PROVE TypeOK'
    <2>1. at \in 1 .. Len(slots)
      BY <1>14 DEF DropJoinIo, SlotInv, Dropping
    <2>2. slots' \in Seq(Devices) /\ IsInjective(slots')
      BY <1>14, <2>1, RemoveSlot DEF DropJoinIo, Erase, TypeOK
    <2>3. tx_slot_idx' \in Nat
      BY <1>14, <2>1 DEF DropJoinIo, Erase, TypeOK
    <2>4. open' \in SUBSET Devices /\ ioStop' \in SUBSET Devices
          /\ io' \in [Devices -> {"none", "check", "recv", "nap", "done"}]
          /\ hw' \in Devices \cup {None}
      BY <1>14 DEF DropJoinIo, IoJoin, TypeOK
    <2>5. gui' \in {"dropLast", "idle", "startTx"} /\ at' = 0
          /\ connected' \in BOOLEAN /\ txStop' \in BOOLEAN
      BY <1>14 DEF DropJoinIo, AskTxToStop, TxRunning, TypeOK
    <2>6. UNCHANGED <<dev, after, log_mode, recording, paused, tx, todo, cur,
                      jobVars>>
      BY <1>14 DEF DropJoinIo
    <2>7. QED
      BY <2>2, <2>3, <2>4, <2>5, <2>6 DEF TypeOK
  <1>15. ASSUME DropLast PROVE TypeOK'
    BY <1>15, SessionConstants DEF DropLast, TxJoin, TxStopped, TypeOK
  <1>16. ASSUME AllJoinTx PROVE TypeOK'
    <2>1. /\ gui' \in {"idle", "import", "exit", "allIo"} /\ at' \in Nat
          /\ after' \in {"idle", "import", "exit"} /\ connected' \in BOOLEAN
      <3>1. gui' \in {"idle", "import", "exit", "allIo"}
        BY <1>16 DEF AllJoinTx, NextSlot, TypeOK
      <3>2. at' \in Nat
        BY <1>16 DEF AllJoinTx, NextSlot
      <3>3. after' \in {"idle", "import", "exit"} /\ connected' \in BOOLEAN
        BY <1>16 DEF AllJoinTx, NextSlot, TypeOK
      <3>4. QED
        BY <3>1, <3>2, <3>3
    <2>2. slots' \in Seq(Devices) /\ IsInjective(slots')
      BY <1>16, NoSlotsInjective DEF AllJoinTx, NextSlot, TypeOK
    <2>3. ioStop' \in SUBSET Devices
      <3>1. slots # << >> => slots[1] \in Devices
        BY DEF TypeOK
      <3>2. QED
        BY <1>16, <3>1 DEF AllJoinTx, TypeOK
    <2>4. tx' = "none" /\ txStop' = FALSE /\ hw' = None /\ recording' = FALSE
          /\ UNCHANGED <<dev, open, log_mode, tx_slot_idx, io, paused, todo, cur,
                jobVars>>
      BY <1>16 DEF AllJoinTx, TxJoin
    <2>5. QED
      BY <2>1, <2>2, <2>3, <2>4 DEF TypeOK
  <1>17. ASSUME AllJoinIo PROVE TypeOK'
    <2>1. at \in 1 .. Len(slots)
      BY <1>17 DEF AllJoinIo, SlotInv, Dropping
    <2>2. /\ gui' \in {"idle", "import", "exit", "allIo"} /\ at' \in Nat
          /\ after' \in {"idle", "import", "exit"} /\ connected' \in BOOLEAN
      <3>1. gui' \in {"idle", "import", "exit", "allIo"}
        BY <1>17 DEF AllJoinIo, NextSlot, TypeOK
      <3>2. at' \in Nat
        BY <1>17, <2>1 DEF AllJoinIo, NextSlot
      <3>3. after' \in {"idle", "import", "exit"} /\ connected' \in BOOLEAN
        BY <1>17 DEF AllJoinIo, NextSlot, TypeOK
      <3>4. QED
        BY <3>1, <3>2, <3>3
    <2>3. slots' \in Seq(Devices) /\ IsInjective(slots')
      BY <1>17, NoSlotsInjective DEF AllJoinIo, NextSlot, TypeOK
    <2>4. ioStop' \in SUBSET Devices
      <3>1. at < Len(slots) => slots[at + 1] \in Devices
        BY <2>1 DEF TypeOK
      <3>2. QED
        BY <1>17, <3>1 DEF AllJoinIo, TypeOK
    <2>5. open' \in SUBSET Devices
          /\ io' \in [Devices -> {"none", "check", "recv", "nap", "done"}]
          /\ UNCHANGED <<dev, log_mode, recording, tx_slot_idx, paused, txVars,
                jobVars>>
      BY <1>17 DEF AllJoinIo, IoJoin, TypeOK
    <2>6. QED
      BY <2>2, <2>3, <2>4, <2>5 DEF TypeOK
  <1>18. ASSUME ImportResult PROVE TypeOK'
    <2>1. log_mode' \in BOOLEAN
      BY <1>18 DEF ImportResult, TypeOK
    <2>2. QED
      BY <1>18, <2>1 DEF ImportResult, TypeOK
  <1>19. ASSUME EditJobs PROVE TypeOK'
    BY <1>19, SessionConstants DEF EditJobs, GuiLocks, TypeOK
  <1>20. ASSUME SendOnce PROVE TypeOK'
    BY <1>20, SessionConstants DEF SendOnce, GuiLocks, TypeOK
  <1>21. ASSUME SentOnce PROVE TypeOK'
    BY <1>21, SessionConstants DEF SentOnce, TypeOK
  <1>22. ASSUME TxNext PROVE TypeOK'
    BY <1>22, SessionConstants DEF TxNext, TxStep, TxCheck, TxLock,
      TxNotDue, TxSend, TxSent, TxUnlock, TxWake, other, TypeOK
  <1>23. ASSUME NEW d \in Devices, IoCheck(d) \/ IoBack(d) PROVE TypeOK'
    BY <1>23, SessionConstants DEF IoCheck, IoBack, other, TypeOK
  <1>24. ASSUME UNCHANGED vars PROVE TypeOK'
    BY <1>24, SessionConstants DEF vars, TypeOK
  <1>25. QED
    BY <1>1, <1>2, <1>3, <1>4, <1>5, <1>6, <1>7, <1>8, <1>9, <1>10, <1>11,
      <1>12, <1>13, <1>14, <1>15, <1>16, <1>17, <1>18, <1>19, <1>20, <1>21,
      <1>22, <1>23, <1>24 DEF Next, Command, Finish, Terminated

\* Every action keeps slots, open adapters and I/O threads in step.
LEMMA SlotStep == ASSUME IInv, [Next]_vars PROVE SlotInv'
  <1> USE DEF IInv, guiVars, flags, ioVars, txVars, jobVars
  <1>1. ASSUME NEW d \in Devices, ConnectRefused(d) PROVE SlotInv'
    BY <1>1, SessionConstants DEF ConnectRefused, TypeOK, SlotInv, Dropping,
      Remaining
  <1>2. ASSUME NEW d \in Devices, Connect(d) PROVE SlotInv'
    BY <1>2, SessionConstants DEF Connect, TypeOK, SlotInv, Dropping,
      Remaining
  <1>3. ASSUME NEW i \in 1 .. Len(slots), SetTx(i) PROVE SlotInv'
    BY <1>3, SessionConstants DEF SetTx, AskTxToStop, TxRunning, TypeOK,
      SlotInv, Dropping, Remaining
  <1>4. ASSUME NEW i \in 1 .. Len(slots), DisconnectSlot(i) PROVE SlotInv'
    BY <1>4, SessionConstants DEF DisconnectSlot, AskTxToStop, TxRunning,
      TypeOK, SlotInv, Dropping, Remaining
  <1>5. ASSUME NEW next \in {"idle", "import", "exit"}, DisconnectAll(next) PROVE SlotInv'
    BY <1>5, SessionConstants DEF DisconnectAll, AskTxToStop, TxRunning,
      TypeOK, SlotInv, Dropping, Remaining
  <1>6. ASSUME ImportDialog PROVE SlotInv'
    BY <1>6, SessionConstants DEF ImportDialog, TypeOK, SlotInv, Dropping,
      Remaining
  <1>7. ASSUME NewLog PROVE SlotInv'
    BY <1>7, SessionConstants DEF NewLog, TypeOK, SlotInv, Dropping,
      Remaining
  <1>8. ASSUME DrawTransmitter PROVE SlotInv'
    BY <1>8, SessionConstants DEF DrawTransmitter, TypeOK, SlotInv,
      Dropping, Remaining
  <1>9. ASSUME OpenFailed PROVE SlotInv'
    BY <1>9, SessionConstants DEF OpenFailed, TypeOK, SlotInv, Dropping,
      Remaining
  <1>10. ASSUME OpenDenied PROVE SlotInv'
    BY <1>10, SessionConstants DEF OpenDenied, TypeOK, SlotInv, Dropping,
      Remaining
  <1>11. ASSUME Opened PROVE SlotInv'
    <2>1. dev \in Devices \ ToSet(slots) /\ open = ToSet(slots)
      BY <1>11 DEF Opened, SlotInv
    <2>2. ToSet(slots') = ToSet(slots) \cup {dev}
      BY <1>11, <2>1, AppendSlot DEF Opened, TypeOK
    <2>3. gui' \in {"idle", "startFirst"} /\ gui' \notin Dropping
      BY <1>11 DEF Opened, Dropping
    <2>4. open' = ToSet(slots') /\ paused' = {} /\ ioStop' = {}
      BY <1>11, <2>1, <2>2 DEF Opened, SlotInv
    <2>5. /\ \A d \in Devices : io'[d] # "none" <=> d \in open'
          /\ \A d \in Devices : io'[d] = "done" => d \in ioStop'
      BY <1>11, <2>1, <2>4 DEF Opened, SlotInv, TypeOK
    <2>6. QED
      BY <2>3, <2>4, <2>5 DEF SlotInv
  <1>12. ASSUME StartTx PROVE SlotInv'
    BY <1>12, SessionConstants DEF StartTx, TxStopped, Marked, TypeOK,
      SlotInv, Dropping, Remaining
  <1>13. ASSUME DropJoinTx PROVE SlotInv'
    BY <1>13, SessionConstants DEF DropJoinTx, TxJoin, TxStopped, TypeOK,
      SlotInv, Dropping, Remaining
  <1>14. ASSUME DropJoinIo PROVE SlotInv'
    <2>1. at \in 1 .. Len(slots) /\ open = ToSet(slots) /\ ioStop = {slots[at]}
          /\ slots[at] \in Devices
      BY <1>14 DEF DropJoinIo, SlotInv, Dropping, TypeOK
    <2>2. ToSet(slots') = ToSet(slots) \ {slots[at]}
      BY <1>14, <2>1, RemoveSlot DEF DropJoinIo, Erase, TypeOK
    <2>3. gui' \in {"dropLast", "idle", "startTx"} /\ gui' \notin Dropping
      BY <1>14 DEF DropJoinIo, Dropping
    <2>4. open' = ToSet(slots') /\ paused' = {} /\ ioStop' = {}
      BY <1>14, <2>1, <2>2 DEF DropJoinIo, SlotInv
    <2>5. /\ \A d \in Devices : io'[d] # "none" <=> d \in open'
          /\ \A d \in Devices : io'[d] = "done" => d \in ioStop'
      <3>1. open' = open \ {slots[at]} /\ io' = [io EXCEPT ![slots[at]] = "none"]
        BY <1>14 DEF DropJoinIo, IoJoin
      <3>2. QED
        BY <2>1, <2>4, <3>1 DEF SlotInv, TypeOK
    <2>6. QED
      BY <2>3, <2>4, <2>5 DEF SlotInv
  <1>15. ASSUME DropLast PROVE SlotInv'
    BY <1>15, SessionConstants DEF DropLast, TxJoin, TxStopped, TypeOK,
      SlotInv, Dropping, Remaining
  <1>16. ASSUME AllJoinTx PROVE SlotInv'
    <2>1. open = ToSet(slots) /\ ioStop = {} /\ paused = {}
          /\ UNCHANGED <<open, io, paused>>
      BY <1>16 DEF AllJoinTx, SlotInv
    <2>2. CASE slots = << >>
      <3>1. gui' \in {"idle", "import", "exit"} /\ slots' = << >> /\ ioStop' = {}
        BY <1>16, <2>1, <2>2 DEF AllJoinTx, NextSlot, TypeOK
      <3>2. open' = ToSet(slots')
        BY <2>1, <2>2, <3>1
      <3>3. QED
        BY <2>1, <3>1, <3>2 DEF SlotInv, Dropping
    <2>3. CASE slots # << >>
      <3>1. 1 \in 1 .. Len(slots)
        BY <2>3 DEF TypeOK
      <3>2. gui' = "allIo" /\ at' = 1 /\ slots' = slots /\ ioStop' = {slots[1]}
        BY <1>16, <2>1, <2>3, <3>1 DEF AllJoinTx, NextSlot
      <3>3. open' = Remaining'
        BY <2>1, <3>2 DEF Remaining, ToSet, TypeOK
      <3>4. QED
        BY <2>1, <3>1, <3>2, <3>3 DEF SlotInv, Dropping
    <2>4. QED
      BY <2>2, <2>3
  <1>17. ASSUME AllJoinIo PROVE SlotInv'
    <2>1. at \in 1 .. Len(slots) /\ open = Remaining /\ ioStop = {slots[at]}
          /\ paused = {} /\ slots[at] \in Devices
      BY <1>17 DEF AllJoinIo, SlotInv, Dropping, TypeOK
    <2>2. open' = open \ {slots[at]} /\ io' = [io EXCEPT ![slots[at]] = "none"]
          /\ paused' = paused
      BY <1>17 DEF AllJoinIo, IoJoin
    <2>3. /\ \A d \in Devices : io'[d] # "none" <=> d \in open'
          /\ \A d \in Devices : io'[d] # "done"
      BY <2>1, <2>2 DEF SlotInv, TypeOK
    <2>4. open' = {slots[i] : i \in at + 1 .. Len(slots)}
      BY <2>1, <2>2 DEF Remaining, TypeOK, IsInjective
    <2>5. CASE at < Len(slots)
      <3>1. gui' = "allIo" /\ at' = at + 1 /\ slots' = slots
            /\ ioStop' = {slots[at + 1]} /\ at + 1 \in 1 .. Len(slots)
        BY <1>17, <2>1, <2>5 DEF AllJoinIo, NextSlot
      <3>2. open' = Remaining'
        BY <2>4, <3>1 DEF Remaining
      <3>3. QED
        BY <2>1, <2>2, <2>3, <3>1, <3>2 DEF SlotInv, Dropping
    <2>6. CASE at = Len(slots)
      <3>1. gui' \in {"idle", "import", "exit"} /\ slots' = << >> /\ ioStop' = {}
        BY <1>17, <2>1, <2>6 DEF AllJoinIo, NextSlot, TypeOK
      <3>2. open' = {}
        BY <2>1, <2>4, <2>6
      <3>3. QED
        BY <2>1, <2>2, <2>3, <3>1, <3>2, NoSlots DEF SlotInv, Dropping
    <2>7. QED
      BY <2>1, <2>5, <2>6
  <1>18. ASSUME ImportResult PROVE SlotInv'
    BY <1>18, SessionConstants DEF ImportResult, TypeOK, SlotInv, Dropping,
      Remaining
  <1>19. ASSUME EditJobs PROVE SlotInv'
    BY <1>19, SessionConstants DEF EditJobs, GuiLocks, TypeOK, SlotInv,
      Dropping, Remaining
  <1>20. ASSUME SendOnce PROVE SlotInv'
    BY <1>20, SessionConstants DEF SendOnce, GuiLocks, TypeOK, SlotInv,
      Dropping, Remaining
  <1>21. ASSUME SentOnce PROVE SlotInv'
    BY <1>21, SessionConstants DEF SentOnce, TypeOK, SlotInv, Dropping,
      Remaining
  <1>22. ASSUME TxNext PROVE SlotInv'
    BY <1>22, SessionConstants DEF TxNext, TxStep, TxCheck, TxLock,
      TxNotDue, TxSend, TxSent, TxUnlock, TxWake, other, TypeOK, SlotInv,
      Dropping, Remaining
  <1>23. ASSUME NEW d \in Devices, IoCheck(d) \/ IoBack(d) PROVE SlotInv'
    BY <1>23, SessionConstants DEF IoCheck, IoBack, other, TypeOK, SlotInv,
      Dropping, Remaining
  <1>24. ASSUME UNCHANGED vars PROVE SlotInv'
    BY <1>24, SessionConstants DEF vars, TypeOK, SlotInv, Dropping,
      Remaining
  <1>25. QED
    BY <1>1, <1>2, <1>3, <1>4, <1>5, <1>6, <1>7, <1>8, <1>9, <1>10, <1>11,
      <1>12, <1>13, <1>14, <1>15, <1>16, <1>17, <1>18, <1>19, <1>20, <1>21,
      <1>22, <1>23, <1>24 DEF Next, Command, Finish, Terminated

\* Every action keeps the flags in step with the slots and the command.
LEMMA CommandStep == ASSUME IInv, [Next]_vars PROVE CommandInv'
  <1> USE DEF IInv, guiVars, flags, ioVars, txVars, jobVars
  <1>1. ASSUME NEW d \in Devices, ConnectRefused(d) PROVE CommandInv'
    BY <1>1, SessionConstants DEF ConnectRefused, TypeOK, SlotInv,
      CommandInv, Dropping, TxInv, TxRunning
  <1>2. ASSUME NEW d \in Devices, Connect(d) PROVE CommandInv'
    BY <1>2, SessionConstants DEF Connect, TypeOK, SlotInv, CommandInv,
      Dropping, TxInv, TxRunning
  <1>3. ASSUME NEW i \in 1 .. Len(slots), SetTx(i) PROVE CommandInv'
    BY <1>3, SessionConstants DEF SetTx, AskTxToStop, TxRunning, TypeOK,
      SlotInv, CommandInv, Dropping, TxInv
  <1>4. ASSUME NEW i \in 1 .. Len(slots), DisconnectSlot(i) PROVE CommandInv'
    BY <1>4, SessionConstants DEF DisconnectSlot, AskTxToStop, TxRunning,
      TypeOK, SlotInv, CommandInv, Dropping, TxInv
  <1>5. ASSUME NEW next \in {"idle", "import", "exit"}, DisconnectAll(next) PROVE CommandInv'
    BY <1>5, SessionConstants DEF DisconnectAll, AskTxToStop, TxRunning,
      TypeOK, SlotInv, CommandInv, Dropping, TxInv
  <1>6. ASSUME ImportDialog PROVE CommandInv'
    BY <1>6, SessionConstants DEF ImportDialog, TypeOK, SlotInv, CommandInv,
      Dropping, TxInv, TxRunning
  <1>7. ASSUME NewLog PROVE CommandInv'
    BY <1>7, SessionConstants DEF NewLog, TypeOK, SlotInv, CommandInv,
      Dropping, TxInv, TxRunning
  <1>8. ASSUME DrawTransmitter PROVE CommandInv'
    BY <1>8, SessionConstants DEF DrawTransmitter, TypeOK, SlotInv,
      CommandInv, Dropping, TxInv, TxRunning
  <1>9. ASSUME OpenFailed PROVE CommandInv'
    BY <1>9, SessionConstants DEF OpenFailed, TypeOK, SlotInv, CommandInv,
      Dropping, TxInv, TxRunning
  <1>10. ASSUME OpenDenied PROVE CommandInv'
    BY <1>10, SessionConstants DEF OpenDenied, TypeOK, SlotInv, CommandInv,
      Dropping, TxInv, TxRunning
  <1>11. ASSUME Opened PROVE CommandInv'
    BY <1>11, SessionConstants DEF Opened, TypeOK, SlotInv, CommandInv,
      Dropping, TxInv, TxRunning
  <1>12. ASSUME StartTx PROVE CommandInv'
    BY <1>12, SessionConstants DEF StartTx, TxStopped, Marked, TypeOK,
      SlotInv, CommandInv, Dropping, TxInv, TxRunning
  <1>13. ASSUME DropJoinTx PROVE CommandInv'
    BY <1>13, SessionConstants DEF DropJoinTx, TxJoin, TxStopped, TypeOK,
      SlotInv, CommandInv, Dropping, TxInv, TxRunning
  <1>14. ASSUME DropJoinIo PROVE CommandInv'
    <2>1. at \in 1 .. Len(slots) /\ slots # << >> /\ after = "idle" /\ connected
          /\ tx_slot_idx < Len(slots) /\ tx_slot_idx \in Nat /\ Len(slots) \in Nat
      BY <1>14 DEF DropJoinIo, SlotInv, Dropping, CommandInv, TypeOK
    <2>2. /\ slots' \in Seq(Devices) /\ Len(slots') = Len(slots) - 1
          /\ UNCHANGED <<after, log_mode, recording>>
      BY <1>14, <2>1, RemoveSlot DEF DropJoinIo, Erase, TypeOK
    <2>3. CASE Len(slots) = 1 /\ gui' = "dropLast" /\ connected' = FALSE
      <3>1. slots' = << >>
        BY <2>2, <2>3, EmptySeq
      <3>2. QED
        BY <2>1, <2>2, <2>3, <3>1 DEF CommandInv
    <2>4. CASE Len(slots) > 1 /\ gui' = (IF TxRunning THEN "idle" ELSE "startTx")
                             /\ UNCHANGED connected
      <3>1. slots' # << >>
        BY <2>2, <2>4, EmptySeq
      <3>2. tx_slot_idx' < Len(slots')
        <4>1. tx_slot_idx' = IF tx_slot_idx < Len(slots) - 1 THEN tx_slot_idx
                                                            ELSE Len(slots) - 2
          BY <1>14, <2>4 DEF DropJoinIo, Erase
        <4>2. PICK m \in Nat : tx_slot_idx' = m /\ m < Len(slots) - 1
          BY <2>1, <2>4, <4>1
        <4>3. QED
          BY <2>2, <4>2
      <3>3. QED
        BY <2>1, <2>2, <2>4, <3>1, <3>2 DEF CommandInv
    <2>5. QED
      BY <1>14, <2>3, <2>4 DEF DropJoinIo
  <1>15. ASSUME DropLast PROVE CommandInv'
    BY <1>15, SessionConstants DEF DropLast, TxJoin, TxStopped, TypeOK,
      SlotInv, CommandInv, Dropping, TxInv, TxRunning
  <1>16. ASSUME AllJoinTx PROVE CommandInv'
    BY <1>16, SessionConstants DEF AllJoinTx, TxJoin, TxStopped, NextSlot,
      TypeOK, SlotInv, CommandInv, Dropping, TxInv, TxRunning
  <1>17. ASSUME AllJoinIo PROVE CommandInv'
    BY <1>17, SessionConstants DEF AllJoinIo, IoJoin, NextSlot, TypeOK,
      SlotInv, CommandInv, Dropping, TxInv, TxRunning
  <1>18. ASSUME ImportResult PROVE CommandInv'
    BY <1>18, SessionConstants DEF ImportResult, TypeOK, SlotInv,
      CommandInv, Dropping, TxInv, TxRunning
  <1>19. ASSUME EditJobs PROVE CommandInv'
    BY <1>19, SessionConstants DEF EditJobs, GuiLocks, TypeOK, SlotInv,
      CommandInv, Dropping, TxInv, TxRunning
  <1>20. ASSUME SendOnce PROVE CommandInv'
    BY <1>20, SessionConstants DEF SendOnce, GuiLocks, TypeOK, SlotInv,
      CommandInv, Dropping, TxInv, TxRunning
  <1>21. ASSUME SentOnce PROVE CommandInv'
    BY <1>21, SessionConstants DEF SentOnce, TypeOK, SlotInv, CommandInv,
      Dropping, TxInv, TxRunning
  <1>22. ASSUME TxNext PROVE CommandInv'
    BY <1>22, SessionConstants DEF TxNext, TxStep, TxCheck, TxLock,
      TxNotDue, TxSend, TxSent, TxUnlock, TxWake, other, TypeOK, SlotInv,
      CommandInv, Dropping, TxInv, TxRunning
  <1>23. ASSUME NEW d \in Devices, IoCheck(d) \/ IoBack(d) PROVE CommandInv'
    BY <1>23, SessionConstants DEF IoCheck, IoBack, other, TypeOK, SlotInv,
      CommandInv, Dropping, TxInv, TxRunning
  <1>24. ASSUME UNCHANGED vars PROVE CommandInv'
    BY <1>24, SessionConstants DEF vars, TypeOK, SlotInv, CommandInv,
      Dropping, TxInv, TxRunning
  <1>25. QED
    BY <1>1, <1>2, <1>3, <1>4, <1>5, <1>6, <1>7, <1>8, <1>9, <1>10, <1>11,
      <1>12, <1>13, <1>14, <1>15, <1>16, <1>17, <1>18, <1>19, <1>20, <1>21,
      <1>22, <1>23, <1>24 DEF Next, Command, Finish, Terminated

\* Every action keeps the transmit thread in step with the command.
LEMMA TxInvStep == ASSUME IInv, [Next]_vars PROVE TxInv'
  <1> USE DEF IInv, guiVars, flags, ioVars, txVars, jobVars
  <1>1. ASSUME NEW d \in Devices, ConnectRefused(d) PROVE TxInv'
    BY <1>1, SessionConstants DEF ConnectRefused, TypeOK, TxInv, CommandInv,
      TxRunning
  <1>2. ASSUME NEW d \in Devices, Connect(d) PROVE TxInv'
    BY <1>2, SessionConstants DEF Connect, TypeOK, TxInv, CommandInv,
      TxRunning
  <1>3. ASSUME NEW i \in 1 .. Len(slots), SetTx(i) PROVE TxInv'
    BY <1>3, SessionConstants DEF SetTx, AskTxToStop, TxRunning, TypeOK,
      TxInv, CommandInv
  <1>4. ASSUME NEW i \in 1 .. Len(slots), DisconnectSlot(i) PROVE TxInv'
    BY <1>4, SessionConstants DEF DisconnectSlot, AskTxToStop, TxRunning,
      TypeOK, TxInv, CommandInv
  <1>5. ASSUME NEW next \in {"idle", "import", "exit"}, DisconnectAll(next) PROVE TxInv'
    BY <1>5, SessionConstants DEF DisconnectAll, AskTxToStop, TxRunning,
      TypeOK, TxInv, CommandInv
  <1>6. ASSUME ImportDialog PROVE TxInv'
    BY <1>6, SessionConstants DEF ImportDialog, TypeOK, TxInv, CommandInv,
      TxRunning
  <1>7. ASSUME NewLog PROVE TxInv'
    BY <1>7, SessionConstants DEF NewLog, TypeOK, TxInv, CommandInv,
      TxRunning
  <1>8. ASSUME DrawTransmitter PROVE TxInv'
    BY <1>8, SessionConstants DEF DrawTransmitter, TypeOK, TxInv,
      CommandInv, TxRunning
  <1>9. ASSUME OpenFailed PROVE TxInv'
    BY <1>9, SessionConstants DEF OpenFailed, TypeOK, TxInv, CommandInv,
      TxRunning
  <1>10. ASSUME OpenDenied PROVE TxInv'
    BY <1>10, SessionConstants DEF OpenDenied, TypeOK, TxInv, CommandInv,
      TxRunning
  <1>11. ASSUME Opened PROVE TxInv'
    BY <1>11, SessionConstants DEF Opened, TypeOK, TxInv, CommandInv,
      TxRunning
  <1>12. ASSUME StartTx PROVE TxInv'
    BY <1>12, SessionConstants DEF StartTx, TxStopped, Marked, TypeOK,
      TxInv, CommandInv, TxRunning
  <1>13. ASSUME DropJoinTx PROVE TxInv'
    <2>1. gui' = "dropIo" /\ tx' = "none" /\ txStop' = FALSE
          /\ UNCHANGED <<at, tx_slot_idx>>
      BY <1>13 DEF DropJoinTx, TxJoin
    <2>2. at = tx_slot_idx + 1
      BY <1>13 DEF DropJoinTx, TxInv
    <2>3. QED
      BY <2>1, <2>2 DEF TxInv, TxRunning
  <1>14. ASSUME DropJoinIo PROVE TxInv'
    <2>0. ~txStop
      BY <1>14 DEF DropJoinIo, TxInv
    <2>1. at \in 1 .. Len(slots) /\ Len(slots) \in Nat
      BY <1>14 DEF DropJoinIo, SlotInv, Dropping, TypeOK
    <2>2. slots' \in Seq(Devices) /\ Len(slots') = Len(slots) - 1 /\ tx' = tx
      BY <1>14, <2>1, RemoveSlot DEF DropJoinIo, Erase, TypeOK
    <2>3. CASE Len(slots) = 1
      <3>1. gui' = "dropLast" /\ txStop' = TxRunning
        BY <1>14, <2>3 DEF DropJoinIo, AskTxToStop
      <3>2. QED
        BY <2>0, <2>2, <3>1 DEF TxInv, TxRunning, TypeOK
    <2>4. CASE Len(slots) > 1
      <3>1. gui' = (IF TxRunning THEN "idle" ELSE "startTx") /\ txStop' = txStop
        BY <1>14, <2>1, <2>4 DEF DropJoinIo
      <3>2. slots' # << >>
        BY <2>2, <2>4, EmptySeq DEF TypeOK
      <3>3. QED
        BY <2>0, <2>2, <3>1, <3>2 DEF TxInv, TxRunning
    <2>5. Len(slots) = 1 \/ Len(slots) > 1
      BY <2>1
    <2>6. QED
      BY <2>3, <2>4, <2>5
  <1>15. ASSUME DropLast PROVE TxInv'
    BY <1>15, SessionConstants DEF DropLast, TxJoin, TxStopped, TypeOK,
      TxInv, CommandInv, TxRunning
  <1>16. ASSUME AllJoinTx PROVE TxInv'
    BY <1>16, SessionConstants DEF AllJoinTx, TxJoin, TxStopped, NextSlot,
      TypeOK, TxInv, CommandInv, TxRunning
  <1>17. ASSUME AllJoinIo PROVE TxInv'
    BY <1>17, SessionConstants DEF AllJoinIo, IoJoin, NextSlot, TypeOK,
      TxInv, CommandInv, TxRunning
  <1>18. ASSUME ImportResult PROVE TxInv'
    BY <1>18, SessionConstants DEF ImportResult, TypeOK, TxInv, CommandInv,
      TxRunning
  <1>19. ASSUME EditJobs PROVE TxInv'
    BY <1>19, SessionConstants DEF EditJobs, GuiLocks, TypeOK, TxInv,
      CommandInv, TxRunning
  <1>20. ASSUME SendOnce PROVE TxInv'
    BY <1>20, SessionConstants DEF SendOnce, GuiLocks, TypeOK, TxInv,
      CommandInv, TxRunning
  <1>21. ASSUME SentOnce PROVE TxInv'
    BY <1>21, SessionConstants DEF SentOnce, TypeOK, TxInv, CommandInv,
      TxRunning
  <1>22. ASSUME TxNext PROVE TxInv'
    BY <1>22, SessionConstants DEF TxNext, TxStep, TxCheck, TxLock,
      TxNotDue, TxSend, TxSent, TxUnlock, TxWake, other, TypeOK, TxInv,
      CommandInv, TxRunning
  <1>23. ASSUME NEW d \in Devices, IoCheck(d) \/ IoBack(d) PROVE TxInv'
    BY <1>23, SessionConstants DEF IoCheck, IoBack, other, TypeOK, TxInv,
      CommandInv, TxRunning
  <1>24. ASSUME UNCHANGED vars PROVE TxInv'
    BY <1>24, SessionConstants DEF vars, TypeOK, TxInv, CommandInv,
      TxRunning
  <1>25. QED
    BY <1>1, <1>2, <1>3, <1>4, <1>5, <1>6, <1>7, <1>8, <1>9, <1>10, <1>11,
      <1>12, <1>13, <1>14, <1>15, <1>16, <1>17, <1>18, <1>19, <1>20, <1>21,
      <1>22, <1>23, <1>24 DEF Next, Command, Finish, Terminated

\* Every action leaves the mutex with its holder, and a round of the scheduler
\* with jobs that are still enabled.
LEMMA MutexStep == ASSUME IInv, [Next]_vars PROVE MutexInv'
  <1> USE DEF IInv, guiVars, flags, ioVars, txVars, jobVars
  <1>1. ASSUME NEW d \in Devices, ConnectRefused(d) PROVE MutexInv'
    BY <1>1, SessionConstants DEF ConnectRefused, TypeOK, MutexInv
  <1>2. ASSUME NEW d \in Devices, Connect(d) PROVE MutexInv'
    BY <1>2, SessionConstants DEF Connect, TypeOK, MutexInv
  <1>3. ASSUME NEW i \in 1 .. Len(slots), SetTx(i) PROVE MutexInv'
    BY <1>3, SessionConstants DEF SetTx, AskTxToStop, TxRunning, TypeOK,
      MutexInv
  <1>4. ASSUME NEW i \in 1 .. Len(slots), DisconnectSlot(i) PROVE MutexInv'
    BY <1>4, SessionConstants DEF DisconnectSlot, AskTxToStop, TxRunning,
      TypeOK, MutexInv
  <1>5. ASSUME NEW next \in {"idle", "import", "exit"}, DisconnectAll(next) PROVE MutexInv'
    BY <1>5, SessionConstants DEF DisconnectAll, AskTxToStop, TxRunning,
      TypeOK, MutexInv
  <1>6. ASSUME ImportDialog PROVE MutexInv'
    BY <1>6, SessionConstants DEF ImportDialog, TypeOK, MutexInv
  <1>7. ASSUME NewLog PROVE MutexInv'
    BY <1>7, SessionConstants DEF NewLog, TypeOK, MutexInv
  <1>8. ASSUME DrawTransmitter PROVE MutexInv'
    BY <1>8, SessionConstants DEF DrawTransmitter, TypeOK, MutexInv
  <1>9. ASSUME OpenFailed PROVE MutexInv'
    BY <1>9, SessionConstants DEF OpenFailed, TypeOK, MutexInv
  <1>10. ASSUME OpenDenied PROVE MutexInv'
    BY <1>10, SessionConstants DEF OpenDenied, TypeOK, MutexInv
  <1>11. ASSUME Opened PROVE MutexInv'
    BY <1>11, SessionConstants DEF Opened, TypeOK, MutexInv
  <1>12. ASSUME StartTx PROVE MutexInv'
    BY <1>12, SessionConstants DEF StartTx, TxStopped, Marked, TypeOK,
      MutexInv
  <1>13. ASSUME DropJoinTx PROVE MutexInv'
    BY <1>13, SessionConstants DEF DropJoinTx, TxJoin, TxStopped, TypeOK,
      MutexInv
  <1>14. ASSUME DropJoinIo PROVE MutexInv'
    BY <1>14, SessionConstants DEF DropJoinIo, IoJoin, Erase, AskTxToStop,
      TxRunning, TypeOK, MutexInv
  <1>15. ASSUME DropLast PROVE MutexInv'
    BY <1>15, SessionConstants DEF DropLast, TxJoin, TxStopped, TypeOK,
      MutexInv
  <1>16. ASSUME AllJoinTx PROVE MutexInv'
    BY <1>16, SessionConstants DEF AllJoinTx, TxJoin, TxStopped, NextSlot,
      TypeOK, MutexInv
  <1>17. ASSUME AllJoinIo PROVE MutexInv'
    BY <1>17, SessionConstants DEF AllJoinIo, IoJoin, NextSlot, TypeOK,
      MutexInv
  <1>18. ASSUME ImportResult PROVE MutexInv'
    BY <1>18, SessionConstants DEF ImportResult, TypeOK, MutexInv
  <1>19. ASSUME EditJobs PROVE MutexInv'
    BY <1>19, SessionConstants DEF EditJobs, GuiLocks, TypeOK, MutexInv
  <1>20. ASSUME SendOnce PROVE MutexInv'
    BY <1>20, SessionConstants DEF SendOnce, GuiLocks, TypeOK, MutexInv
  <1>21. ASSUME SentOnce PROVE MutexInv'
    BY <1>21, SessionConstants DEF SentOnce, TypeOK, MutexInv
  <1>22. ASSUME TxNext PROVE MutexInv'
    BY <1>22, SessionConstants DEF TxNext, TxStep, TxCheck, TxLock,
      TxNotDue, TxSend, TxSent, TxUnlock, TxWake, other, TypeOK, MutexInv
  <1>23. ASSUME NEW d \in Devices, IoCheck(d) \/ IoBack(d) PROVE MutexInv'
    BY <1>23, SessionConstants DEF IoCheck, IoBack, other, TypeOK, MutexInv
  <1>24. ASSUME UNCHANGED vars PROVE MutexInv'
    BY <1>24, SessionConstants DEF vars, TypeOK, MutexInv
  <1>25. QED
    BY <1>1, <1>2, <1>3, <1>4, <1>5, <1>6, <1>7, <1>8, <1>9, <1>10, <1>11,
      <1>12, <1>13, <1>14, <1>15, <1>16, <1>17, <1>18, <1>19, <1>20, <1>21,
      <1>22, <1>23, <1>24 DEF Next, Command, Finish, Terminated

\* The session the program starts with satisfies the invariant.
LEMMA InitInv == Init => IInv
  <1> SUFFICES ASSUME Init PROVE IInv
    OBVIOUS
  <1> USE DEF guiVars, flags, ioVars, txVars, jobVars
  <1>1. TypeOK
    BY SessionConstants, NoSlotsInjective DEF Init, TypeOK
  <1>2. SlotInv
    BY NoSlots DEF Init, SlotInv, Dropping
  <1>3. CommandInv /\ TxInv
    BY DEF Init, CommandInv, TxInv, TxRunning
  <1>4. MutexInv
    BY DEF Init, MutexInv
  <1>5. QED
    BY <1>1, <1>2, <1>3, <1>4 DEF IInv

\* The invariant is inductive.
LEMMA NextInv == IInv /\ [Next]_vars => IInv'
  BY TypeStep, SlotStep, CommandStep, TxInvStep, MutexStep DEF IInv

\* The invariant holds in every reachable state.
LEMMA Invariance == Spec => []IInv
  BY InitInv, NextInv, PTL DEF Spec

(* For any devices and transmit list: every variable keeps its type.        *)
THEOREM TypeCorrect == Spec => []TypeOK
  <1>1. IInv => TypeOK
    BY DEF IInv
  <1>2. QED
    BY <1>1, Invariance, PTL

(* For any number of adapters connected and disconnected in any order, an   *)
(* I/O thread never outlives its slot or the open adapter it receives from  *)
(* (app_state.hpp:138-156, 552-586).                                        *)
THEOREM IoThreadsOwned == Spec => []IoOwned
  <1>1. IInv => IoOwned
    <2> SUFFICES ASSUME IInv, NEW d \in Devices, io[d] # "none"
                 PROVE  d \in ToSet(slots) \cap open
      BY DEF IoOwned
    <2>1. d \in open
      BY DEF IInv, SlotInv
    <2>2. CASE gui = "allIo"
      <3>1. open = Remaining /\ at \in 1 .. Len(slots) /\ slots \in Seq(Devices)
        BY <2>2 DEF IInv, SlotInv, Dropping, TypeOK
      <3>2. Remaining \subseteq ToSet(slots)
        BY <3>1, SlotFacts DEF Remaining
      <3>3. QED
        BY <2>1, <3>1, <3>2
    <2>3. CASE gui # "allIo"
      BY <2>1, <2>3 DEF IInv, SlotInv
    <2>4. QED
      BY <2>2, <2>3
  <1>2. QED
    BY <1>1, Invariance, PTL

(* For any devices: between two commands the flags, the slots, the threads, *)
(* the recording and the mark agree (app_state.hpp:454-586).                *)
THEOREM SessionIsConsistent == Spec => []SessionConsistent
  <1>1. IInv => SessionConsistent
    <2> SUFFICES ASSUME IInv, gui = "idle"
                 PROVE  SessionConsistent
      BY DEF SessionConsistent
    <2>1. open = ToSet(slots) /\ paused = {} /\ ioStop = {}
      BY DEF IInv, SlotInv
    <2>2. \A d \in open : io[d] \in {"check", "recv", "nap"}
      BY <2>1 DEF IInv, SlotInv, TypeOK
    <2>3. /\ connected <=> slots # << >>
          /\ recording => connected
          /\ connected => tx_slot_idx < Len(slots)
      BY DEF IInv, CommandInv
    <2>4. (TxRunning <=> slots # << >>) /\ ~txStop
      BY DEF IInv, TxInv
    <2>5. QED
      BY <2>1, <2>2, <2>3, <2>4 DEF SessionConsistent
  <1>2. QED
    BY <1>1, Invariance, PTL

(* The mutex keeps "Send Once" and the scheduler apart, and keeps a job     *)
(* enabled for as long as it is being sent (tx_scheduler.hpp:82-126).       *)
THEOREM SendsAreSerialised == Spec => []SendSerialised
  <1>1. IInv => SendSerialised
    BY DEF IInv, MutexInv, SendSerialised
  <1>2. QED
    BY <1>1, Invariance, PTL

(* A log is never shown while an adapter is connected                       *)
(* (gui_main.cpp:520-541, connection.hpp:133-158).                          *)
THEOREM LogModeIsExclusive == Spec => []LogModeExclusive
  <1>1. IInv => LogModeExclusive
    BY DEF IInv, CommandInv, LogModeExclusive
  <1>2. QED
    BY <1>1, Invariance, PTL

(* main() returns with every thread joined, every adapter closed and the    *)
(* recording stopped (gui_main.cpp:791-793).                                *)
THEOREM ExitIsClean == Spec => []ExitClean
  <1>1. IInv => ExitClean
    <2> SUFFICES ASSUME IInv, gui = "exit" PROVE ExitClean
      BY DEF ExitClean
    <2>1. slots = << >> /\ open = {}
      BY NoSlots DEF IInv, CommandInv, SlotInv
    <2>2. \A d \in Devices : io[d] = "none"
      BY <2>1 DEF IInv, SlotInv
    <2>3. tx = "none" /\ ~recording
      BY <2>1 DEF IInv, CommandInv, TxInv, TxRunning
    <2>4. QED
      BY <2>1, <2>2, <2>3 DEF ExitClean
  <1>2. QED
    BY <1>1, Invariance, PTL

-----------------------------------------------------------------------------
(* The mark is an index and the transmit thread holds a reference.  Erasing *)
(* a slot that is not the marked one leaves them together only if no other  *)
(* slot can take the marked one's place, that is with at most two slots.    *)

MarkInv == /\ TxRunning /\ ~txStop => hw = Marked
           /\ TxRunning => hw \in open

\* The variables MarkInv depends on.
mark == <<tx, txStop, hw, slots, tx_slot_idx, open>>

\* Of two slots, one is marked and the other is not.
LEMMA TwoSlots ==
  ASSUME NEW n \in Nat, n <= 2, NEW i \in 1 .. n, NEW m \in Nat, m < n, i # m + 1
  PROVE  n = 2 /\ ((i = 1 /\ m = 1) \/ (i = 2 /\ m = 0))
  OBVIOUS

\* Every action that begins with at most two slots keeps the scheduler on the
\* marked one.
LEMMA MarkStep ==
  ASSUME IInv, MarkInv, Len(slots) <= 2, [Next]_vars
  PROVE  MarkInv'
  <1> USE DEF mark, guiVars, flags, ioVars, txVars, jobVars
  <1>1. ASSUME UNCHANGED mark PROVE MarkInv'
    BY <1>1 DEF MarkInv, TxRunning, Marked
  <1>2. ASSUME UNCHANGED <<hw, slots, tx_slot_idx, open>>, txStop' = txStop,
               TxRunning' = TxRunning
        PROVE  MarkInv'
    BY <1>2 DEF MarkInv, Marked
  <1>3. ASSUME UNCHANGED <<tx, hw, open>>, AskTxToStop
        PROVE  MarkInv'
    BY <1>3 DEF MarkInv, AskTxToStop, TxRunning
  <1>4. ASSUME tx' = "none" PROVE MarkInv'
    BY <1>4 DEF MarkInv, TxRunning
  <1>5. ASSUME NEW d \in Devices, ConnectRefused(d) \/ Connect(d) PROVE MarkInv'
    BY <1>1, <1>5 DEF ConnectRefused, Connect
  <1>6. ASSUME NEW i \in 1 .. Len(slots), SetTx(i) PROVE MarkInv'
    BY <1>3, <1>6 DEF SetTx
  <1>7. ASSUME NEW i \in 1 .. Len(slots), DisconnectSlot(i) PROVE MarkInv'
    BY <1>1, <1>3, <1>7 DEF DisconnectSlot
  <1>8. ASSUME NEW next \in {"idle", "import", "exit"}, DisconnectAll(next)
        PROVE  MarkInv'
    BY <1>3, <1>8 DEF DisconnectAll
  <1>9. CASE ImportDialog \/ NewLog \/ DrawTransmitter \/ OpenFailed \/ OpenDenied
             \/ ImportResult \/ EditJobs \/ SendOnce \/ SentOnce
    BY <1>1, <1>9 DEF ImportDialog, NewLog, DrawTransmitter, OpenFailed,
      OpenDenied, ImportResult, EditJobs, SendOnce, SentOnce
  <1>10. ASSUME Opened PROVE MarkInv'
    <2>1. dev \in Devices \ ToSet(slots) /\ UNCHANGED <<tx, txStop, hw>>
          /\ open' = open \cup {dev}
      BY <1>10 DEF Opened, IInv, SlotInv
    <2>2. CASE slots = << >>
      <3>1. ~TxRunning
        BY <1>10, <2>2 DEF Opened, IInv, TxInv
      <3>2. QED
        BY <2>1, <3>1 DEF MarkInv, TxRunning
    <2>3. CASE slots # << >>
      <3>1. tx_slot_idx' = tx_slot_idx
        BY <1>10, <2>3 DEF Opened
      <3>2. tx_slot_idx + 1 \in 1 .. Len(slots)
        BY <2>3 DEF IInv, CommandInv, TypeOK
      <3>3. slots'[tx_slot_idx + 1] = slots[tx_slot_idx + 1]
        BY <1>10, <2>1, <3>2, AppendSlot DEF Opened, IInv, TypeOK
      <3>4. QED
        BY <2>1, <3>1, <3>3 DEF MarkInv, TxRunning, Marked
    <2>4. QED
      BY <2>2, <2>3
  <1>11. ASSUME StartTx PROVE MarkInv'
    <2>1. hw' = Marked /\ UNCHANGED <<slots, tx_slot_idx, open>> /\ open = ToSet(slots)
      BY <1>11 DEF StartTx, IInv, SlotInv
    <2>2. tx_slot_idx + 1 \in 1 .. Len(slots)
      BY <1>11 DEF StartTx, IInv, CommandInv, TypeOK
    <2>3. Marked \in open
      BY <2>1, <2>2, SlotFacts DEF Marked, IInv, TypeOK
    <2>4. QED
      BY <2>1, <2>3 DEF MarkInv, Marked
  <1>12. ASSUME DropJoinTx \/ DropLast \/ AllJoinTx PROVE MarkInv'
    BY <1>4, <1>12 DEF DropJoinTx, DropLast, AllJoinTx, TxJoin
  <1>13. ASSUME AllJoinIo PROVE MarkInv'
    BY <1>4, <1>13 DEF AllJoinIo, IInv, TxInv, TxRunning
  <1>14. ASSUME DropJoinIo PROVE MarkInv'
    <2>1. CASE tx = "none"
      BY <1>4, <1>14, <2>1 DEF DropJoinIo
    <2>2. CASE tx # "none"
      <3>1. at # tx_slot_idx + 1 /\ ~txStop /\ hw = Marked /\ hw \in open
        BY <1>14, <2>2 DEF DropJoinIo, IInv, TxInv, MarkInv, TxRunning
      <3>2. at \in 1 .. Len(slots) /\ tx_slot_idx \in Nat /\ Len(slots) \in Nat
        BY <1>14 DEF DropJoinIo, IInv, SlotInv, Dropping, TypeOK
      <3>3. tx_slot_idx < Len(slots)
        BY <3>2, EmptySeq DEF IInv, CommandInv
      <3>4. Len(slots) = 2 /\ ((at = 1 /\ tx_slot_idx = 1) \/ (at = 2 /\ tx_slot_idx = 0))
        BY <3>1, <3>2, <3>3, TwoSlots
      <3>5. tx_slot_idx' = 0 /\ slots' = RemoveAt(slots, at)
        BY <1>14, <3>4 DEF DropJoinIo, Erase
      <3>6. slots'[1] = Marked
        <4>1. slots \in Seq(Devices) /\ IsInjective(slots)
          BY DEF IInv, TypeOK
        <4>2. /\ 1 \in 1 .. Len(slots) - 1
              /\ IF 1 < at THEN slots[1] = Marked ELSE slots[2] = Marked
          BY <3>4 DEF Marked
        <4>3. RemoveAt(slots, at)[1] = Marked
          BY <3>2, <4>1, <4>2, RemoveSlot
        <4>4. QED
          BY <3>5, <4>3
      <3>7. slots[at] # Marked
        BY <3>2, <3>4 DEF Marked, IInv, TypeOK, IsInjective
      <3>8. hw' = hw /\ open' = open \ {slots[at]}
        BY <1>14, <3>1, <3>7 DEF DropJoinIo
      <3>9. QED
        BY <3>1, <3>5, <3>6, <3>7, <3>8 DEF MarkInv, Marked
    <2>3. QED
      BY <2>1, <2>2
  <1>15. ASSUME TxNext PROVE MarkInv'
    BY <1>2, <1>15 DEF TxNext, TxCheck, TxLock, TxNotDue, TxSend, TxSent, TxUnlock,
      TxWake, TxStep, TxRunning, other
  <1>16. ASSUME NEW d \in Devices, IoCheck(d) \/ IoBack(d) PROVE MarkInv'
    BY <1>1, <1>16 DEF IoCheck, IoBack, other
  <1>17. CASE UNCHANGED vars
    BY <1>1, <1>17 DEF vars
  <1>18. QED
    BY <1>5, <1>6, <1>7, <1>8, <1>9, <1>10, <1>11, <1>12, <1>13, <1>14, <1>15,
      <1>16, <1>17 DEF Next, Command, Finish, Terminated

LEMMA WithTwo ==
  Spec /\ [](Len(slots) <= 2) => [](TxOnMarked /\ SendsOnOpen)
  <1>1. Init => MarkInv
    BY DEF Init, MarkInv, TxRunning
  <1>2. IInv /\ MarkInv /\ Len(slots) <= 2 /\ [Next]_vars => MarkInv'
    BY MarkStep
  <1>3. IInv /\ MarkInv => TxOnMarked /\ SendsOnOpen
    <2> SUFFICES ASSUME IInv, MarkInv PROVE TxOnMarked /\ SendsOnOpen
      OBVIOUS
    <2>1. ASSUME gui = "idle", connected
          PROVE  tx_slot_idx < Len(slots) /\ hw = Marked
      <3>1. slots # << >> /\ tx_slot_idx < Len(slots)
        BY <2>1 DEF IInv, CommandInv
      <3>2. TxRunning /\ ~txStop
        BY <2>1, <3>1 DEF IInv, TxInv
      <3>3. QED
        BY <3>1, <3>2 DEF MarkInv
    <2>2. tx = "send" => hw \in open
      BY DEF MarkInv, TxRunning
    <2>3. ASSUME gui = "send" PROVE Marked \in open
      <3>1. open = ToSet(slots) /\ tx_slot_idx + 1 \in 1 .. Len(slots)
        BY <2>3 DEF IInv, SlotInv, CommandInv, TypeOK
      <3>2. QED
        BY <3>1, SlotFacts DEF Marked, IInv, TypeOK
    <2>4. QED
      BY <2>1, <2>2, <2>3 DEF TxOnMarked, SendsOnOpen
  <1>4. QED
    BY <1>1, <1>2, <1>3, Invariance, PTL DEF Spec

(* While at most two adapters are connected, the scheduler transmits on the *)
(* marked slot (connection.hpp:29-41, app_state.hpp:447-452).               *)
THEOREM MarkWithTwo ==
  Spec /\ [](Len(slots) <= 2) => []TxOnMarked
  BY WithTwo, PTL

(* While at most two adapters are connected, neither the scheduler nor      *)
(* "Send Once" sends on an adapter that is not open (app_state.hpp:552-574, *)
(* tx_scheduler.hpp:112-125).                                               *)
THEOREM SendsWithTwo ==
  Spec /\ [](Len(slots) <= 2) => []SendsOnOpen
  BY WithTwo, PTL
=============================================================================
