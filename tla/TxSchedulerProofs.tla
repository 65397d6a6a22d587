--------------------------- MODULE TxSchedulerProofs ---------------------------
(***************************************************************************)
(* For any jobs and periods, however long a round takes and however late   *)
(* the thread wakes up: a job that is left alone is sent once a period.    *)
(*                                                                         *)
(* The bound on the time between two sends does not hold by itself: it     *)
(* rests on how late a job may be when the thread goes to sleep, which the *)
(* length of the sleep takes into account, and on how late it may be when  *)
(* the clock is read for the next round.                                   *)
(***************************************************************************)
EXTENDS TxScheduler, TLAPS

InRound == at \in {"stamped", "sending"}

\* last_sent is the clock of the round in which the job was sent: the send came
\* later, but within the round.
StampInv == \A j \in settled : /\ idle[j] <= age[j] /\ age[j] <= idle[j] + MaxRound
                               /\ gap[j] # 0 => gap[j] >= period[j] - MaxRound

\* A job that has been looked at is due when the wait is over, counted from the
\* round's clock; when the thread sleeps, counted from the end of the sleep, it is
\* due at most a round before.
DueInv ==
  \A j \in settled :
    /\ at = "sending" /\ j \notin todo => age[j] - spent + wait <= period[j]
    /\ at = "waiting" => /\ age[j] + nap <= period[j] + MaxRound - 1
                         /\ age[j] <= period[j] + MaxRound + Jitter - 1
    /\ InRound => age[j] - spent <= period[j] + MaxRound + Jitter - 1

SettledInv == settled \subseteq enabled /\ (at = "off" => settled = {})

IInv == TypeOK /\ SettledInv /\ StampInv /\ DueInv
-----------------------------------------------------------------------------
LEMMA Constants ==
  /\ MaxWait \in Nat /\ MaxWait >= 1 /\ MaxRound \in Nat /\ MaxRound >= 1
  /\ Jitter \in Nat /\ Cap \in Nat /\ Ms \in Nat /\ Ms >= 1
  /\ \A p \in Periods : p \in Nat /\ p >= 1
  /\ Default \in Periods
  /\ 0 \in -(MaxRound + Jitter)..MaxWait
  /\ MaxRound <= Cap
  <1>1. MaxRound \in Nat /\ Jitter \in Nat /\ Cap \in Nat /\ Default \in Nat
    BY TxConstants
  <1>2. Cap > Default + 2 * MaxRound + Jitter
    BY TxConstants
  <1>3. QED
    BY <1>1, <1>2, TxConstants

\* What a tick does to the times of a job.
LEMMA OlderFacts ==
  ASSUME NEW t \in [Jobs -> 0..Cap]
  PROVE  /\ Older(t) \in [Jobs -> 0..Cap]
         /\ \A j \in Jobs : /\ Older(t)[j] = IF t[j] + 1 < Cap THEN t[j] + 1 ELSE Cap
                            /\ Older(t)[j] <= t[j] + 1
  BY Constants DEF Older, AtMost

\* The thread is never asked to sleep longer than the longest wait, nor to wake up
\* more than a round ago.
LEMMA NapFacts ==
  ASSUME wait \in 1..MaxWait, spent \in 0..MaxRound
  PROVE  /\ Nap \in -(MaxRound + Jitter)..MaxWait
         /\ Nap <= wait - spent \/ Nap <= wait - 1
  BY Constants DEF Nap
-----------------------------------------------------------------------------
(* Types.                                                                   *)

LEMMA TypeInit == Init => TypeOK
  <1> SUFFICES ASSUME Init PROVE TypeOK
    OBVIOUS
  <1>1. /\ age \in [Jobs -> 0..Cap] /\ idle \in [Jobs -> 0..Cap] /\ gap \in [Jobs -> 0..Cap]
        /\ period \in [Jobs -> Periods]
    BY Constants DEF Init
  <1>2. /\ spent \in 0..MaxRound /\ wait \in 1..MaxWait
        /\ nap \in -(MaxRound + Jitter)..MaxWait
    BY Constants DEF Init
  <1>3. QED
    BY <1>1, <1>2 DEF Init, TypeOK

LEMMA PanelType ==
  ASSUME TypeOK, NEW j \in Jobs,
         Add(j) \/ Toggle(j) \/ Remove(j) \/ \E p \in Periods : SetPeriod(j, p)
  PROVE  TypeOK'
  <1>1. at # "sending" /\ todo = {}
    BY DEF Add, Toggle, Remove, SetPeriod, MutexFree, TypeOK
  <1>2. gap' \in [Jobs -> 0..Cap] /\ settled' \subseteq Jobs
    BY Constants DEF Add, Toggle, Remove, SetPeriod, Unsettle, TypeOK
  <1>3. CASE Add(j)
    BY <1>1, <1>2, <1>3, Constants DEF Add, TypeOK, threadVars
  <1>4. CASE Toggle(j)
    BY <1>1, <1>2, <1>4 DEF Toggle, TypeOK, threadVars
  <1>5. CASE Remove(j)
    BY <1>1, <1>2, <1>5 DEF Remove, TypeOK, threadVars
  <1>6. CASE \E p \in Periods : SetPeriod(j, p)
    BY <1>1, <1>2, <1>6 DEF SetPeriod, TypeOK, threadVars
  <1>7. QED
    BY <1>3, <1>4, <1>5, <1>6

LEMMA SendType ==
  ASSUME TypeOK, NEW j \in Jobs, Send(j) \/ Skip(j)
  PROVE  TypeOK'
  <1>1. /\ period[j] \in Int /\ period[j] >= 1 /\ Elapsed(j) \in Int
        /\ spent \in 0..Cap /\ wait \in 1..MaxWait
    BY Constants DEF TypeOK, Elapsed
  <1>2. CASE Send(j)
    <2>1. wait' \in 1..MaxWait
      BY <1>1, <1>2, Constants DEF Send, AtMost
    <2>2. /\ age' \in [Jobs -> 0..Cap] /\ idle' \in [Jobs -> 0..Cap]
          /\ gap' \in [Jobs -> 0..Cap] /\ settled' \subseteq Jobs
      BY <1>1, <1>2, Constants DEF Send, Sent, TypeOK
    <2>3. QED
      BY <1>2, <2>1, <2>2 DEF Send, TypeOK
  <1>3. CASE Skip(j)
    <2>1. wait' \in 1..MaxWait
      <3>1. period[j] - Elapsed(j) \in Int /\ period[j] - Elapsed(j) >= 1
        BY <1>1, <1>3 DEF Skip
      <3>2. QED
        BY <1>1, <1>3, <3>1, Constants DEF Skip, AtMost
    <2>2. QED
      BY <1>3, <2>1 DEF Skip, TypeOK, jobVars
  <1>4. QED
    BY <1>2, <1>3

LEMMA ThreadType ==
  ASSUME TypeOK, StartThread \/ StopThread \/ Stopped \/ ReadClock \/ Lock \/ Unlock
  PROVE  TypeOK'
  <1>1. CASE StartThread
    BY <1>1, Constants DEF StartThread, TypeOK, jobVars
  <1>2. CASE StopThread
    BY <1>2 DEF StopThread, TypeOK, jobVars, threadVars
  <1>3. CASE Stopped
    <2>1. gap' \in [Jobs -> 0..Cap] /\ nap' \in -(MaxRound + Jitter)..MaxWait
      BY <1>3, Constants DEF Stopped
    <2>2. QED
      BY <1>3, <2>1 DEF Stopped, TypeOK
  <1>4. CASE ReadClock
    BY <1>4, Constants DEF ReadClock, TypeOK, jobVars
  <1>5. CASE Lock
    BY <1>5 DEF Lock, TypeOK, jobVars
  <1>6. CASE Unlock
    BY <1>6, NapFacts DEF Unlock, TypeOK, jobVars
  <1>7. QED
    BY <1>1, <1>2, <1>3, <1>4, <1>5, <1>6

LEMMA TickType == ASSUME TypeOK, Tick PROVE TypeOK'
  <1>1. age' \in [Jobs -> 0..Cap] /\ idle' \in [Jobs -> 0..Cap]
    BY OlderFacts DEF Tick, TypeOK
  <1>2. spent' \in 0..MaxRound /\ nap' \in -(MaxRound + Jitter)..MaxWait
    BY Constants DEF Tick, TypeOK
  <1>3. QED
    BY <1>1, <1>2 DEF Tick, TypeOK, jobVars, threadVars

LEMMA TypeStep == ASSUME TypeOK, [Next]_vars PROVE TypeOK'
  <1>1. CASE Next
    BY <1>1, PanelType, SendType, ThreadType, TickType DEF Next
  <1>2. CASE UNCHANGED vars
    BY <1>2 DEF vars, jobVars, threadVars, TypeOK
  <1>3. QED
    BY <1>1, <1>2

\* Times, jobs and the thread's state keep their ranges, whatever the periods, the
\* length of a round, the lateness of a sleep and the number of ticks in a
\* millisecond: in particular a round never asks for a wait of nothing or less, and
\* looks at no job that is stopped or removed.
THEOREM TypeCorrect == Spec => []TypeOK
  <1>1. QED
    BY TypeInit, TypeStep, PTL DEF Spec
-----------------------------------------------------------------------------
(* Timing.                                                                  *)

LEMMA TimesAreInts ==
  ASSUME TypeOK
  PROVE  /\ \A j \in Jobs : /\ age[j] \in Int /\ idle[j] \in Int /\ gap[j] \in Int
                            /\ age[j] >= 0 /\ idle[j] >= 0
                            /\ period[j] \in Int /\ period[j] >= 1
         /\ spent \in Int /\ 0 <= spent /\ spent <= MaxRound
         /\ wait \in Int /\ wait >= 1 /\ nap \in Int
         /\ settled \subseteq Jobs
  BY Constants DEF TypeOK

\* The panel unsettles the job it changes; the times of the others stay.
LEMMA PanelTiming ==
  ASSUME IInv, NEW j \in Jobs,
         Add(j) \/ Toggle(j) \/ Remove(j) \/ \E p \in Periods : SetPeriod(j, p)
  PROVE  SettledInv' /\ StampInv' /\ DueInv'
  <1>1. /\ settled' = settled \ {j} /\ at' = at /\ todo' = todo /\ wait' = wait
        /\ spent' = spent /\ nap' = nap
    BY DEF Add, Toggle, Remove, SetPeriod, Unsettle, threadVars
  <1>2. \A i \in Jobs \ {j} : /\ age'[i] = age[i] /\ idle'[i] = idle[i] /\ gap'[i] = gap[i]
                              /\ period'[i] = period[i] /\ (i \in enabled => i \in enabled')
    BY DEF Add, Toggle, Remove, SetPeriod, Unsettle, IInv, TypeOK
  <1>3. settled \subseteq Jobs
    BY DEF IInv, TypeOK
  <1>4. SettledInv'
    BY <1>1, <1>2, <1>3 DEF IInv, SettledInv
  <1>5. StampInv'
    BY <1>1, <1>2, <1>3 DEF IInv, StampInv
  <1>6. DueInv'
    BY <1>1, <1>2, <1>3 DEF IInv, DueInv, InRound
  <1>7. QED
    BY <1>4, <1>5, <1>6

\* A job that is sent is next due a period after the round's clock; another one that
\* has been looked at only sees the wait become shorter.
LEMMA SendTiming ==
  ASSUME IInv, NEW j \in Jobs, Send(j)
  PROVE  SettledInv' /\ StampInv' /\ DueInv'
  <1>1. /\ at = "sending" /\ j \in todo /\ age[j] - spent >= period[j]
        /\ at' = at /\ spent' = spent /\ period' = period /\ nap' = nap /\ enabled' = enabled
        /\ settled' = settled \cup {j} /\ todo' = todo \ {j}
        /\ wait' = AtMost(wait, period[j])
    BY DEF Send, Sent, Elapsed
  <1>2. /\ age'[j] = spent /\ idle'[j] = 0 /\ gap'[j] = IF j \in settled THEN idle[j] ELSE 0
        /\ \A i \in Jobs \ {j} : age'[i] = age[i] /\ idle'[i] = idle[i] /\ gap'[i] = gap[i]
    BY DEF Send, Sent, IInv, TypeOK
  <1>3. wait' \in Int /\ wait' <= wait /\ wait' <= period[j]
    BY <1>1, TimesAreInts DEF AtMost, IInv
  <1>4. SettledInv'
    BY <1>1 DEF IInv, SettledInv, TypeOK
  <1>5. StampInv'
    <2>1. SUFFICES ASSUME NEW i \in settled'
                   PROVE  /\ idle'[i] <= age'[i] /\ age'[i] <= idle'[i] + MaxRound
                          /\ gap'[i] # 0 => gap'[i] >= period'[i] - MaxRound
      BY DEF StampInv
    <2>2. CASE i = j
      BY <1>1, <1>2, <2>2, TimesAreInts, Constants DEF IInv, StampInv
    <2>3. CASE i # j
      BY <1>1, <1>2, <2>3, TimesAreInts DEF IInv, StampInv
    <2>4. QED
      BY <2>2, <2>3
  <1>6. DueInv'
    <2>1. SUFFICES ASSUME NEW i \in settled'
                   PROVE  /\ i \notin todo' => age'[i] - spent + wait' <= period[i]
                          /\ age'[i] - spent <= period[i] + MaxRound + Jitter - 1
      BY <1>1 DEF DueInv, InRound
    <2>2. CASE i = j
      BY <1>1, <1>2, <1>3, <2>2, TimesAreInts, Constants DEF IInv
    <2>3. CASE i # j
      <3>1. i \in settled /\ (i \notin todo' => i \notin todo)
        BY <1>1, <2>3
      <3>2. QED
        BY <1>1, <1>2, <1>3, <2>3, <3>1, TimesAreInts DEF IInv, DueInv, InRound
    <2>4. QED
      BY <2>2, <2>3
  <1>7. QED
    BY <1>4, <1>5, <1>6

LEMMA SkipTiming ==
  ASSUME IInv, NEW j \in Jobs, Skip(j)
  PROVE  SettledInv' /\ StampInv' /\ DueInv'
  <1>1. /\ at = "sending" /\ at' = at /\ spent' = spent /\ todo' = todo \ {j}
        /\ wait' = AtMost(wait, period[j] - (age[j] - spent))
        /\ UNCHANGED <<jobVars, age, idle, nap>>
    BY DEF Skip, Elapsed
  <1>2. wait' \in Int /\ wait' <= wait /\ wait' <= period[j] - (age[j] - spent)
    BY <1>1, TimesAreInts DEF AtMost, IInv
  <1>3. SettledInv' /\ StampInv'
    BY <1>1 DEF IInv, SettledInv, StampInv, jobVars
  <1>4. ASSUME NEW i \in settled, i \notin todo'
        PROVE  age[i] - spent + wait' <= period[i]
    <2>1. CASE i = j
      BY <1>2, <2>1, TimesAreInts DEF IInv
    <2>2. CASE i # j
      BY <1>1, <1>2, <1>4, <2>2, TimesAreInts DEF IInv, DueInv
    <2>3. QED
      BY <2>1, <2>2
  <1>5. DueInv'
    BY <1>1, <1>4 DEF IInv, DueInv, InRound, jobVars
  <1>6. QED
    BY <1>3, <1>5

\* The round ends: what is left of each job's period is at least what the thread
\* sleeps, less what the round has taken.
LEMMA UnlockTiming ==
  ASSUME IInv, Unlock
  PROVE  SettledInv' /\ StampInv' /\ DueInv'
  <1>1. /\ at = "sending" /\ todo = {} /\ at' = "waiting" /\ nap' = Nap
        /\ UNCHANGED <<jobVars, age, idle, wait, todo, spent>>
    BY DEF Unlock
  <1>2. SettledInv' /\ StampInv'
    BY <1>1 DEF IInv, SettledInv, StampInv, jobVars
  <1>3. ASSUME NEW j \in settled
        PROVE  /\ age[j] + Nap <= period[j] + MaxRound - 1
               /\ age[j] <= period[j] + MaxRound + Jitter - 1
    <2>1. age[j] - spent + wait <= period[j]
      BY <1>1 DEF IInv, DueInv
    <2>2. Nap \in Int /\ (Nap <= wait - spent \/ Nap <= wait - 1)
      BY NapFacts, Constants DEF IInv, TypeOK
    <2>3. QED
      BY <2>1, <2>2, TimesAreInts, Constants DEF IInv
  <1>4. DueInv'
    BY <1>1, <1>3 DEF DueInv, InRound, jobVars
  <1>5. QED
    BY <1>2, <1>4

LEMMA ThreadTiming ==
  ASSUME IInv, StartThread \/ StopThread \/ Stopped \/ ReadClock \/ Lock
  PROVE  SettledInv' /\ StampInv' /\ DueInv'
  <1>1. CASE StartThread
    BY <1>1 DEF StartThread, IInv, SettledInv, StampInv, DueInv, jobVars
  <1>2. CASE StopThread
    BY <1>2 DEF StopThread, IInv, SettledInv, StampInv, DueInv, InRound, jobVars, threadVars
  <1>3. CASE Stopped
    BY <1>3 DEF Stopped, IInv, SettledInv, StampInv, DueInv
  <1>4. CASE ReadClock
    <2>1. SettledInv' /\ StampInv'
      BY <1>4 DEF ReadClock, IInv, SettledInv, StampInv, jobVars
    <2>2. \A j \in settled : age[j] - 0 <= period[j] + MaxRound + Jitter - 1
      BY <1>4, TimesAreInts DEF ReadClock, IInv, DueInv
    <2>3. DueInv'
      BY <1>4, <2>2 DEF ReadClock, DueInv, InRound, jobVars
    <2>4. QED
      BY <2>1, <2>3
  <1>5. CASE Lock
    <2>1. SettledInv' /\ StampInv'
      BY <1>5 DEF Lock, IInv, SettledInv, StampInv, jobVars
    <2>2. settled \subseteq todo'
      BY <1>5 DEF Lock, IInv, SettledInv, TypeOK
    <2>3. DueInv'
      BY <1>5, <2>2 DEF Lock, IInv, DueInv, InRound, jobVars
    <2>4. QED
      BY <2>1, <2>3
  <1>6. QED
    BY <1>1, <1>2, <1>3, <1>4, <1>5

\* Time passes for a job and for the round, or for the sleep, alike.
LEMMA TickTiming ==
  ASSUME IInv, Tick
  PROVE  SettledInv' /\ StampInv' /\ DueInv'
  <1>1. /\ UNCHANGED <<jobVars, threadVars>>
        /\ age' = Older(age) /\ idle' = Older(idle)
        /\ InRound => spent' = spent + 1
        /\ at = "waiting" => nap' = nap - 1 /\ nap > -Jitter
    BY DEF Tick, InRound
  <1>2. \A j \in settled :
          /\ age'[j] = IF age[j] + 1 < Cap THEN age[j] + 1 ELSE Cap
          /\ idle'[j] = IF idle[j] + 1 < Cap THEN idle[j] + 1 ELSE Cap
          /\ age'[j] \in Int /\ age'[j] <= age[j] + 1
    BY <1>1, OlderFacts, Constants DEF IInv, TypeOK
  <1>3. SettledInv'
    BY <1>1 DEF IInv, SettledInv, jobVars, threadVars
  <1>4. \A j \in settled : idle'[j] <= age'[j] /\ age'[j] <= idle'[j] + MaxRound
    BY <1>2, TimesAreInts, Constants DEF IInv, StampInv
  <1>5. StampInv'
    BY <1>1, <1>4 DEF IInv, StampInv, jobVars
  <1>6. ASSUME NEW j \in settled
        PROVE  /\ at = "sending" /\ j \notin todo => age'[j] - spent' + wait <= period[j]
               /\ at = "waiting" => /\ age'[j] + nap' <= period[j] + MaxRound - 1
                                    /\ age'[j] <= period[j] + MaxRound + Jitter - 1
               /\ InRound => age'[j] - spent' <= period[j] + MaxRound + Jitter - 1
    <2>1. CASE at = "waiting"
      <3>1. /\ age[j] + nap <= period[j] + MaxRound - 1 /\ nap >= 1 - Jitter /\ nap' = nap - 1
            /\ age'[j] \in Int /\ age'[j] <= age[j] + 1
        BY <1>1, <1>2, <2>1, TimesAreInts, Constants DEF IInv, DueInv
      <3>2. QED
        BY <2>1, <3>1, TimesAreInts, Constants DEF IInv, InRound
    <2>2. CASE InRound
      <3>1. /\ spent' = spent + 1 /\ age'[j] \in Int /\ age'[j] <= age[j] + 1
            /\ at = "sending" /\ j \notin todo => age[j] - spent + wait <= period[j]
            /\ age[j] - spent <= period[j] + MaxRound + Jitter - 1
        BY <1>1, <1>2, <2>2 DEF IInv, DueInv
      <3>2. QED
        BY <2>2, <3>1, TimesAreInts, Constants DEF IInv, InRound
    <2>3. QED
      BY <2>1, <2>2 DEF InRound
  <1>7. DueInv'
    BY <1>1, <1>6 DEF DueInv, InRound, jobVars, threadVars
  <1>8. QED
    BY <1>3, <1>5, <1>7

LEMMA InvStep == ASSUME IInv, [Next]_vars PROVE IInv'
  <1>1. TypeOK'
    BY TypeStep DEF IInv
  <1>2. CASE Next
    BY <1>1, <1>2, PanelTiming, SendTiming, SkipTiming, UnlockTiming, ThreadTiming, TickTiming
       DEF Next, IInv
  <1>3. CASE UNCHANGED vars
    BY <1>1, <1>3 DEF vars, jobVars, threadVars, IInv, SettledInv, StampInv, DueInv, InRound
  <1>4. QED
    BY <1>2, <1>3

LEMMA InvInit == Init => IInv
  BY TypeInit DEF Init, IInv, SettledInv, StampInv, DueInv

LEMMA InvImplies == IInv => OncePerPeriod
  <1> SUFFICES ASSUME IInv, NEW j \in settled, at # "off"
               PROVE  idle[j] <= period[j] + 2 * MaxRound + Jitter - 1
    BY DEF IInv, StampInv, OncePerPeriod, SettledInv
  <1>1. age[j] <= period[j] + 2 * MaxRound + Jitter - 1
    <2>1. CASE at = "waiting"
      BY <2>1, TimesAreInts, Constants DEF IInv, DueInv
    <2>2. CASE InRound
      BY <2>2, TimesAreInts, Constants DEF IInv, DueInv
    <2>3. QED
      BY <2>1, <2>2 DEF InRound, IInv, TypeOK
  <1>2. QED
    BY <1>1, TimesAreInts, Constants DEF IInv, StampInv

\* However long a round waits for its mutex and its sends, and however late the
\* thread wakes up: two sends of a job that is left alone are a period apart, less at
\* most a round, and the next one comes within two rounds and a late wake-up of it.
THEOREM SentOncePerPeriod == Spec => []OncePerPeriod
  <1>1. Spec => []IInv
    BY InvInit, InvStep, PTL DEF Spec
  <1>2. QED
    BY <1>1, InvImplies, PTL
=============================================================================
