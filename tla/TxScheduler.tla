------------------------------ MODULE TxScheduler ------------------------------
(***************************************************************************)
(* When the transmit scheduler sends.  Its thread goes in rounds: it reads *)
(* the clock, takes the mutex, sends every enabled job whose period has    *)
(* passed, and sleeps until the next one is due.  The transmitter panel    *)
(* adds, starts, stops, re-times and removes jobs under the same mutex,    *)
(* and does not wake the thread.                                           *)
(*                                                                         *)
(* Time is counted in ticks, any number of them to a millisecond, where    *)
(* the code has floats, and only differences are kept: how long ago each   *)
(* last_sent is, how far the round has got, how long is left to sleep.     *)
(* What a job sends, and whether the adapter takes it, makes no difference *)
(* to when it is sent.                                                     *)
(***************************************************************************)
EXTENDS Integers, FiniteSets

CONSTANTS Jobs,      \* jobs the list may hold
          Ms,        \* ticks in a millisecond
          Periods,   \* periods that can be set, in ticks like every time below
          Default,   \* tx_job::period_ms
          MaxWait,   \* the longest wait between two rounds
          MaxRound,  \* how long a round may wait for the mutex and for sends
          Jitter,    \* how late a sleep may end
          Cap        \* bound: times are not counted beyond

ASSUME TxConstants ==
  /\ Periods \subseteq Nat \ {0} /\ IsFiniteSet(Periods) /\ Default \in Periods
  /\ Ms \in Nat \ {0} /\ MaxWait \in Nat \ {0} /\ MaxRound \in Nat \ {0} /\ Jitter \in Nat /\ Cap \in Nat
  /\ \A p \in Periods : Cap > p + 2 * MaxRound + Jitter

VARIABLES
  listed,    \* jobs_
  enabled,   \* those that are enabled
  period,    \* period_ms of each
  age,       \* time since its last_sent
  idle,      \* time since it was really sent
  settled,   \* jobs sent since their last change and the thread's start
  gap,       \* for those, the time between the last two sends, 0 before
  at,        \* where the thread is
  spent,     \* time since the round's clock was read
  wait,      \* min_wait_ms
  todo,      \* jobs the round has still to look at
  nap,       \* time left to sleep
  stop       \* the GUI thread is in stop()

jobVars == <<listed, enabled, period, settled, gap>>
threadVars == <<at, wait, todo>>
vars == <<jobVars, age, idle, threadVars, spent, nap, stop>>

Init == /\ listed = {} /\ enabled = {} /\ settled = {}
        /\ period = [j \in Jobs |-> Default]
        /\ age = [j \in Jobs |-> Cap] /\ idle = [j \in Jobs |-> Cap]
        /\ gap = [j \in Jobs |-> 0]
        /\ at = "off" /\ spent = 0 /\ wait = MaxWait /\ todo = {}
        /\ nap = 0 /\ stop = FALSE

AtMost(m, n) == IF m < n THEN m ELSE n
-----------------------------------------------------------------------------
(* The panel, on the GUI thread.  It needs the mutex, which a round holds   *)
(* while it sends.                                                          *)

MutexFree == at # "sending" /\ ~stop

Unsettle(j) == settled' = settled \ {j} /\ gap' = [gap EXCEPT ![j] = 0]

\* upsert() of a job with a fresh instance_id: last_sent is the epoch.
Add(j) ==
  /\ MutexFree /\ j \notin listed
  /\ listed' = listed \cup {j} /\ enabled' = enabled \ {j}
  /\ period' = [period EXCEPT ![j] = Default]
  /\ age' = [age EXCEPT ![j] = Cap] /\ idle' = [idle EXCEPT ![j] = Cap]
  /\ Unsettle(j)
  /\ UNCHANGED <<threadVars, spent, nap, stop>>

\* The Start and Stop buttons.  last_sent stays.
Toggle(j) ==
  /\ MutexFree /\ j \in listed
  /\ enabled' = IF j \in enabled THEN enabled \ {j} ELSE enabled \cup {j}
  /\ Unsettle(j)
  /\ UNCHANGED <<listed, period, age, idle, threadVars, spent, nap, stop>>

SetPeriod(j, p) ==
  /\ MutexFree /\ j \in listed /\ period[j] # p
  /\ period' = [period EXCEPT ![j] = p]
  /\ Unsettle(j)
  /\ UNCHANGED <<listed, enabled, age, idle, threadVars, spent, nap, stop>>

RemoveUnlocked(j) ==
  /\ ~stop /\ j \in listed
  /\ listed' = listed \ {j} /\ enabled' = enabled \ {j}
  /\ Unsettle(j)
  /\ UNCHANGED <<period, age, idle, threadVars, spent, nap, stop>>

Remove(j) ==
  /\ MutexFree /\ j \in listed
  /\ listed' = listed \ {j} /\ enabled' = enabled \ {j}
  /\ Unsettle(j)
  /\ UNCHANGED <<period, age, idle, threadVars, spent, nap, stop>>

\* start() and stop(), which joins the thread.
StartThread ==
  /\ at = "off" /\ ~stop
  /\ at' = "waiting" /\ nap' = 0
  /\ UNCHANGED <<jobVars, age, idle, wait, todo, spent, stop>>

StopThread ==
  /\ at # "off" /\ ~stop
  /\ stop' = TRUE
  /\ UNCHANGED <<jobVars, age, idle, threadVars, spent, nap>>
-----------------------------------------------------------------------------
(* run().                                                                   *)

\* The stop token is looked at before each round only.
Stopped ==
  /\ at = "waiting" /\ nap <= 0 /\ stop
  /\ at' = "off" /\ stop' = FALSE /\ nap' = 0
  /\ settled' = {} /\ gap' = [j \in Jobs |-> 0]
  /\ UNCHANGED <<listed, enabled, period, age, idle, wait, todo, spent>>

ReadClock ==
  /\ at = "waiting" /\ nap <= 0 /\ ~stop
  /\ at' = "stamped" /\ spent' = 0 /\ wait' = MaxWait /\ nap' = 0
  /\ UNCHANGED <<jobVars, age, idle, todo, stop>>

Lock ==
  /\ at = "stamped"
  /\ at' = "sending" /\ todo' = listed \cap enabled
  /\ UNCHANGED <<jobVars, age, idle, wait, spent, nap, stop>>

\* The time that had passed since last_sent when the round read the clock.
Elapsed(j) == age[j] - spent

Sent(j) ==
  /\ idle' = [idle EXCEPT ![j] = 0]
  /\ settled' = settled \cup {j}
  /\ gap' = [gap EXCEPT ![j] = IF j \in settled THEN idle[j] ELSE 0]

\* last_sent becomes the round's clock, whatever the adapter answers.
Send(j) ==
  /\ at = "sending" /\ j \in todo /\ Elapsed(j) >= period[j]
  /\ Sent(j)
  /\ age' = [age EXCEPT ![j] = spent]
  /\ wait' = AtMost(wait, period[j])
  /\ todo' = todo \ {j}
  /\ UNCHANGED <<listed, enabled, period, at, spent, nap, stop>>

Skip(j) ==
  /\ at = "sending" /\ j \in todo /\ Elapsed(j) < period[j]
  /\ wait' = AtMost(wait, period[j] - Elapsed(j))
  /\ todo' = todo \ {j}
  /\ UNCHANGED <<jobVars, age, idle, at, spent, nap, stop>>

NapAsLongAsWait == wait

\* A wait below two milliseconds is spun out to a deadline counted from the round's
\* clock, which may have passed; a longer one is slept, less a millisecond, from now.
Nap == IF wait < 2 * Ms THEN wait - spent ELSE wait - Ms

Unlock ==
  /\ at = "sending" /\ todo = {}
  /\ at' = "waiting" /\ nap' = Nap
  /\ UNCHANGED <<jobVars, age, idle, wait, todo, spent, stop>>
-----------------------------------------------------------------------------
Older(t) == [j \in Jobs |-> AtMost(t[j] + 1, Cap)]

\* A round is over MaxRound after it read the clock, and a sleep Jitter after it
\* should be.
Tick ==
  /\ \/ at = "off"
     \/ at \in {"stamped", "sending"} /\ spent < MaxRound
     \/ at = "waiting" /\ nap > -Jitter
  /\ age' = Older(age) /\ idle' = Older(idle)
  /\ spent' = IF at \in {"stamped", "sending"} THEN spent + 1 ELSE spent
  /\ nap' = IF at = "waiting" THEN nap - 1 ELSE nap
  /\ UNCHANGED <<jobVars, threadVars, stop>>

Next ==
  \/ \E j \in Jobs :
       \/ Add(j) \/ Toggle(j) \/ Remove(j) \/ Send(j) \/ Skip(j)
       \/ \E p \in Periods : SetPeriod(j, p)
  \/ StartThread \/ StopThread \/ Stopped
  \/ ReadClock \/ Lock \/ Unlock \/ Tick

Spec == Init /\ [][Next]_vars
-----------------------------------------------------------------------------
TypeOK ==
  /\ enabled \subseteq listed /\ listed \subseteq Jobs /\ settled \subseteq Jobs
  /\ period \in [Jobs -> Periods]
  /\ age \in [Jobs -> 0..Cap] /\ idle \in [Jobs -> 0..Cap] /\ gap \in [Jobs -> 0..Cap]
  /\ at \in {"off", "waiting", "stamped", "sending"}
  /\ spent \in 0..MaxRound /\ wait \in 1..MaxWait
  /\ todo \subseteq enabled /\ (at # "sending" => todo = {})
  /\ nap \in -(MaxRound + Jitter)..MaxWait /\ stop \in BOOLEAN

\* A job that is left alone while the thread runs is sent once a period, for ever:
\* two sends are apart its period, less at most the length of a round, and more by
\* less than two rounds and one late wake-up, whatever is done with the other jobs
\* and whether or not the adapter accepts the frames.
OncePerPeriod ==
  \A j \in settled :
    /\ gap[j] # 0 => gap[j] >= period[j] - MaxRound
    /\ j \in enabled /\ at # "off" => idle[j] <= period[j] + 2 * MaxRound + Jitter - 1
==============================================================================
