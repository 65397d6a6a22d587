-------------------------- MODULE KvaserSharedProofs --------------------------
(***************************************************************************)
(* For any card, any number of channels and any order in which they open,  *)
(* fail to open and close: the shared handle stays open while a channel    *)
(* uses it and no longer, an open channel is on the bus, and one that has  *)
(* the device to itself gets its frames.                                   *)
(*                                                                         *)
(* IInv is the invariant of the registry, the adapters and the place of    *)
(* the call that is on its way; nothing of it depends on what the card     *)
(* answers.  CardInv, kept given IInv, adds the commands and the endpoint. *)
(***************************************************************************)
EXTENDS KvaserShared, FiniteSetTheorems, SequenceTheorems, TLAPS

Row == [dev : Handles, ctx : Contexts, refcount : Nat, init_done : BOOLEAN]

\* The places of open() and close() past the registry's first look.
Busy == {"endpoints", "flush", "send", "wait", "returning"}

RegistryType ==
  /\ live \subseteq Handles /\ liveCtx \subseteq Contexts
  /\ registry \in Seq(Row)
  /\ handle \in [Channels -> Handles \cup {None}]
  /\ ctx \in [Channels -> Contexts \cup {None}]
  /\ open \subseteq Channels /\ abandoned \in Nat
  /\ gui \in Busy \cup {"idle", "opening", "joining"}
  /\ call \in Calls /\ chan \in Channels \cup {None}

\* Who holds a handle in the middle of a call.
CallInv ==
  /\ Users = open \cup (IF call = "close" THEN {} ELSE {chan})
  /\ gui = "idle" => call = "close"
  /\ gui = "opening" => call = "close" /\ chan \in Channels \ open
  /\ gui = "joining" => call = "close" /\ chan \in open
  /\ gui \in Busy => chan \in Channels /\ (call = "close" <=> chan \in open)
  /\ call # "close" => gui \in Busy

\* i is where a search of the entries r for a handle ends, 0 if there is none.
Finds(r, h, i) ==
  IF i = 0 THEN \A j \in 1..Len(r) : r[j].dev # h
  ELSE /\ i \in 1..Len(r) /\ r[i].dev = h
       /\ \A j \in 1..Len(r) : r[j].dev = h => i <= j

\* The device is open once.  The entry that later channels use is the first for
\* its handle; an entry that is not initialised is that of the call on its way, or
\* what a failed one has left, and counts one channel.
EntryInv ==
  \A i \in 1..Len(registry) :
    IF registry[i].init_done
    THEN registry[i].dev \in live /\ Finds(registry, registry[i].dev, i)
    ELSE registry[i].refcount = 1

LiveInv ==
  /\ \A g, h \in live : g = h
  /\ call = "first" => \A i \in 1..Len(registry) : ~registry[i].init_done
  /\ call # "first" /\ live # {} => \E i \in 1..Len(registry) : registry[i].init_done

\* The channels that hold a handle.
Holders(h) == {c \in Users : handle[c] = h}

CountInv ==
  \A h \in live, i \in 0..Len(registry) :
    Finds(registry, h, i) =>
      /\ i # 0 /\ registry[i].refcount > 0
      /\ registry[i].refcount = Cardinality(Holders(h)) + abandoned

\* The context of a channel is the one its entry was made with.
NoTwins == \A i, j \in 1..Len(registry) : registry[i].dev = registry[j].dev => i = j

CtxInv ==
  NoTwins => \A i \in 1..Len(registry) :
    /\ registry[i].dev \in live => registry[i].ctx \in liveCtx
    /\ \A c \in Users : registry[i].dev = handle[c] => registry[i].ctx = ctx[c]

IInv == RegistryType /\ CallInv /\ EntryInv /\ LiveInv /\ HandlesLive /\ CountInv /\ CtxInv
-----------------------------------------------------------------------------
(* The registry.                                                            *)

LEMMA MinFacts ==
  ASSUME NEW S, S \subseteq Nat, S # {}
  PROVE  Min(S) \in S /\ \A y \in S : Min(S) <= y
  <1> DEFINE R == {ss \in Nat \X Nat : ss[1] < ss[2]}
  <1>1. IsWellFoundedOn(R, Nat)
    BY NatLessThanWellFounded, Zenon DEF OpToRel
  <1> HIDE DEF R
  <1>2. PICK x \in S : \A y \in S : <<y, x>> \notin R
    BY <1>1, WFMin, Zenon
  <1>3. ASSUME NEW y \in S PROVE x <= y
    <2>1. x \in Nat /\ y \in Nat /\ <<y, x>> \notin R
      BY <1>2
    <2>2. y < x => <<y, x>> \in R
      BY <2>1 DEF R
    <2>3. QED
      BY <2>1, <2>2
  <1>4. QED
    BY <1>3 DEF Min

LEMMA EntryFacts ==
  ASSUME registry \in Seq(Row), NEW h
  PROVE  Finds(registry, h, EntryOf(h)) /\ EntryOf(h) \in 0..Len(registry)
  <1> DEFINE I == {i \in 1..Len(registry) : registry[i].dev = h}
  <1>1. EntryOf(h) = IF I # {} THEN Min(I) ELSE 0
    BY DEF EntryOf, SelectInSeq
  <1>2. I \subseteq Nat
    OBVIOUS
  <1>3. I # {} => Min(I) \in I /\ \A y \in I : Min(I) <= y
    BY <1>2, MinFacts
  <1>4. QED
    BY <1>1, <1>3 DEF Finds

LEMMA UsableFacts ==
  ASSUME registry \in Seq(Row)
  PROVE  /\ Usable \in 0..Len(registry)
         /\ Usable = 0 => \A i \in 1..Len(registry) : ~registry[i].init_done
         /\ Usable # 0 => registry[Usable].init_done
  <1> DEFINE I == {i \in 1..Len(registry) : registry[i].init_done}
  <1>1. Usable = IF I # {} THEN Min(I) ELSE 0
    BY DEF Usable, SelectInSeq
  <1>2. I \subseteq Nat
    OBVIOUS
  <1>3. I # {} => Min(I) \in I
    BY <1>2, MinFacts
  <1>4. QED
    BY <1>1, <1>3

LEMMA HoldersFacts ==
  ASSUME RegistryType, NEW h \in Handles
  PROVE  /\ Holders(h) = {c \in Channels : handle[c] = h}
         /\ IsFiniteSet(Holders(h)) /\ Cardinality(Holders(h)) \in Nat
         /\ (Cardinality(Holders(h)) = 0) <=> (Holders(h) = {})
         /\ \A c \in Holders(h) : Cardinality(Holders(h)) = 1 => Holders(h) = {c}
  <1>1. Holders(h) = {c \in Channels : handle[c] = h}
    BY KvaserConstants DEF Holders, Users
  <1>2. IsFiniteSet(Holders(h))
    <2>1. Holders(h) \in SUBSET Channels /\ IsFiniteSet(Channels)
      BY <1>1, KvaserConstants
    <2>2. QED
      BY <2>1, FS_Subset
  <1>3. Cardinality(Holders(h)) \in Nat /\ (Cardinality(Holders(h)) = 0 <=> Holders(h) = {})
    BY <1>2, FS_CardinalityType, FS_EmptySet
  <1>4. Cardinality(Holders(h)) = 1 => \E x : Holders(h) = {x}
    BY <1>2, FS_Singleton
  <1>5. QED
    BY <1>1, <1>2, <1>3, <1>4
-----------------------------------------------------------------------------
(* The steps that leave the registry alone only move the call along.        *)

RegistryStep ==
  \/ \E h \in Handles, x \in Contexts : OpenFirst(h, x)
  \/ OpenSecond \/ FirstFails \/ SecondFails \/ Opened \/ Released \/ StillShared

\* A step of the call that is on its way, or one that has nothing to do with it.
CallMoves ==
  /\ UNCHANGED registryVars /\ call' = call
  /\ \/ gui' = gui /\ chan' = chan
     \/ gui \in Busy /\ gui' \in Busy /\ chan' = chan
     \/ gui = "idle" /\ gui' = "opening" /\ chan' \in Channels \ open
     \/ gui = "idle" /\ gui' = "joining" /\ chan' \in open
     \/ gui = "opening" /\ gui' = "idle" /\ chan' = None
     \/ gui = "joining" /\ gui' \in Busy /\ chan' = chan

LEMMA OtherSteps ==
  ASSUME RegistryType, CallInv, [Next]_vars
  PROVE  RegistryStep \/ CallMoves
  <1>1. CASE UNCHANGED vars
    BY <1>1 DEF vars, callVars, CallMoves
  <1>2. CASE IoNext
    BY <1>2 DEF IoNext, IoChecks, IoTimesOut, IoReads, callVars, CallMoves
  <1>3. CASE DeviceNext
    BY <1>3 DEF DeviceNext, DeviceAnswers, ReportsState, ReceivesFrame, callVars, CallMoves
  <1>4. CASE GuiNext
    <2>1. CASE \E c \in Channels : Connect(c) \/ Disconnect(c)
      BY <2>1 DEF Connect, Disconnect, CallMoves
    <2>2. CASE OpenRefused \/ EndpointsFound \/ FlushEnds \/ StopUnanswered
      BY <2>2 DEF OpenRefused, EndpointsFound, FlushEnds, StopUnanswered, Idle, CallMoves,
                  CallInv, Busy
    <2>3. CASE Close
      BY <2>3 DEF Close, Begin, CallMoves, CallInv, Busy
    <2>4. CASE Send \/ \E k \in 1..Len(ep) : FlushReads(k) \/ WaitReads(k)
      BY <2>4 DEF Send, FlushReads, WaitReads, Advance, CallMoves, callVars, Busy
    <2>5. QED
      BY <1>4, <2>1, <2>2, <2>3, <2>4 DEF GuiNext, RegistryStep
  <1>5. QED
    BY <1>1, <1>2, <1>3, <1>4 DEF Next

LEMMA CallMovesInv == ASSUME IInv, CallMoves PROVE IInv'
  <1>1. RegistryType'
    BY DEF IInv, RegistryType, CallMoves, registryVars
  <1>2. CallInv'
    BY KvaserConstants DEF IInv, RegistryType, CallInv, CallMoves, registryVars, Users, Busy
  <1>3. Users' = Users /\ \A h : Holders(h)' = Holders(h)
    BY DEF CallMoves, registryVars, Users, Holders
  <1>4. EntryInv' /\ LiveInv'
    BY DEF IInv, EntryInv, LiveInv, CallMoves, registryVars
  <1>5. HandlesLive' /\ CountInv' /\ CtxInv'
    BY <1>3 DEF IInv, HandlesLive, CountInv, CtxInv, NoTwins, CallMoves, registryVars
  <1>6. QED
    BY <1>1, <1>2, <1>4, <1>5 DEF IInv
-----------------------------------------------------------------------------
(* open().                                                                  *)

\* Nobody holds a handle and no entry is usable: the device is closed.
LEMMA NothingLive ==
  ASSUME IInv, gui = "opening", Usable = 0
  PROVE  /\ live = {} /\ Users = {} /\ open = {} /\ chan \in Channels
         /\ \A i \in 1..Len(registry) : ~registry[i].init_done /\ registry[i].refcount = 1
  <1>1. \A i \in 1..Len(registry) : ~registry[i].init_done
    BY UsableFacts DEF IInv, RegistryType
  <1>2. live = {} /\ chan \in Channels
    BY <1>1 DEF IInv, CallInv, LiveInv
  <1>3. Users = {} /\ open = {}
    BY <1>2 DEF IInv, CallInv, HandlesLive
  <1>4. QED
    BY <1>1, <1>2, <1>3 DEF IInv, EntryInv

LEMMA OpenFirstInv ==
  ASSUME IInv, NEW h \in Handles, NEW x \in Contexts, OpenFirst(h, x)
  PROVE  IInv'
  <1> DEFINE e == [dev |-> h, ctx |-> x, refcount |-> 1, init_done |-> FALSE]
             n == Len(registry)
  <1>1. /\ live = {} /\ Users = {} /\ open = {} /\ chan \in Channels
        /\ \A i \in 1..n : ~registry[i].init_done /\ registry[i].refcount = 1
    BY NothingLive DEF OpenFirst
  <1>2. e \in Row /\ registry \in Seq(Row) /\ n \in Nat
    BY DEF Row, IInv, RegistryType
  <1>3. /\ registry' \in Seq(Row) /\ Len(registry') = n + 1
        /\ registry'[n + 1] = e /\ \A i \in 1..n : registry'[i] = registry[i]
    BY <1>2 DEF OpenFirst
  <1>4. e.dev = h /\ e.ctx = x /\ e.refcount = 1 /\ e.init_done = FALSE
    OBVIOUS
  <1> HIDE DEF e, n
  <1>5. RegistryType'
    BY <1>1, <1>3 DEF OpenFirst, Begin, IInv, RegistryType, Busy, Calls
  <1>6. /\ \A c \in Channels : handle'[c] = IF c = chan THEN h ELSE None
        /\ ctx'[chan] = x /\ Users' = {chan} /\ Holders(h)' = {chan}
    <2>1. \A c \in Channels : handle[c] = None
      BY <1>1 DEF Users
    <2>2. handle \in [Channels -> Handles \cup {None}] /\ ctx \in [Channels -> Contexts \cup {None}]
      BY DEF IInv, RegistryType
    <2>3. \A c \in Channels : handle'[c] = IF c = chan THEN h ELSE None
      BY <2>1, <2>2 DEF OpenFirst
    <2>4. QED
      BY <1>1, <2>2, <2>3, KvaserConstants DEF OpenFirst, Users, Holders
  <1>7. \A i \in 1..(n + 1) : ~registry'[i].init_done /\ registry'[i].refcount = 1
    BY <1>1, <1>2, <1>3, <1>4
  <1>8. CallInv'
    BY <1>1, <1>6 DEF OpenFirst, Begin, CallInv, Busy
  <1>9. EntryInv' /\ LiveInv'
    BY <1>1, <1>3, <1>7 DEF OpenFirst, Begin, EntryInv, LiveInv
  <1>10. HandlesLive'
    BY <1>1, <1>6 DEF OpenFirst, HandlesLive
  <1>11. CountInv'
    <2>1. Cardinality(Holders(h)') = 1
      BY <1>6, FS_Singleton
    <2>2. live' = {h} /\ abandoned' = 0
      BY <1>1 DEF OpenFirst
    <2>3. ASSUME NEW i \in 0..(n + 1), Finds(registry', h, i)
          PROVE  i # 0 /\ registry'[i].refcount = 1
      BY <1>2, <1>3, <1>4, <1>7, <2>3 DEF Finds
    <2>4. QED
      BY <1>3, <2>1, <2>2, <2>3 DEF CountInv
  <1>12. CtxInv'
    <2>1. x \in liveCtx' /\ live' = {h}
      BY <1>1 DEF OpenFirst
    <2>2. NoTwins' => \A i \in 1..(n + 1) : registry'[i].dev = h => i = n + 1
      BY <1>2, <1>3, <1>4 DEF NoTwins
    <2>3. QED
      BY <1>1, <1>3, <1>4, <1>6, <2>1, <2>2 DEF CtxInv
  <1>13. QED
    BY <1>5, <1>8, <1>9, <1>10, <1>11, <1>12 DEF IInv

\* What an adapter that holds a handle knows of the registry.
LEMMA UserFacts ==
  ASSUME IInv, NEW c \in Users
  PROVE  LET h == handle[c]
             i == EntryOf(h)
         IN /\ c \in Channels /\ h \in Handles /\ live = {h}
            /\ i \in 1..Len(registry) /\ Finds(registry, h, i)
            /\ registry[i] \in Row /\ registry[i].dev = h
            /\ registry[i].refcount = Cardinality(Holders(h)) + abandoned
            /\ registry[i].refcount > 0
  <1> DEFINE h == handle[c]
             i == EntryOf(h)
  <1>1. c \in Channels /\ h \in Handles /\ live = {h}
    BY DEF IInv, RegistryType, LiveInv, HandlesLive, Users
  <1>2. registry \in Seq(Row)
    BY DEF IInv, RegistryType
  <1>3. Finds(registry, h, i) /\ i \in 0..Len(registry)
    BY <1>2, EntryFacts
  <1>4. /\ i # 0 /\ registry[i].refcount > 0
        /\ registry[i].refcount = Cardinality(Holders(h)) + abandoned
    BY <1>1, <1>3 DEF IInv, CountInv
  <1>5. QED
    BY <1>1, <1>2, <1>3, <1>4 DEF Finds

LEMMA SameDevs ==
  ASSUME NEW q, NEW r, Len(q) = Len(r), Len(r) \in Nat,
         \A i \in 1..Len(r) : q[i].dev = r[i].dev
  PROVE  \A h, i : Finds(q, h, i) <=> Finds(r, h, i)
  BY DEF Finds

\* Changing the count of an entry.
LEMMA CountFacts ==
  ASSUME NEW r \in Seq(Row), NEW k \in 1..Len(r), NEW m \in Nat
  PROVE  LET q == [r EXCEPT ![k].refcount = m] IN
         /\ q \in Seq(Row) /\ Len(q) = Len(r)
         /\ \A i \in 1..Len(r) : /\ q[i].dev = r[i].dev /\ q[i].ctx = r[i].ctx
                                 /\ q[i].init_done = r[i].init_done
                                 /\ q[i].refcount = IF i = k THEN m ELSE r[i].refcount
  <1> DEFINE q == [r EXCEPT ![k].refcount = m]
  <1>1. \A i \in 1..Len(r) : r[i] \in Row
    OBVIOUS
  <1>2. \A i \in 1..Len(r) : q[i] = IF i = k THEN [r[k] EXCEPT !.refcount = m] ELSE r[i]
    OBVIOUS
  <1>3. LET e == [r[k] EXCEPT !.refcount = m]
        IN /\ e \in Row /\ e.dev = r[k].dev /\ e.ctx = r[k].ctx
           /\ e.init_done = r[k].init_done /\ e.refcount = m
    BY <1>1 DEF Row
  <1>4. Len(q) = Len(r) /\ q \in Seq(Row)
    BY <1>1, <1>3
  <1>5. QED
    BY <1>2, <1>3, <1>4

LEMMA OpenSecondInv == ASSUME IInv, OpenSecond PROVE IInv'
  <1> DEFINE n == Len(registry)
  <1>types. registry \in Seq(Row) /\ n \in Nat
    BY DEF IInv, RegistryType
  <1>usable. PICK k \in 1..n : k = Usable
    BY <1>types, UsableFacts DEF OpenSecond
  <1>1. /\ registry \in Seq(Row) /\ n \in Nat /\ k \in 1..n
        /\ registry[k] \in Row /\ registry[k].init_done
    BY <1>types, <1>usable, UsableFacts DEF OpenSecond
  <1>2. PICK h \in Handles : h = registry[k].dev /\ live = {h} /\ Finds(registry, h, k)
    <2>1. registry[k].dev \in live /\ Finds(registry, registry[k].dev, k)
      BY <1>1 DEF IInv, EntryInv
    <2>2. QED
      BY <2>1 DEF IInv, LiveInv, RegistryType
  <1>3. chan \in Channels \ open /\ call = "close" /\ chan \notin Users
    BY DEF OpenSecond, IInv, CallInv
  <1>4. registry[k].refcount \in Nat /\ registry[k].refcount = Cardinality(Holders(h)) + abandoned
    BY <1>1, <1>2 DEF IInv, CountInv, Row
  <1> DEFINE m == registry[k].refcount + 1
  <1>5. registry' = [registry EXCEPT ![k].refcount = m]
    BY <1>usable DEF OpenSecond
  <1>6. registry[k].ctx \in Contexts
    BY <1>1 DEF Row
  <1>7. /\ live' = live /\ liveCtx' = liveCtx /\ open' = open /\ abandoned' = abandoned
        /\ gui' = "flush" /\ call' = "second" /\ chan' = chan
        /\ handle' = [handle EXCEPT ![chan] = h] /\ ctx' = [ctx EXCEPT ![chan] = registry[k].ctx]
    BY <1>usable, <1>2 DEF OpenSecond, Begin
  <1> HIDE DEF n, m
  <1>8. /\ registry' \in Seq(Row) /\ Len(registry') = n
        /\ \A i \in 1..n : /\ registry'[i].dev = registry[i].dev /\ registry'[i].ctx = registry[i].ctx
                           /\ registry'[i].init_done = registry[i].init_done
                           /\ registry'[i].refcount = IF i = k THEN m ELSE registry[i].refcount
    <2>1. m \in Nat
      BY <1>4 DEF m
    <2>2. QED
      BY <1>1, <1>5, <2>1, CountFacts DEF n
  <1>9. RegistryType'
    BY <1>2, <1>6, <1>7, <1>8 DEF IInv, RegistryType, Busy, Calls
  <1>10. /\ Users' = Users \cup {chan} /\ Holders(h)' = Holders(h) \cup {chan}
         /\ \A c \in Users : handle'[c] = handle[c] /\ ctx'[c] = ctx[c]
         /\ handle'[chan] = h /\ ctx'[chan] = registry[k].ctx
    <2>1. handle \in [Channels -> Handles \cup {None}] /\ ctx \in [Channels -> Contexts \cup {None}]
      BY DEF IInv, RegistryType
    <2>2. \A c \in Channels : /\ handle'[c] = IF c = chan THEN h ELSE handle[c]
                              /\ c # chan => ctx'[c] = ctx[c]
      BY <1>7, <2>1
    <2>3. ctx'[chan] = registry[k].ctx
      BY <1>3, <1>7, <2>1
    <2>4. Users' = Users \cup {chan}
      BY <1>2, <1>3, <2>2, KvaserConstants DEF Users
    <2>5. QED
      BY <1>3, <2>2, <2>3, <2>4 DEF Users, Holders
  <1>11. \A g, i : Finds(registry', g, i) <=> Finds(registry, g, i)
    BY <1>1, <1>8, SameDevs DEF n
  <1>12. CallInv'
    BY <1>3, <1>7, <1>10 DEF IInv, CallInv, Busy
  <1>13. EntryInv'
    BY <1>1, <1>7, <1>8, <1>11 DEF IInv, EntryInv, n
  <1>14. LiveInv'
    BY <1>1, <1>2, <1>7, <1>8 DEF LiveInv, n
  <1>15. HandlesLive'
    BY <1>2, <1>7, <1>10 DEF IInv, HandlesLive
  <1>16. CountInv'
    <2>1. Cardinality(Holders(h)') = Cardinality(Holders(h)) + 1 /\ Cardinality(Holders(h)) \in Nat
      <3>1. IsFiniteSet(Holders(h)) /\ Cardinality(Holders(h)) \in Nat
        BY <1>2, HoldersFacts DEF IInv
      <3>2. chan \notin Holders(h)
        BY <1>3 DEF Holders
      <3>3. QED
        BY <1>10, <3>1, <3>2, FS_AddElement
    <2>2. ASSUME NEW i \in 0..n, Finds(registry, h, i)
          PROVE  i = k
      BY <1>1, <1>2, <2>2 DEF Finds, n
    <2>3. k # 0 /\ registry'[k].refcount = m
      BY <1>1, <1>8
    <2>4. m > 0 /\ m = Cardinality(Holders(h)') + abandoned
      BY <1>4, <2>1 DEF m, IInv, RegistryType
    <2>5. SUFFICES ASSUME NEW i \in 0..n, Finds(registry', h, i)
                   PROVE  /\ i # 0 /\ registry'[i].refcount > 0
                          /\ registry'[i].refcount = Cardinality(Holders(h)') + abandoned
      BY <1>2, <1>7, <1>8 DEF CountInv
    <2>6. QED
      BY <1>11, <2>2, <2>3, <2>4, <2>5
  <1>17. CtxInv'
    <2>1. NoTwins' <=> NoTwins
      BY <1>8 DEF NoTwins, n
    <2>2. NoTwins => \A i \in 1..n : registry[i].dev = h => i = k
      BY <1>1, <1>2 DEF NoTwins, n
    <2>3. QED
      BY <1>2, <1>7, <1>8, <1>10, <2>1, <2>2 DEF IInv, CtxInv, n
  <1>18. QED
    BY <1>9, <1>12, <1>13, <1>14, <1>15, <1>16, <1>17 DEF IInv
-----------------------------------------------------------------------------
(* Opens that fail, and what open() leaves when it returns.                 *)

LEMMA FirstFailsInv == ASSUME IInv, FirstFails PROVE IInv'
  <1> DEFINE h == handle[chan]
             i == EntryOf(h)
  <1>1. call = "first" /\ chan \in Users /\ open \cup {chan} = Users
    BY DEF FirstFails, IInv, CallInv
  <1>2. /\ h \in Handles /\ live = {h} /\ i \in 1..Len(registry)
        /\ registry[i].refcount = Cardinality(Holders(h)) + abandoned
    BY <1>1, UserFacts
  <1>3. Users = {chan} /\ chan \notin open /\ open = {}
    <2>1. registry[i].refcount = 1
      BY <1>1, <1>2 DEF IInv, EntryInv, LiveInv
    <2>2. Holders(h) = Users
      BY <1>2 DEF IInv, HandlesLive, Holders
    <2>3. Cardinality(Holders(h)) = 1
      <3>1. Cardinality(Holders(h)) \in Nat /\ (Cardinality(Holders(h)) = 0 <=> Holders(h) = {})
        BY <1>2, HoldersFacts DEF IInv
      <3>2. QED
        BY <1>1, <1>2, <2>1, <2>2, <3>1 DEF IInv, RegistryType
    <2>4. Holders(h) = {chan}
      BY <1>1, <1>2, <2>2, <2>3, HoldersFacts DEF IInv
    <2>5. QED
      BY <1>1, <2>2, <2>4 DEF FirstFails, IInv, CallInv, Busy
  <1>4. /\ live' = {} /\ Users' = {} /\ registry' = registry /\ call' = "close" /\ gui' = "idle"
        /\ open' = {}
    BY <1>2, <1>3 DEF FirstFails, Idle, Users, IInv, RegistryType
  <1>5. RegistryType'
    BY DEF FirstFails, Idle, IInv, RegistryType, Calls
  <1>6. CallInv' /\ HandlesLive' /\ CountInv' /\ CtxInv'
    BY <1>4 DEF CallInv, HandlesLive, CountInv, CtxInv, Busy
  <1>7. EntryInv' /\ LiveInv'
    BY <1>1, <1>4 DEF IInv, EntryInv, LiveInv
  <1>8. QED
    BY <1>5, <1>6, <1>7 DEF IInv

\* An adapter lets go of its handle.
LEMMA LeaveFacts ==
  ASSUME IInv, chan \in Users, NEW h \in Handles, handle[chan] = h,
         handle' = [handle EXCEPT ![chan] = None], ctx' = [ctx EXCEPT ![chan] = None]
  PROVE  /\ Users' = Users \ {chan} /\ Holders(h)' = Holders(h) \ {chan}
         /\ \A c \in Users' : handle'[c] = handle[c] /\ ctx'[c] = ctx[c]
         /\ Cardinality(Holders(h)') = Cardinality(Holders(h)) - 1
         /\ Cardinality(Holders(h)) \in Nat
  <1>1. /\ handle \in [Channels -> Handles \cup {None}]
        /\ ctx \in [Channels -> Contexts \cup {None}]
        /\ chan \in Channels
    BY DEF IInv, RegistryType, Users
  <1>2. \A c \in Channels : /\ handle'[c] = IF c = chan THEN None ELSE handle[c]
                            /\ c # chan => ctx'[c] = ctx[c]
    BY <1>1
  <1>3. Users' = Users \ {chan}
    BY <1>2 DEF Users
  <1>4. Holders(h)' = {c \in Users' : handle'[c] = h}
    BY DEF Holders
  <1>5. Holders(h)' = Holders(h) \ {chan}
    BY <1>2, <1>3, <1>4 DEF Users, Holders
  <1>6. chan \in Holders(h)
    BY DEF Holders
  <1>7. IsFiniteSet(Holders(h)) /\ Cardinality(Holders(h)) \in Nat
    BY HoldersFacts DEF IInv
  <1>8. Cardinality(Holders(h)') = Cardinality(Holders(h)) - 1
    BY <1>5, <1>6, <1>7, FS_RemoveElement
  <1>9. QED
    BY <1>2, <1>3, <1>5, <1>7, <1>8 DEF Users

LEMMA SecondFailsInv == ASSUME IInv, SecondFails PROVE IInv'
  <1>1. call = "second" /\ chan \in Users /\ Users = open \cup {chan} /\ chan \notin open
    BY DEF SecondFails, IInv, CallInv, Busy
  <1>2. PICK h \in Handles : handle[chan] = h /\ live = {h}
    BY <1>1, UserFacts
  <1>3. /\ live' = live /\ liveCtx' = liveCtx /\ open' = open /\ registry' = registry
        /\ call' = "close" /\ gui' = "idle" /\ chan' = None /\ abandoned' = abandoned + 1
        /\ handle' = [handle EXCEPT ![chan] = None] /\ ctx' = [ctx EXCEPT ![chan] = None]
    BY DEF SecondFails, Idle
  <1>4. /\ Users' = Users \ {chan}
        /\ \A c \in Users' : handle'[c] = handle[c] /\ ctx'[c] = ctx[c]
        /\ Cardinality(Holders(h)') = Cardinality(Holders(h)) - 1
        /\ Cardinality(Holders(h)) \in Nat
    BY <1>1, <1>2, <1>3, LeaveFacts
  <1>5. RegistryType'
    <2>1. handle' \in [Channels -> Handles \cup {None}] /\ ctx' \in [Channels -> Contexts \cup {None}]
      BY <1>3 DEF IInv, RegistryType
    <2>2. QED
      BY <1>3, <2>1 DEF IInv, RegistryType, Calls
  <1>6. CallInv'
    BY <1>1, <1>3, <1>4 DEF CallInv, Busy
  <1>7. EntryInv' /\ LiveInv'
    BY <1>1, <1>3 DEF IInv, EntryInv, LiveInv
  <1>8. HandlesLive'
    BY <1>3, <1>4 DEF IInv, HandlesLive
  <1>9. CountInv'
    <2>1. Cardinality(Holders(h)') + abandoned' = Cardinality(Holders(h)) + abandoned
      BY <1>3, <1>4 DEF IInv, RegistryType
    <2>2. SUFFICES ASSUME NEW i \in 0..Len(registry), Finds(registry, h, i)
                   PROVE  /\ i # 0 /\ registry[i].refcount > 0
                          /\ registry[i].refcount = Cardinality(Holders(h)') + abandoned'
      BY <1>2, <1>3 DEF CountInv
    <2>3. QED
      BY <1>2, <2>1, <2>2 DEF IInv, CountInv
  <1>10. CtxInv'
    BY <1>3, <1>4 DEF IInv, CtxInv, NoTwins
  <1>11. QED
    BY <1>5, <1>6, <1>7, <1>8, <1>9, <1>10 DEF IInv

\* open() returns: the entry of a first channel becomes usable.
LEMMA OpenedInv == ASSUME IInv, Opened PROVE IInv'
  <1> DEFINE n == Len(registry)
  <1>1. /\ call \in {"first", "second"} /\ chan \in Users /\ Users = open \cup {chan}
        /\ registry \in Seq(Row) /\ n \in Nat
    BY DEF Opened, IInv, CallInv, RegistryType
  <1>2. PICK h \in Handles : handle[chan] = h /\ live = {h}
    BY <1>1, UserFacts
  <1>3. PICK k \in 1..n : k = EntryOf(h) /\ Finds(registry, h, k) /\ registry[k].dev = h
    BY <1>1, <1>2, UserFacts
  <1>4. /\ live' = live /\ liveCtx' = liveCtx /\ open' = open \cup {chan}
        /\ call' = "close" /\ gui' = "idle" /\ chan' = None /\ abandoned' = abandoned
        /\ handle' = handle /\ ctx' = ctx /\ Users' = Users
        /\ \A g : Holders(g)' = Holders(g)
    BY DEF Opened, Idle, Users, Holders
  <1>5. registry' = IF call = "first" THEN [registry EXCEPT ![k].init_done = TRUE] ELSE registry
    BY <1>2, <1>3 DEF Opened
  <1>6. /\ registry' \in Seq(Row) /\ Len(registry') = n
        /\ \A i \in 1..n : /\ registry'[i].dev = registry[i].dev /\ registry'[i].ctx = registry[i].ctx
                           /\ registry'[i].refcount = registry[i].refcount
                           /\ registry'[i].init_done = IF call = "first" THEN i = k
                                                       ELSE registry[i].init_done
    <2>1. CASE call = "second"
      BY <1>1, <1>5, <2>1
    <2>2. CASE call = "first"
      <3>1. \A i \in 1..n : registry[i] \in Row /\ ~registry[i].init_done
        BY <1>1, <2>2 DEF IInv, LiveInv
      <3> DEFINE e == [registry[k] EXCEPT !.init_done = TRUE]
      <3>2. /\ e \in Row /\ e.dev = registry[k].dev /\ e.ctx = registry[k].ctx
            /\ e.refcount = registry[k].refcount /\ e.init_done = TRUE
        BY <3>1 DEF Row
      <3>3. \A i \in 1..n : registry'[i] = IF i = k THEN e ELSE registry[i]
        BY <1>1, <1>5, <2>2
      <3>4. registry' \in Seq(Row) /\ Len(registry') = n
        BY <1>1, <1>5, <2>2, <3>1, <3>2
      <3> HIDE DEF e
      <3>5. QED
        <4>1. ASSUME NEW i \in 1..n
              PROVE  /\ registry'[i].dev = registry[i].dev /\ registry'[i].ctx = registry[i].ctx
                     /\ registry'[i].refcount = registry[i].refcount
                     /\ registry'[i].init_done = (i = k)
          <5>1. CASE i = k
            BY <3>2, <3>3, <5>1
          <5>2. CASE i # k
            <6>1. registry[i] \in Row /\ registry[i].init_done = FALSE /\ registry'[i] = registry[i]
              BY <3>1, <3>3, <5>2 DEF Row
            <6>2. QED
              BY <5>2, <6>1
          <5>3. QED
            BY <5>1, <5>2
        <4>2. QED
          BY <2>2, <3>4, <4>1
    <2>3. QED
      BY <1>1, <2>1, <2>2
  <1> HIDE DEF n
  <1>7. \A g, i : Finds(registry', g, i) <=> Finds(registry, g, i)
    BY <1>1, <1>6, SameDevs DEF n
  <1>8. RegistryType'
    BY <1>1, <1>4, <1>6 DEF IInv, RegistryType, Calls, Users
  <1>9. CallInv'
    BY <1>1, <1>4 DEF CallInv, Busy
  <1>10. EntryInv'
    <2>1. ASSUME NEW i \in 1..n
          PROVE  IF registry'[i].init_done
                 THEN registry'[i].dev \in live /\ Finds(registry', registry'[i].dev, i)
                 ELSE registry'[i].refcount = 1
      <3>1. CASE call = "first" /\ i = k
        BY <1>2, <1>3, <1>6, <1>7, <3>1
      <3>2. CASE call = "first" /\ i # k
        BY <1>6, <3>2 DEF IInv, EntryInv, LiveInv, n
      <3>3. CASE call # "first"
        BY <1>6, <1>7, <3>3 DEF IInv, EntryInv, n
      <3>4. QED
        BY <3>1, <3>2, <3>3
    <2>2. QED
      BY <1>4, <1>6, <2>1 DEF EntryInv
  <1>11. LiveInv'
    BY <1>1, <1>2, <1>3, <1>4, <1>6 DEF IInv, LiveInv, n
  <1>12. HandlesLive' /\ CtxInv'
    BY <1>4, <1>6 DEF IInv, HandlesLive, CtxInv, NoTwins, n
  <1>13. CountInv'
    BY <1>4, <1>6, <1>7 DEF IInv, CountInv, n, Finds
  <1>14. QED
    BY <1>8, <1>9, <1>10, <1>11, <1>12, <1>13 DEF IInv
-----------------------------------------------------------------------------
(* close().                                                                 *)

LEMMA StillSharedInv == ASSUME IInv, StillShared PROVE IInv'
  <1> DEFINE n == Len(registry)
  <1>1. /\ call = "close" /\ chan \in open /\ Users = open
        /\ registry \in Seq(Row) /\ n \in Nat
    BY DEF StillShared, IInv, CallInv, RegistryType, Busy
  <1>2. PICK h \in Handles : handle[chan] = h /\ live = {h}
    BY <1>1, UserFacts
  <1>3. PICK k \in 1..n : /\ k = EntryOf(h) /\ Finds(registry, h, k) /\ registry[k].dev = h
                          /\ registry[k] \in Row
                          /\ registry[k].refcount = Cardinality(Holders(h)) + abandoned
    BY <1>1, <1>2, UserFacts
  <1> DEFINE m == registry[k].refcount - 1
  <1>4. /\ live' = live /\ liveCtx' = liveCtx /\ open' = open \ {chan}
        /\ call' = "close" /\ gui' = "idle" /\ chan' = None /\ abandoned' = abandoned
        /\ handle' = [handle EXCEPT ![chan] = None] /\ ctx' = [ctx EXCEPT ![chan] = None]
    BY DEF StillShared, Left, Idle
  <1>5. registry[k].refcount > 1 /\ registry' = [registry EXCEPT ![k].refcount = m]
    BY <1>1, <1>2, <1>3 DEF StillShared
  <1>6. m \in Nat /\ m > 0
    BY <1>3, <1>5 DEF Row
  <1> HIDE DEF m
  <1>7. /\ registry' \in Seq(Row) /\ Len(registry') = n
        /\ \A i \in 1..n : /\ registry'[i].dev = registry[i].dev /\ registry'[i].ctx = registry[i].ctx
                           /\ registry'[i].init_done = registry[i].init_done
                           /\ registry'[i].refcount = IF i = k THEN m ELSE registry[i].refcount
    BY <1>1, <1>3, <1>5, <1>6, CountFacts
  <1> HIDE DEF n
  <1>8. /\ Users' = Users \ {chan}
        /\ \A c \in Users' : handle'[c] = handle[c] /\ ctx'[c] = ctx[c]
        /\ Cardinality(Holders(h)') = Cardinality(Holders(h)) - 1
        /\ Cardinality(Holders(h)) \in Nat
    BY <1>1, <1>2, <1>4, LeaveFacts
  <1>9. \A g, i : Finds(registry', g, i) <=> Finds(registry, g, i)
    BY <1>1, <1>7, SameDevs DEF n
  <1>10. RegistryType'
    <2>1. handle' \in [Channels -> Handles \cup {None}] /\ ctx' \in [Channels -> Contexts \cup {None}]
      BY <1>4 DEF IInv, RegistryType
    <2>2. QED
      BY <1>4, <1>7, <2>1 DEF IInv, RegistryType, Calls
  <1>11. CallInv'
    BY <1>1, <1>4, <1>8 DEF CallInv, Busy
  <1>12. registry[k].init_done
    <2>1. PICK j \in 1..n : registry[j].init_done
      BY <1>1, <1>2 DEF IInv, LiveInv, n
    <2>2. Finds(registry, registry[j].dev, j) /\ registry[j].dev = h
      BY <1>2, <2>1 DEF IInv, EntryInv, n
    <2>3. j = k
      BY <1>1, <1>3, <2>2 DEF Finds, n
    <2>4. QED
      BY <2>1, <2>3
  <1>13. EntryInv'
    <2>1. ASSUME NEW i \in 1..n
          PROVE  IF registry'[i].init_done
                 THEN registry'[i].dev \in live /\ Finds(registry', registry'[i].dev, i)
                 ELSE registry'[i].refcount = 1
      BY <1>7, <1>9, <1>12 DEF IInv, EntryInv, n
    <2>2. QED
      BY <1>4, <1>7, <2>1 DEF EntryInv
  <1>14. LiveInv'
    BY <1>1, <1>4, <1>7 DEF IInv, LiveInv, n
  <1>15. HandlesLive'
    BY <1>4, <1>8 DEF IInv, HandlesLive
  <1>16. CountInv'
    <2>1. m = Cardinality(Holders(h)') + abandoned
      BY <1>3, <1>8 DEF m, IInv, RegistryType
    <2>2. SUFFICES ASSUME NEW i \in 0..n, Finds(registry', h, i)
                   PROVE  /\ i # 0 /\ registry'[i].refcount > 0
                          /\ registry'[i].refcount = Cardinality(Holders(h)') + abandoned
      BY <1>2, <1>4, <1>7 DEF CountInv
    <2>3. Finds(registry, h, i)
      BY <1>9, <2>2
    <2>4. i = k
      BY <1>1, <1>3, <2>3 DEF Finds, n
    <2>5. QED
      BY <1>1, <1>6, <1>7, <2>1, <2>4
  <1>17. CtxInv'
    <2>1. NoTwins' <=> NoTwins
      BY <1>7 DEF NoTwins, n
    <2>2. QED
      BY <1>4, <1>7, <1>8, <2>1 DEF IInv, CtxInv, n
  <1>18. QED
    BY <1>10, <1>11, <1>13, <1>14, <1>15, <1>16, <1>17 DEF IInv

LEMMA RemoveFacts ==
  ASSUME NEW r \in Seq(Row), NEW k \in 1..Len(r)
  PROVE  /\ RemoveAt(r, k) \in Seq(Row) /\ Len(RemoveAt(r, k)) = Len(r) - 1
         /\ \A i \in 1..(Len(r) - 1) : RemoveAt(r, k)[i] = IF i < k THEN r[i] ELSE r[i + 1]
  <1> DEFINE a == SubSeq(r, 1, k - 1)
             b == SubSeq(r, k + 1, Len(r))
  <1>1. a \in Seq(Row) /\ Len(a) = k - 1 /\ \A i \in 1..(k - 1) : a[i] = r[i]
    OBVIOUS
  <1>2. b \in Seq(Row) /\ Len(b) = Len(r) - k /\ \A i \in 1..(Len(r) - k) : b[i] = r[k + i]
    OBVIOUS
  <1>3. RemoveAt(r, k) = a \o b
    BY DEF RemoveAt
  <1> HIDE DEF a, b
  <1>4. /\ a \o b \in Seq(Row) /\ Len(a \o b) = Len(r) - 1
        /\ \A i \in 1..(Len(r) - 1) : (a \o b)[i] = IF i < k THEN a[i] ELSE b[i - k + 1]
    <2>1. a \o b \in Seq(Row) /\ Len(a \o b) = Len(a) + Len(b)
          /\ \A i \in 1..(Len(a) + Len(b)) :
               (a \o b)[i] = IF i <= Len(a) THEN a[i] ELSE b[i - Len(a)]
      BY <1>1, <1>2, ConcatProperties
    <2>2. Len(a) + Len(b) = Len(r) - 1 /\ Len(a) = k - 1 /\ Len(r) \in Nat
      BY <1>1, <1>2
    <2>3. ASSUME NEW i \in 1..(Len(r) - 1)
          PROVE  (a \o b)[i] = IF i < k THEN a[i] ELSE b[i - k + 1]
      <3>1. (i <= Len(a) <=> i < k) /\ i - Len(a) = i - k + 1
        BY <2>2
      <3>2. (a \o b)[i] = IF i <= Len(a) THEN a[i] ELSE b[i - Len(a)]
        BY <2>1, <2>2
      <3>3. QED
        BY <3>1, <3>2
    <2>4. QED
      BY <2>1, <2>2, <2>3
  <1>5. ASSUME NEW i \in 1..(Len(r) - 1)
        PROVE  (a \o b)[i] = IF i < k THEN r[i] ELSE r[i + 1]
    <2>1. CASE i < k
      BY <1>1, <1>4, <2>1
    <2>2. CASE ~(i < k)
      <3>1. i - k + 1 \in 1..(Len(r) - k) /\ k + (i - k + 1) = i + 1
        BY <2>2
      <3>2. b[i - k + 1] = r[k + (i - k + 1)]
        BY <1>2, <3>1
      <3>3. QED
        BY <1>4, <2>2, <3>1, <3>2
    <2>3. QED
      BY <2>1, <2>2
  <1>6. QED
    BY <1>3, <1>4, <1>5

\* The last user goes: the device is released, what is left of the registry are
\* entries that nobody can use.
LEMMA ReleasedInv == ASSUME IInv, Released PROVE IInv'
  <1> DEFINE n == Len(registry)
  <1>1. /\ call = "close" /\ chan \in open /\ Users = open
        /\ registry \in Seq(Row) /\ n \in Nat
    BY DEF Released, IInv, CallInv, RegistryType, Busy
  <1>2. PICK h \in Handles : handle[chan] = h /\ live = {h}
    BY <1>1, UserFacts
  <1>3. PICK k \in 1..n : /\ k = EntryOf(h) /\ Finds(registry, h, k) /\ registry[k] \in Row
                          /\ registry[k].refcount = Cardinality(Holders(h)) + abandoned
    BY <1>1, <1>2, UserFacts
  <1>4. Users = {chan}
    <2>1. registry[k].refcount <= 1
      BY <1>2, <1>3 DEF Released
    <2>2. Holders(h) = Users
      BY <1>2 DEF IInv, HandlesLive, Holders
    <2>3. /\ Cardinality(Holders(h)) \in Nat
          /\ Cardinality(Holders(h)) = 0 <=> Holders(h) = {}
      BY HoldersFacts DEF IInv
    <2>4. Cardinality(Holders(h)) # 0
      BY <1>1, <2>2, <2>3
    <2>5. Cardinality(Holders(h)) = 1
      BY <1>3, <2>1, <2>3, <2>4 DEF IInv, RegistryType
    <2>6. QED
      BY <1>1, <2>2, <2>5, HoldersFacts DEF IInv
  <1>5. /\ live' = live \ {h} /\ liveCtx' \subseteq liveCtx /\ open' = open \ {chan}
        /\ call' = "close" /\ gui' = "idle" /\ chan' = None /\ abandoned' = 0
        /\ handle' = [handle EXCEPT ![chan] = None] /\ ctx' = [ctx EXCEPT ![chan] = None]
        /\ registry' = RemoveAt(registry, k)
    BY <1>2, <1>3 DEF Released, Left, Idle
  <1>6. live' = {} /\ open' = {}
    BY <1>1, <1>2, <1>4, <1>5
  <1>7. handle' \in [Channels -> Handles \cup {None}] /\ ctx' \in [Channels -> Contexts \cup {None}]
    BY <1>5 DEF IInv, RegistryType
  <1>8. Users' = {}
    BY <1>1, <1>2, <1>4, <1>5, LeaveFacts
  <1>9. /\ registry' \in Seq(Row) /\ Len(registry') = n - 1
        /\ \A i \in 1..(n - 1) : registry'[i] = IF i < k THEN registry[i] ELSE registry[i + 1]
    BY <1>1, <1>5, RemoveFacts
  <1> HIDE DEF n
  <1>10. \A j \in 1..n : j # k => ~registry[j].init_done /\ registry[j].refcount = 1
    <2>1. ASSUME NEW j \in 1..n, registry[j].init_done
          PROVE  j = k
      <3>1. Finds(registry, h, j)
        BY <1>2, <2>1 DEF IInv, EntryInv, n
      <3>2. QED
        BY <1>1, <1>3, <3>1 DEF Finds, n
    <2>2. QED
      BY <2>1 DEF IInv, EntryInv, n
  <1>11. \A i \in 1..Len(registry') : ~registry'[i].init_done /\ registry'[i].refcount = 1
    BY <1>1, <1>9, <1>10
  <1>12. RegistryType'
    BY <1>5, <1>6, <1>7, <1>9 DEF IInv, RegistryType, Calls
  <1>13. CallInv' /\ HandlesLive'
    BY <1>5, <1>6, <1>8 DEF CallInv, HandlesLive, Busy
  <1>14. EntryInv' /\ LiveInv' /\ CountInv' /\ CtxInv'
    BY <1>5, <1>6, <1>8, <1>11 DEF EntryInv, LiveInv, CountInv, CtxInv
  <1>15. QED
    BY <1>12, <1>13, <1>14 DEF IInv
-----------------------------------------------------------------------------
LEMMA InvInit == Init => IInv
  <1> SUFFICES ASSUME Init PROVE IInv
    OBVIOUS
  <1>1. Users = {} /\ registry = << >> /\ live = {}
    BY DEF Init, Users
  <1>2. RegistryType
    BY DEF Init, RegistryType, Calls
  <1>3. CallInv /\ HandlesLive
    BY <1>1 DEF Init, CallInv, HandlesLive, Busy
  <1>4. EntryInv /\ LiveInv /\ CountInv /\ CtxInv
    BY <1>1 DEF EntryInv, LiveInv, CountInv, CtxInv
  <1>5. QED
    BY <1>2, <1>3, <1>4 DEF IInv

LEMMA InvStep == ASSUME IInv, [Next]_vars PROVE IInv'
  <1>1. RegistryStep \/ CallMoves
    BY OtherSteps DEF IInv
  <1>2. QED
    BY <1>1, CallMovesInv, OpenFirstInv, OpenSecondInv, FirstFailsInv, SecondFailsInv,
       OpenedInv, ReleasedInv, StillSharedInv DEF RegistryStep

LEMMA InvHolds == Spec => []IInv
  BY InvInit, InvStep, PTL DEF Spec

LEMMA InvImplies == IInv => HandlesLive /\ Counted /\ CtxLive
  <1> SUFFICES ASSUME IInv PROVE HandlesLive /\ Counted /\ CtxLive
    OBVIOUS
  <1>1. registry \in Seq(Row)
    BY DEF IInv, RegistryType
  <1>2. Counted
    <2>1. ASSUME NEW h \in live
          PROVE  LET i == EntryOf(h) IN
                 /\ i # 0 /\ registry[i].refcount > 0
                 /\ registry[i].refcount = Cardinality({c \in Users : handle[c] = h}) + abandoned
      BY <1>1, EntryFacts DEF IInv, CountInv, Holders
    <2>2. QED
      BY <2>1 DEF Counted
  <1>3. CtxLive
    <2>1. (\A i, j \in DOMAIN registry : registry[i].dev = registry[j].dev => i = j) => NoTwins
      BY <1>1 DEF NoTwins
    <2>2. ASSUME NoTwins, NEW c \in Users
          PROVE  ctx[c] \in liveCtx
      <3>1. PICK i \in 1..Len(registry) : registry[i].dev = handle[c] /\ handle[c] \in live
        BY UserFacts
      <3>2. QED
        BY <2>2, <3>1 DEF IInv, CtxInv
    <2>3. QED
      BY <2>1, <2>2 DEF CtxLive
  <1>4. QED
    BY <1>2, <1>3 DEF IInv

\* A channel's handle is open as long as the channel holds it: close() of one
\* channel (hardware_kvaser.hpp:564-590) never takes the device from another.
THEOREM HandlesStayOpen == Spec => []HandlesLive
  BY InvHolds, InvImplies, PTL

\* The reference count is the channels that hold the handle and the opens that
\* failed after counting themselves, so the device is released when the last
\* channel goes, and no sooner.
THEOREM CountsAreRight == Spec => []Counted
  BY InvHolds, InvImplies, PTL

\* While no handle has two entries, a channel's context is one that is open, and
\* the release exits it once.
THEOREM ContextsStayOpen == Spec => []CtxLive
  BY InvHolds, InvImplies, PTL
-----------------------------------------------------------------------------
(* What the card answers, and what it receives.                             *)

\* A command the device has yet to answer.
Request == [cmd : Commands, ch : Channels]

\* The commands and the endpoint.
CardType ==
  /\ step \in 1..Len(Program)
  /\ pending \in Seq(Request) /\ started \subseteq Channels
  /\ frames \in 0..MaxFrames /\ ep \in Seq(Messages)
  /\ io \in [Channels -> {"off", "check", "read"}]
  /\ owed \in [Channels -> SUBSET Messages] /\ alone \subseteq Channels

\* Other channels are paused while one opens, and only then.
PausedInv == /\ paused \subseteq open
             /\ call = "close" /\ gui # "opening" => paused = {}

\* The channels that are on the bus or will be: the open ones, and the one
\* being opened once its start command is on its way.
Starting == call # "close" /\ (gui = "returning" \/ (gui = "wait" /\ step = Len(Program)))
BusInv == /\ gui = "idle" => chan = None
          /\ \A c \in open \ {chan} : OnBus(c)
          /\ Starting => OnBus(chan)

\* Only open channels receive, and the one that closes no longer.
IoInv == /\ \A c \in Channels : io[c] # "off" => c \in open
         /\ call = "close" /\ gui \in Busy => io[chan] = "off"

\* One channel at most has the device to itself, and none during a call.
AloneInv == /\ alone # {} => \E c \in alone : alone = {c} /\ open = {c}
            /\ gui \in Busy => alone = {}

\* Frames are numbered as they come.
InOrder(s) == \A i, j \in DOMAIN s :
                i < j /\ s[i].cmd = "frame" /\ s[j].cmd = "frame" => s[i].n < s[j].n
Until(s, m) == \A i \in DOMAIN s : s[i].cmd = "frame" => s[i].n <= m

FramesInv == /\ InOrder(ep) /\ Until(ep, frames)
             /\ \A c \in alone : owed[c] = FramesOf(ep, c)

CardInv == CardType /\ PausedInv /\ BusInv /\ IoInv /\ AloneInv /\ FramesInv
-----------------------------------------------------------------------------
(* The programs.                                                            *)

ProgramOf(what, m) == CASE what = "first" -> IF m THEN HydraInit ELSE LeafInit
                        [] what = "second" -> SecondInit
                        [] what = "close" -> <<"stop">>

\* Every call has commands, and open() ends with the start of the chip
\* (hardware_kvaser.hpp:516-547, 838-956, 1210-1359).
LEMMA ProgramOfFacts ==
  ASSUME NEW what \in Calls, NEW m
  PROVE  /\ ProgramOf(what, m) \in Seq(Commands)
         /\ Len(ProgramOf(what, m)) \in 1..(MaxCardChannels + 6)
         /\ what # "close" => ProgramOf(what, m)[Len(ProgramOf(what, m))] = "start"
         /\ what = "close" => Len(ProgramOf(what, m)) = 1
  <1>0. MaxCardChannels \in Nat
    BY KvaserConstants
  <1>1. CASE what = "first" /\ m
    <2> DEFINE a == [i \in 1..MaxCardChannels |-> "map"]
               b == <<"card", "info", "details", "mode", "params", "start">>
               M == MaxCardChannels
    <2>1. a \in Seq(Commands) /\ Len(a) = M
      BY <1>0 DEF Commands
    <2>2. b \in Seq(Commands) /\ Len(b) = 6 /\ b[6] = "start"
      BY DEF Commands
    <2>3. ProgramOf(what, m) = a \o b
      BY <1>1 DEF ProgramOf, HydraInit
    <2>m. M \in Nat
      BY <1>0
    <2> HIDE DEF a, b, M
    <2>4. /\ a \o b \in Seq(Commands) /\ Len(a \o b) = Len(a) + Len(b)
          /\ \A n \in 1..(Len(a) + Len(b)) :
               (a \o b)[n] = IF n <= Len(a) THEN a[n] ELSE b[n - Len(a)]
      BY <2>1, <2>2, ConcatProperties
    <2>5. Len(a) + Len(b) = M + 6 /\ M + 6 \in 1..(Len(a) + Len(b)) /\ ~(M + 6 <= Len(a)) /\ (M + 6) - Len(a) = 6
      BY <2>m, <2>1, <2>2
    <2>6. (a \o b)[M + 6] = b[6]
      BY <2>4, <2>5
    <2>7. QED
      BY <2>m, <1>1, <2>2, <2>3, <2>4, <2>5, <2>6 DEF M
  <1>2. CASE what = "first" /\ ~m
    <2> DEFINE p == <<"info", "card", "mode", "mode", "params", "start">>
    <2>1. ProgramOf(what, m) = p
      BY <1>2 DEF ProgramOf, LeafInit
    <2>2. p \in Seq(Commands) /\ Len(p) = 6 /\ p[6] = "start"
      BY DEF Commands
    <2> HIDE DEF p
    <2>3. 6 \in 1..(MaxCardChannels + 6)
      BY <1>0
    <2>4. /\ p \in Seq(Commands) /\ Len(p) \in 1..(MaxCardChannels + 6)
          /\ p[Len(p)] = "start" /\ what # "close"
      BY <1>2, <2>2, <2>3
    <2>5. QED
      BY <2>1, <2>4, Zenon
  <1>3. CASE what = "second"
    <2> DEFINE p == <<"mode", "params", "start">>
    <2>1. ProgramOf(what, m) = p
      BY <1>3 DEF ProgramOf, SecondInit
    <2>2. p \in Seq(Commands) /\ Len(p) = 3 /\ p[3] = "start"
      BY DEF Commands
    <2> HIDE DEF p
    <2>3. 3 \in 1..(MaxCardChannels + 6)
      BY <1>0
    <2>4. /\ p \in Seq(Commands) /\ Len(p) \in 1..(MaxCardChannels + 6)
          /\ p[Len(p)] = "start" /\ what # "close"
      BY <1>3, <2>2, <2>3
    <2>5. QED
      BY <2>1, <2>4, Zenon
  <1>4. CASE what = "close"
    <2>1. ProgramOf(what, m) = <<"stop">>
      BY <1>4 DEF ProgramOf
    <2> DEFINE p == <<"stop">>
    <2>2. p \in Seq(Commands) /\ Len(p) = 1
      BY DEF Commands
    <2> HIDE DEF p
    <2>3. 1 \in 1..(MaxCardChannels + 6)
      BY <1>0
    <2>4. ProgramOf(what, m) = p
      BY <2>1 DEF p
    <2>5. p \in Seq(Commands) /\ Len(p) \in 1..(MaxCardChannels + 6) /\ Len(p) = 1 /\ what = "close"
      BY <1>4, <2>2, <2>3
    <2>6. QED
      BY <2>4, <2>5, Zenon
  <1>5. QED
    BY <1>1, <1>2, <1>3, <1>4 DEF Calls

\* The same of the call that is on its way.
LEMMA ProgramFacts ==
  ASSUME call \in Calls
  PROVE  /\ Program \in Seq(Commands)
         /\ Len(Program) \in 1..(MaxCardChannels + 6)
         /\ call # "close" => Program[Len(Program)] = "start"
         /\ call = "close" => Len(Program) = 1
  <1>1. Program = ProgramOf(call, mhydra)
    BY DEF Program, ProgramOf
  <1>2. QED
    BY <1>1, ProgramOfFacts

\* A call starts with its first command and goes on to its next.
LEMMA StepSteps ==
  ASSUME [Next]_vars
  PROVE  /\ mhydra' = mhydra
         /\ \/ UNCHANGED <<call, step>>
            \/ step' = 1
            \/ call' = call /\ step < Len(Program) /\ step' = step + 1
  <1>1. CASE UNCHANGED vars
    BY <1>1 DEF vars, callVars
  <1>2. CASE IoNext \/ DeviceNext
    BY <1>2 DEF IoNext, IoChecks, IoTimesOut, IoReads, DeviceNext, DeviceAnswers, ReportsState,
                ReceivesFrame, callVars
  <1>3. CASE GuiNext
    <2>1. CASE Send \/ \E k \in 1..Len(ep) : WaitReads(k)
      BY <2>1 DEF Send, WaitReads, Advance, callVars
    <2>2. CASE \/ \E c \in Channels : Connect(c) \/ Disconnect(c)
               \/ EndpointsFound \/ FlushEnds \/ StopUnanswered
               \/ \E k \in 1..Len(ep) : FlushReads(k)
      BY <2>2 DEF Connect, Disconnect, EndpointsFound, FlushEnds, StopUnanswered, FlushReads, callVars
    <2>3. CASE \/ \E h \in Handles, x \in Contexts : OpenFirst(h, x)
               \/ OpenRefused \/ OpenSecond \/ FirstFails \/ SecondFails \/ Opened
               \/ Close \/ Released \/ StillShared
      BY <2>3 DEF OpenFirst, OpenRefused, OpenSecond, FirstFails, SecondFails, Opened,
                  Close, Released, StillShared, Left, Idle, Begin
    <2>4. QED
      BY <1>3, <2>1, <2>2, <2>3 DEF GuiNext
  <1>4. QED
    BY <1>1, <1>2, <1>3 DEF Next

\* The card is of one kind, and a call stays within its commands.
LEMMA StepKept ==
  ASSUME IInv, IInv', step \in 1..Len(Program), [Next]_vars
  PROVE  (step \in 1..Len(Program))'
  <1>1. call \in Calls /\ call' \in Calls
    BY DEF IInv, RegistryType
  <1>2. Program = ProgramOf(call, mhydra) /\ Program' = ProgramOf(call', mhydra')
    BY DEF Program, ProgramOf
  <1>3. Len(Program) \in Nat /\ Len(Program') \in Nat \ {0}
    BY <1>1, <1>2, ProgramOfFacts, KvaserConstants
  <1>4. call' = call => Program' = Program
    BY <1>2, StepSteps
  <1>5. QED
    BY <1>3, <1>4, StepSteps
-----------------------------------------------------------------------------
(* Pausing, and who receives.                                               *)

\* What the calls do to the threads' flags and to the channels that are open.
LEMMA ThreadSteps ==
  ASSUME IInv, [Next]_vars
  PROVE  \/ /\ UNCHANGED <<open, call, paused, io, alone>>
            /\ gui' = "opening" <=> gui = "opening"
            /\ gui' \in Busy => gui \in Busy /\ chan' = chan
         \/ \E c \in Channels : Connect(c)
         \/ OpenRefused
         \/ /\ UNCHANGED <<open, paused, io>>
            /\ call' # "close" /\ alone' = {}
         \/ FirstFails \/ SecondFails \/ Opened \/ Close
         \/ Left /\ call = "close" /\ gui = "returning"
         \/ \E c \in Channels : /\ io[c] # "off" /\ io' = [io EXCEPT ![c] = "check"]
                                /\ UNCHANGED <<callVars, open, paused, alone>>
         \/ \E c \in Channels : /\ io[c] # "off" /\ io' = [io EXCEPT ![c] = "read"]
                                /\ UNCHANGED <<callVars, open, paused, alone>>
  <1>1. CASE UNCHANGED vars
    BY <1>1 DEF vars, callVars, registryVars
  <1>2. CASE DeviceNext
    BY <1>2 DEF DeviceNext, DeviceAnswers, ReportsState, ReceivesFrame, callVars, registryVars
  <1>3. CASE IoNext
    BY <1>3 DEF IoNext, IoChecks, IoTimesOut, IoReads, registryVars
  <1>4. CASE GuiNext
    <2>1. CASE \E c \in Channels : Connect(c)
      BY <2>1
    <2>2. CASE \/ \E c \in Channels : Disconnect(c)
               \/ EndpointsFound \/ FlushEnds \/ StopUnanswered
      BY <2>2 DEF Disconnect, EndpointsFound, FlushEnds, StopUnanswered, registryVars, Busy
    <2>3. CASE Send \/ \E k \in 1..Len(ep) : FlushReads(k) \/ WaitReads(k)
      BY <2>3 DEF Send, FlushReads, WaitReads, Advance, callVars, registryVars, Busy
    <2>4. CASE OpenSecond \/ \E h \in Handles, x \in Contexts : OpenFirst(h, x)
      BY <2>4 DEF OpenSecond, OpenFirst, Begin
    <2>5. CASE OpenRefused \/ FirstFails \/ SecondFails \/ Opened \/ Close
      BY <2>5
    <2>6. CASE Released \/ StillShared
      BY <2>6 DEF Released, StillShared
    <2>7. QED
      BY <1>4, <2>1, <2>2, <2>3, <2>4, <2>5, <2>6 DEF GuiNext
  <1>5. QED
    BY <1>1, <1>2, <1>3, <1>4 DEF Next

\* Nobody stays paused once a call of open() is over (app_state.hpp:462-496).
LEMMA PausedKept ==
  ASSUME IInv, PausedInv, [Next]_vars
  PROVE  PausedInv'
  <1>1. CASE /\ UNCHANGED <<open, call, paused>>
             /\ gui' = "opening" <=> gui = "opening"
    BY <1>1 DEF PausedInv
  <1>2. CASE \E c \in Channels : Connect(c)
    BY <1>2 DEF Connect, registryVars, PausedInv
  <1>3. CASE paused' = {}
    BY <1>3 DEF PausedInv
  <1>4. CASE UNCHANGED <<open, paused>> /\ call' # "close"
    BY <1>4 DEF PausedInv
  <1>5. CASE Left /\ call = "close" /\ gui = "returning"
    BY <1>5 DEF Left, PausedInv
  <1>6. CASE Close
    <2>1. paused = {} /\ paused' = paused
      BY <1>6 DEF Close, PausedInv, IInv, CallInv
    <2>2. QED
      BY <1>3, <2>1
  <1>7. OpenRefused \/ FirstFails \/ SecondFails \/ Opened => paused' = {}
    BY DEF OpenRefused, FirstFails, SecondFails, Opened
  <1>8. QED
    BY <1>1, <1>2, <1>3, <1>4, <1>5, <1>6, <1>7, ThreadSteps DEF callVars

\* A thread receives for an open channel only (app_state.hpp:129-165, 551-562).
LEMMA IoKept ==
  ASSUME IInv, io \in [Channels -> {"off", "check", "read"}], IoInv, [Next]_vars
  PROVE  IoInv' /\ io' \in [Channels -> {"off", "check", "read"}]
  <1>1. CASE /\ UNCHANGED <<open, call, io>>
             /\ gui' \in Busy => gui \in Busy /\ chan' = chan
    BY <1>1 DEF IoInv
  <1>2. CASE \/ \E c \in Channels : Connect(c)
             \/ OpenRefused \/ FirstFails \/ SecondFails
    BY <1>2 DEF Connect, OpenRefused, FirstFails, SecondFails, Idle, registryVars, Busy, IoInv
  <1>3. CASE UNCHANGED <<open, io>> /\ call' # "close"
    BY <1>3 DEF IoInv
  <1>4. CASE Opened
    <2>1. /\ open' = open \cup {chan} /\ gui' = "idle" /\ io' = [io EXCEPT ![chan] = "check"]
      BY <1>4 DEF Opened, Idle
    <2>2. QED
      BY <2>1 DEF IoInv, Busy
  <1>5. CASE Close
    <2>1. /\ open' = open /\ chan' = chan /\ io' = [io EXCEPT ![chan] = "off"] /\ chan \in open
          /\ open \subseteq Channels
      BY <1>5 DEF Close, Begin, registryVars, IInv, CallInv, RegistryType
    <2>2. QED
      BY <2>1 DEF IoInv
  <1>6. CASE Left /\ call = "close" /\ gui = "returning"
    <2>1. open' = open \ {chan} /\ gui' = "idle" /\ io' = io /\ io[chan] = "off"
      BY <1>6 DEF Left, Idle, IoInv, Busy
    <2>2. QED
      BY <2>1 DEF IoInv, Busy
  <1>7. ASSUME NEW c \in Channels, NEW to \in {"check", "read"}, io[c] # "off",
               io' = [io EXCEPT ![c] = to], UNCHANGED <<callVars, open>>
        PROVE  IoInv' /\ io' \in [Channels -> {"off", "check", "read"}]
    BY <1>7 DEF callVars, IoInv
  <1>8. QED
    BY <1>1, <1>2, <1>3, <1>4, <1>5, <1>6, <1>7, ThreadSteps

\* A channel is alone from the moment it opens to the next call on the device.
LEMMA AloneKept ==
  ASSUME IInv, alone \subseteq Channels, AloneInv, [Next]_vars
  PROVE  AloneInv' /\ alone' \subseteq Channels
  <1>1. CASE /\ UNCHANGED <<open, alone>>
             /\ gui' \in Busy => gui \in Busy
    BY <1>1 DEF AloneInv
  <1>2. CASE \/ \E c \in Channels : Connect(c)
             \/ OpenRefused \/ FirstFails \/ SecondFails
    BY <1>2 DEF Connect, OpenRefused, FirstFails, SecondFails, Idle, registryVars, Busy, AloneInv
  <1>3. CASE alone' = {}
    BY <1>3 DEF AloneInv
  <1>4. CASE Opened
    <2>1. /\ open' = open \cup {chan} /\ gui' = "idle" /\ alone' = IF open = {} THEN {chan} ELSE {}
          /\ chan \in Channels
      BY <1>4 DEF Opened, Idle, IInv, CallInv, Busy
    <2>2. QED
      BY <2>1 DEF AloneInv, Busy
  <1>5. CASE Left /\ call = "close" /\ gui = "returning"
    <2>1. gui' = "idle" /\ alone' = alone /\ alone = {}
      BY <1>5 DEF Left, Idle, AloneInv, Busy
    <2>2. QED
      BY <2>1 DEF AloneInv, Busy
  <1>6. Close => alone' = {}
    BY DEF Close
  <1>7. QED
    BY <1>1, <1>2, <1>3, <1>4, <1>5, <1>6, ThreadSteps DEF callVars
-----------------------------------------------------------------------------
(* Starting the chip.                                                       *)

\* The device answers its oldest command: what a channel is or will be, it
\* stays.
LEMMA AnswerKeepsBus ==
  ASSUME pending \in Seq(Request), DeviceAnswers, NEW c \in Channels, OnBus(c)
  PROVE  OnBus(c)'
  <1> DEFINE n == Len(pending)
  <1>1. /\ pending # << >> /\ pending' = Tail(pending)
        /\ started' = CASE Head(pending).cmd = "start" -> started \cup {Head(pending).ch}
                        [] Head(pending).cmd = "stop" -> started \ {Head(pending).ch}
                        [] OTHER -> started
    BY DEF DeviceAnswers
  <1>2. /\ n \in Nat \ {0} /\ Head(pending) = pending[1] /\ DOMAIN pending = 1..n
        /\ DOMAIN pending' = 1..(n - 1)
        /\ \A i \in 1..(n - 1) : pending'[i] = pending[i + 1]
    BY <1>1
  <1> HIDE DEF n
  <1>3. \A i \in 1..(n - 1) : i \in Asked(c)' <=> i + 1 \in Asked(c)
    BY <1>2 DEF Asked
  <1>4. Asked(c)' \subseteq 1..(n - 1) /\ Asked(c) \subseteq 1..n
    BY <1>2 DEF Asked
  <1>5. \A i \in Asked(c) : i # 1 => i - 1 \in Asked(c)'
    <2>1. ASSUME NEW i \in Asked(c), i # 1
          PROVE  i - 1 \in Asked(c)'
      <3>1. i - 1 \in 1..(n - 1) /\ (i - 1) + 1 = i
        BY <1>2, <1>4, <2>1
      <3>2. QED
        BY <1>3, <2>1, <3>1
    <2>2. QED
      BY <2>1
  <1>6. ASSUME Asked(c)' = {}
        PROVE  c \in started'
    <2>1. CASE Asked(c) = {}
      <3>1. c \in started
        BY <2>1 DEF OnBus
      <3>2. ~(pending[1].ch = c /\ pending[1].cmd = "stop")
        BY <1>2, <2>1 DEF Asked
      <3>3. QED
        BY <1>1, <1>2, <3>1, <3>2
    <2>2. CASE Asked(c) # {}
      <3>1. Asked(c) = {1}
        BY <1>5, <1>6, <2>2
      <3>2. pending[1].cmd = "start" /\ pending[1].ch = c
        <4>1. pending[1].cmd = "start"
          BY <3>1 DEF OnBus
        <4>2. pending[1].ch = c
          BY <3>1 DEF Asked
        <4>3. QED
          BY <4>1, <4>2
      <3>3. QED
        BY <1>1, <1>2, <3>2
    <2>3. QED
      BY <2>1, <2>2
  <1>7. ASSUME NEW i \in Asked(c)', \A j \in Asked(c)' : j <= i
        PROVE  pending'[i].cmd = "start"
    <2>1. i \in 1..(n - 1) /\ i + 1 \in Asked(c)
      BY <1>3, <1>4
    <2>2. ASSUME NEW j \in Asked(c)
          PROVE  j <= i + 1
      <3>1. CASE j = 1
        BY <2>1, <3>1
      <3>2. CASE j # 1
        <4>1. j - 1 <= i /\ j \in Nat
          BY <1>4, <1>5, <1>7, <3>2
        <4>2. QED
          BY <2>1, <4>1
      <3>3. QED
        BY <3>1, <3>2
    <2>3. pending[i + 1].cmd = "start"
      BY <2>1, <2>2 DEF OnBus
    <2>4. QED
      BY <1>2, <2>1, <2>3
  <1>8. QED
    BY <1>6, <1>7 DEF OnBus

\* A command more changes nothing for the other channels, and a start command
\* is the last one for its own.
LEMMA SendKeepsBus ==
  ASSUME pending \in Seq(Request), NEW p \in Request,
         pending' = Append(pending, p), started' = started
  PROVE  /\ \A c : c # p.ch /\ OnBus(c) => OnBus(c)'
         /\ p.cmd = "start" => OnBus(p.ch)'
  <1> DEFINE n == Len(pending)
  <1>1. /\ n \in Nat /\ DOMAIN pending = 1..n /\ DOMAIN pending' = 1..(n + 1)
        /\ pending'[n + 1] = p /\ \A i \in 1..n : pending'[i] = pending[i]
    OBVIOUS
  <1> HIDE DEF n
  <1>2. ASSUME NEW c, c # p.ch, OnBus(c)
        PROVE  OnBus(c)'
    <2>1. Asked(c)' = Asked(c) /\ Asked(c) \subseteq 1..n
      BY <1>1, <1>2 DEF Asked
    <2>2. QED
      BY <1>1, <1>2, <2>1 DEF OnBus
  <1>3. ASSUME p.cmd = "start"
        PROVE  OnBus(p.ch)'
    <2>1. n + 1 \in Asked(p.ch)' /\ Asked(p.ch)' \subseteq 1..(n + 1)
      BY <1>1, <1>3 DEF Asked
    <2>2. ASSUME NEW i \in Asked(p.ch)', \A j \in Asked(p.ch)' : j <= i
          PROVE  pending'[i].cmd = "start"
      <3>1. i = n + 1
        BY <1>1, <2>1, <2>2
      <3>2. QED
        BY <1>1, <1>3, <3>1
    <2>3. QED
      BY <2>1, <2>2 DEF OnBus
  <1>4. QED
    BY <1>2, <1>3

\* Channels that are on the bus or will be.
Must == (open \ {chan}) \cup (IF Starting THEN {chan} ELSE {})

\* A step other than a send makes no channel one that must be on the bus: open()
\* reaches its end, and with it the channel, only past the start command.
LEMMA BusMoves ==
  ASSUME IInv, CardType, gui = "idle" => chan = None, [Next]_vars, ~Send
  PROVE  Must' \subseteq Must /\ (gui' = "idle" => chan' = None)
  <1>k. /\ call \in Calls /\ open \subseteq Channels /\ None \notin Channels
        /\ (gui \in Busy => chan \in Channels /\ (call = "close" <=> chan \in open))
        /\ (gui = "opening" => call = "close" /\ chan \in Channels \ open)
        /\ (gui = "idle" => call = "close") /\ (gui = "joining" => call = "close" /\ chan \in open)
        /\ step \in 1..Len(Program)
    BY KvaserConstants DEF IInv, RegistryType, CallInv, CardType
  <1>l. Len(Program) \in Nat
    BY <1>k, ProgramFacts, KvaserConstants
  <1>1. CASE UNCHANGED <<mhydra, open, callVars>>
    <2>1. Program' = Program
      BY <1>1 DEF Program, HydraInit, LeafInit, SecondInit, callVars
    <2>2. QED
      BY <1>1, <2>1 DEF callVars, Must, Starting
  <1>2. CASE \E k \in 1..Len(ep) : WaitReads(k)
    <2>1. CASE UNCHANGED callVars
      BY <1>1, <1>2, <2>1 DEF WaitReads, registryVars
    <2>2. CASE Advance
      BY <1>2, <1>k, <1>l, <2>2 DEF WaitReads, Advance, Must, Starting, registryVars
    <2>3. QED
      BY <1>2, <2>1, <2>2 DEF WaitReads
  <1>3. CASE \/ \E c \in Channels : Connect(c) \/ Disconnect(c)
             \/ OpenRefused \/ EndpointsFound \/ FlushEnds
    BY <1>3, <1>k DEF Connect, Disconnect, OpenRefused, EndpointsFound, FlushEnds, Idle, Busy,
                Must, Starting, registryVars
  <1>4. CASE OpenSecond \/ \E h \in Handles, x \in Contexts : OpenFirst(h, x)
    BY <1>4, <1>k DEF OpenSecond, OpenFirst, Begin, Must, Starting
  <1>5. CASE FirstFails \/ SecondFails
    BY <1>5, <1>k DEF FirstFails, SecondFails, Idle, Must, Starting, Busy
  <1>6. CASE Opened
    BY <1>6, <1>k DEF Opened, Idle, Must, Starting, Busy
  <1>7. CASE Close \/ StopUnanswered
    BY <1>7, <1>k DEF Close, StopUnanswered, Begin, Must, Starting, Busy, registryVars
  <1>8. CASE Released \/ StillShared
    BY <1>8, <1>k DEF Released, StillShared, Left, Idle, Must, Starting, Busy
  <1>9. CASE UNCHANGED vars
    BY <1>1, <1>9 DEF vars, registryVars
  <1>10. CASE IoNext
    BY <1>1, <1>10 DEF IoNext, IoChecks, IoTimesOut, IoReads, registryVars
  <1>11. CASE DeviceNext
    BY <1>1, <1>11 DEF DeviceNext, DeviceAnswers, ReportsState, ReceivesFrame, registryVars
  <1>12. CASE \E k \in 1..Len(ep) : FlushReads(k)
    BY <1>1, <1>12 DEF FlushReads, registryVars
  <1>13. QED
    BY <1>2, <1>3, <1>4, <1>5, <1>6, <1>7, <1>8, <1>9, <1>10, <1>11, <1>12 DEF Next, GuiNext

\* Commands are added by a send, and taken by the device.
LEMMA BusSteps ==
  ASSUME [Next]_vars
  PROVE  Send \/ DeviceAnswers \/ UNCHANGED <<pending, started>>
  <1>1. GuiNext => Send \/ UNCHANGED <<pending, started>>
    BY DEF GuiNext, Connect, Disconnect, OpenFirst, OpenRefused, OpenSecond, EndpointsFound,
           FlushEnds, FirstFails, SecondFails, Opened, Close, StopUnanswered, Released,
           StillShared, Left, FlushReads, WaitReads, deviceVars
  <1>2. IoNext => UNCHANGED <<pending, started>>
    BY DEF IoNext, IoChecks, IoTimesOut, IoReads, deviceVars
  <1>3. DeviceNext => DeviceAnswers \/ UNCHANGED <<pending, started>>
    BY DEF DeviceNext, ReportsState, ReceivesFrame, deviceVars
  <1>4. QED
    BY <1>1, <1>2, <1>3 DEF Next, vars, deviceVars

\* What BusInv says, in terms of those channels.
LEMMA BusIsMust == BusInv <=> (gui = "idle" => chan = None) /\ \A c \in Must : OnBus(c)
  BY DEF BusInv, Must

\* open() returns only with the chip started, or to be started by the next
\* answers (hardware_kvaser.hpp:516-560, 1127-1208).
LEMMA BusKept ==
  ASSUME IInv, CardType, BusInv, [Next]_vars
  PROVE  BusInv'
  <1>0. /\ gui = "idle" => chan = None
        /\ \A c \in Must : OnBus(c)
    BY BusIsMust
  <1>c. pending \in Seq(Request) /\ Must \subseteq Channels \cup {None}
    BY DEF CardType, IInv, RegistryType, Must
  <1>1. CASE ~Send /\ UNCHANGED <<pending, started>>
    <2>1. \A c : OnBus(c)' <=> OnBus(c)
      BY <1>1 DEF OnBus, Asked
    <2>2. Must' \subseteq Must /\ (gui' = "idle" => chan' = None)
      BY <1>0, <1>1, BusMoves
    <2>3. \A c \in Must' : OnBus(c)'
      BY <1>0, <2>1, <2>2
    <2>4. QED
      BY <2>2, <2>3 DEF BusInv, Must
  <1>2. CASE ~Send /\ DeviceAnswers
    <2>1. Must' \subseteq Must /\ (gui' = "idle" => chan' = None)
      BY <1>0, <1>2, BusMoves
    <2>2. ASSUME NEW c \in Must'
          PROVE  OnBus(c)'
      <3>1. c \in Must /\ OnBus(c)
        BY <1>0, <2>1, <2>2
      <3>2. c \in Channels
        <4>1. open \subseteq Channels /\ (gui \in Busy => chan \in Channels)
          BY DEF IInv, RegistryType, CallInv
        <4>2. Starting => gui \in Busy
          BY DEF Starting, Busy
        <4>3. QED
          BY <3>1, <4>1, <4>2 DEF Must
      <3>3. QED
        BY <1>2, <1>c, <3>1, <3>2, AnswerKeepsBus
    <2>3. QED
      BY <2>1, <2>2 DEF BusInv, Must
  <1>3. CASE Send
    <2> DEFINE p == [cmd |-> Command, ch |-> chan]
    <2>1. /\ pending' = Append(pending, p) /\ started' = started /\ gui = "send"
          /\ open' = open /\ chan' = chan /\ call' = call /\ gui' # "idle" /\ mhydra' = mhydra
      BY <1>3 DEF Send, Advance, registryVars
    <2>2. /\ call \in Calls /\ chan \in Channels /\ step \in 1..Len(Program)
      BY <2>1 DEF IInv, RegistryType, CallInv, CardType, Busy
    <2>3. /\ Program \in Seq(Commands)
          /\ call # "close" => Program[Len(Program)] = "start"
      BY <2>2, ProgramFacts
    <2>4. p \in Request
      BY <2>2, <2>3 DEF Command, Request
    <2>5. /\ \A c : c # p.ch /\ OnBus(c) => OnBus(c)'
          /\ p.cmd = "start" => OnBus(p.ch)'
      BY <1>c, <2>1, <2>4, SendKeepsBus
    <2>6. \A c \in open' \ {chan'} : OnBus(c)'
      BY <1>0, <2>1, <2>5 DEF Must
    <2>7. ASSUME Starting'
          PROVE  OnBus(chan)'
      <3>1. Program' = Program
        BY <2>1 DEF Program, HydraInit, LeafInit, SecondInit
      <3>2. step = Len(Program) /\ call # "close"
        BY <1>3, <2>1, <2>2, <2>3, <2>7, <3>1 DEF Starting, Send, Advance
      <3>3. p.cmd = "start"
        BY <2>3, <3>2 DEF Command
      <3>4. QED
        BY <2>5, <3>3
    <2>8. QED
      BY <2>1, <2>6, <2>7 DEF BusInv
  <1>4. QED
    BY <1>1, <1>2, <1>3, BusSteps
-----------------------------------------------------------------------------
(* The endpoint.                                                            *)

\* A message is numbered.
LEMMA MessageFacts == \A m \in Messages : m.n \in Nat
  BY KvaserConstants DEF Messages

\* A transfer takes a prefix: what remains are the other frames, for no frame is
\* there twice.
LEMMA DropFacts ==
  ASSUME NEW s \in Seq(Messages), NEW k \in 1..Len(s), InOrder(s)
  PROVE  LET t == SubSeq(s, k + 1, Len(s)) IN
         /\ t \in Seq(Messages) /\ InOrder(t)
         /\ \A m : Until(s, m) => Until(t, m)
         /\ \A c : FramesOf(t, c) = FramesOf(s, c) \ ToSet(SubSeq(s, 1, k))
  <1> DEFINE t == SubSeq(s, k + 1, Len(s))
             u == SubSeq(s, 1, k)
             n == Len(s)
  <1>1. /\ n \in Nat /\ k \in 1..n /\ t \in Seq(Messages) /\ Len(t) = n - k
        /\ \A i \in 1..(n - k) : t[i] = s[i + k]
        /\ DOMAIN t = 1..(n - k) /\ DOMAIN s = 1..n
    OBVIOUS
  <1>2. DOMAIN u = 1..k /\ \A i \in 1..k : u[i] = s[i]
    OBVIOUS
  <1>3. \A i \in 1..n : s[i] \in Messages /\ s[i].n \in Nat
    BY MessageFacts
  <1> HIDE DEF t, u, n
  <1>4. InOrder(t)
    <2>1. ASSUME NEW i \in 1..(n - k), NEW j \in 1..(n - k), i < j,
                 t[i].cmd = "frame", t[j].cmd = "frame"
          PROVE  t[i].n < t[j].n
      <3>1. i + k \in 1..n /\ j + k \in 1..n /\ i + k < j + k
        BY <1>1, <2>1
      <3>2. t[i] = s[i + k] /\ t[j] = s[j + k]
        BY <1>1
      <3>3. QED
        BY <1>1, <2>1, <3>1, <3>2 DEF InOrder
    <2>2. QED
      BY <1>1, <2>1 DEF InOrder
  <1>5. ASSUME NEW m, Until(s, m)
        PROVE  Until(t, m)
    <2>1. ASSUME NEW i \in 1..(n - k), t[i].cmd = "frame"
          PROVE  t[i].n <= m
      <3>1. i + k \in 1..n /\ t[i] = s[i + k]
        BY <1>1
      <3>2. QED
        BY <1>1, <1>5, <2>1, <3>1 DEF Until
    <2>2. QED
      BY <1>1, <2>1 DEF Until
  <1>6. ASSUME NEW c
        PROVE  FramesOf(t, c) = FramesOf(s, c) \ ToSet(u)
    <2>1. ASSUME NEW m \in FramesOf(t, c)
          PROVE  m \in FramesOf(s, c) \ ToSet(u)
      <3>1. PICK i \in 1..(n - k) : m = t[i]
        BY <1>1, <2>1 DEF FramesOf, ToSet
      <3>2. i + k \in 1..n /\ m = s[i + k] /\ m.cmd = "frame" /\ m.ch = c
        BY <1>1, <2>1, <3>1 DEF FramesOf
      <3>3. ASSUME NEW j \in 1..k
            PROVE  s[j] # m
        <4>1. j \in 1..n /\ j < i + k
          BY <1>1
        <4>2. s[j] = m => m.n < m.n
          BY <1>1, <3>2, <4>1 DEF InOrder
        <4>3. m.n \in Nat
          BY <1>3, <3>2
        <4>4. QED
          BY <4>2, <4>3
      <3>4. m \notin ToSet(u)
        BY <1>2, <3>3 DEF ToSet
      <3>5. QED
        BY <1>1, <3>2, <3>4 DEF FramesOf, ToSet
    <2>2. ASSUME NEW m \in FramesOf(s, c), m \notin ToSet(u)
          PROVE  m \in FramesOf(t, c)
      <3>1. PICK i \in 1..n : m = s[i]
        BY <1>1, <2>2 DEF FramesOf, ToSet
      <3>2. i \notin 1..k
        BY <1>2, <2>2, <3>1 DEF ToSet
      <3>3. i - k \in 1..(n - k) /\ (i - k) + k = i
        BY <1>1, <3>2
      <3>4. t[i - k] = m
        BY <1>1, <3>1, <3>3
      <3>5. QED
        BY <1>1, <2>2, <3>3, <3>4 DEF FramesOf, ToSet
    <2>3. QED
      BY <2>1, <2>2
  <1>7. QED
    BY <1>1, <1>4, <1>5, <1>6 DEF t, u

\* The device adds at the end, and frames with a higher number.
LEMMA AddFacts ==
  ASSUME NEW s \in Seq(Messages), NEW m \in Messages, NEW p \in Nat, NEW q \in Nat,
         InOrder(s), Until(s, p), p <= q,
         m.cmd = "frame" => p < m.n /\ m.n <= q
  PROVE  /\ Append(s, m) \in Seq(Messages) /\ InOrder(Append(s, m)) /\ Until(Append(s, m), q)
         /\ \A c : FramesOf(Append(s, m), c)
                     = FramesOf(s, c) \cup (IF m.cmd = "frame" /\ m.ch = c THEN {m} ELSE {})
  <1> DEFINE t == Append(s, m)
             n == Len(s)
  <1>1. /\ n \in Nat /\ t \in Seq(Messages) /\ DOMAIN s = 1..n /\ DOMAIN t = 1..(n + 1)
        /\ t[n + 1] = m /\ \A i \in 1..n : t[i] = s[i]
    OBVIOUS
  <1>2. \A i \in 1..n : s[i].n \in Nat
    BY MessageFacts
  <1>3. m.n \in Nat
    BY DEF Messages
  <1> HIDE DEF t, n
  <1>4. Until(t, q)
    BY <1>1, <1>2 DEF Until
  <1>5. InOrder(t)
    <2>1. ASSUME NEW i \in 1..(n + 1), NEW j \in 1..(n + 1), i < j,
                 t[i].cmd = "frame", t[j].cmd = "frame"
          PROVE  t[i].n < t[j].n
      <3>1. i \in 1..n
        BY <1>1, <2>1
      <3>2. CASE j = n + 1
        BY <1>1, <1>2, <1>3, <2>1, <3>1, <3>2 DEF Until
      <3>3. CASE j \in 1..n
        BY <1>1, <2>1, <3>1, <3>3 DEF InOrder
      <3>4. QED
        BY <1>1, <3>2, <3>3
    <2>2. QED
      BY <1>1, <2>1 DEF InOrder
  <1>6. ToSet(t) = ToSet(s) \cup {m}
    BY <1>1 DEF ToSet
  <1>7. \A c : FramesOf(t, c)
                     = FramesOf(s, c) \cup (IF m.cmd = "frame" /\ m.ch = c THEN {m} ELSE {})
    BY <1>6 DEF FramesOf
  <1>8. QED
    BY <1>1, <1>4, <1>5, <1>7 DEF t

\* Who reads the endpoint, who adds to it, and what becomes of the frames.
Reply == {m \in Messages : m.cmd # "frame"}

\* While a channel has the device to itself no call reads the endpoint, and no
\* thread but its own (hardware_kvaser.hpp:626-637, 1127-1175, 1518-1587).
LEMMA EndpointSteps ==
  ASSUME IInv, CardType, IoInv, AloneInv, [Next]_vars
  PROVE  \/ UNCHANGED <<ep, frames, owed>> /\ alone' \subseteq alone
         \/ /\ UNCHANGED <<frames, owed>> /\ alone' = {}
            /\ \E k \in 1..Len(ep) : ep' = SubSeq(ep, k + 1, Len(ep))
         \/ UNCHANGED <<ep, frames>> /\ owed' = [owed EXCEPT ![chan] = FramesOf(ep, chan)]
              /\ alone' \subseteq {chan} /\ chan \in Channels
         \/ UNCHANGED <<ep, frames>> /\ alone' = {} /\ owed' = [owed EXCEPT ![chan] = {}]
         \/ \E c \in Channels, k \in 1..Len(ep) :
              /\ UNCHANGED <<frames, alone>> /\ alone \subseteq {c}
              /\ ep' = SubSeq(ep, k + 1, Len(ep))
              /\ owed' = [owed EXCEPT ![c] = @ \ ToSet(SubSeq(ep, 1, k))]
         \/ UNCHANGED <<frames, owed, alone>> /\ \E m \in Reply : ep' = Append(ep, m)
         \/ \E c \in Channels : ReceivesFrame(c)
  <1>k. /\ gui \in Busy => alone = {} /\ chan \in Channels
        /\ \A c \in Channels : io[c] # "off" => alone \subseteq {c}
    BY DEF IInv, CallInv, IoInv, AloneInv
  <1>1. CASE UNCHANGED vars
    BY <1>1 DEF vars, deviceVars
  <1>2. CASE IoNext
    <2>1. PICK c \in Channels : IoChecks(c) \/ IoTimesOut(c) \/ \E k \in 1..Len(ep) : IoReads(c, k)
      BY <1>2 DEF IoNext
    <2>2. CASE IoChecks(c) \/ IoTimesOut(c)
      BY <2>2 DEF IoChecks, IoTimesOut, deviceVars
    <2>3. CASE \E k \in 1..Len(ep) : IoReads(c, k)
      <3>1. PICK k \in 1..Len(ep) : IoReads(c, k)
        BY <2>3
      <3>2. /\ UNCHANGED <<frames, alone>> /\ io[c] = "read"
            /\ ep' = SubSeq(ep, k + 1, Len(ep))
            /\ owed' = [owed EXCEPT ![c] = @ \ ToSet(SubSeq(ep, 1, k))]
        BY <3>1 DEF IoReads, deviceVars
      <3>3. alone \subseteq {c}
        BY <1>k, <3>2
      <3>4. QED
        BY <3>2, <3>3
    <2>4. QED
      BY <2>1, <2>2, <2>3
  <1>3. CASE \E c \in Channels : ReportsState(c)
    <2>1. PICK c \in Channels : ReportsState(c)
      BY <1>3
    <2>2. [cmd |-> "chipstate", ch |-> c, n |-> 0] \in Reply
      BY KvaserConstants DEF Reply, Messages
    <2>3. QED
      BY <2>1, <2>2 DEF ReportsState, deviceVars
  <1>4. CASE DeviceAnswers
    <2> DEFINE p == Head(pending)
               m == [cmd |-> Answer(p.cmd), ch |-> p.ch, n |-> 0]
    <2>1. /\ UNCHANGED <<frames, owed, alone>> /\ pending # << >>
          /\ ep' = ep \/ ep' = Append(ep, m)
      BY <1>4 DEF DeviceAnswers
    <2>2. p \in Request
      BY <2>1 DEF CardType
    <2>3. m \in Reply
      BY <2>2, KvaserConstants DEF Request, Answer, Commands, Messages, Reply
    <2>4. QED
      BY <2>1, <2>3
  <1>5. CASE \E k \in 1..Len(ep) : FlushReads(k) \/ WaitReads(k)
    <2>1. gui \in Busy
      BY <1>5 DEF FlushReads, WaitReads, Busy
    <2>2. QED
      BY <1>5, <1>k, <2>1 DEF FlushReads, WaitReads, deviceVars
  <1>6. CASE Opened
    <2>1. gui \in Busy
      BY <1>6 DEF Opened, Busy
    <2>2. QED
      BY <1>6, <1>k, <2>1 DEF Opened, deviceVars
  <1>7. CASE Released \/ StillShared
    <2>1. gui \in Busy
      BY <1>7 DEF Released, StillShared, Busy
    <2>2. QED
      BY <1>7, <1>k, <2>1 DEF Released, StillShared, Left, deviceVars
  <1>8. CASE \/ \E c \in Channels : Connect(c) \/ Disconnect(c)
             \/ \E h \in Handles, x \in Contexts : OpenFirst(h, x)
             \/ OpenRefused \/ OpenSecond \/ EndpointsFound \/ FlushEnds \/ Send
             \/ FirstFails \/ SecondFails \/ Close \/ StopUnanswered
    BY <1>8 DEF Connect, Disconnect, OpenFirst, OpenRefused, OpenSecond, EndpointsFound,
                FlushEnds, Send, FirstFails, SecondFails, Close, StopUnanswered, deviceVars
  <1>9. QED
    BY <1>1, <1>2, <1>3, <1>4, <1>5, <1>6, <1>7, <1>8 DEF Next, GuiNext, DeviceNext

\* Types of the endpoint.
EndpointType == /\ ep \in Seq(Messages) /\ frames \in 0..MaxFrames
                /\ owed \in [Channels -> SUBSET Messages]

\* A lone channel's thread takes nothing it does not keep.
LEMMA FramesKept ==
  ASSUME IInv, CardType, IoInv, AloneInv, FramesInv, [Next]_vars
  PROVE  FramesInv' /\ EndpointType'
  <1>t. /\ ep \in Seq(Messages) /\ frames \in 0..MaxFrames /\ frames \in Nat
        /\ owed \in [Channels -> SUBSET Messages] /\ alone \subseteq Channels
        /\ MaxFrames \in Nat
    BY KvaserConstants DEF CardType
  <1>f. /\ InOrder(ep) /\ Until(ep, frames)
        /\ \A c \in alone : owed[c] = FramesOf(ep, c)
    BY DEF FramesInv
  <1>g. \A s, c : s \in Seq(Messages) => FramesOf(s, c) \subseteq Messages
    BY DEF FramesOf, ToSet
  <1>1. CASE UNCHANGED <<ep, frames, owed>> /\ alone' \subseteq alone
    BY <1>1, <1>t, <1>f DEF FramesInv, EndpointType
  <1>2. CASE /\ UNCHANGED <<frames, owed>> /\ alone' = {}
             /\ \E k \in 1..Len(ep) : ep' = SubSeq(ep, k + 1, Len(ep))
    <2>1. ep' \in Seq(Messages) /\ InOrder(ep') /\ Until(ep', frames)
      BY <1>2, <1>t, <1>f, DropFacts
    <2>2. QED
      BY <1>2, <1>t, <2>1 DEF FramesInv, EndpointType
  <1>3. CASE /\ UNCHANGED <<ep, frames>> /\ owed' = [owed EXCEPT ![chan] = FramesOf(ep, chan)]
             /\ alone' \subseteq {chan} /\ chan \in Channels
    <2>1. owed'[chan] = FramesOf(ep, chan) /\ owed' \in [Channels -> SUBSET Messages]
      BY <1>3, <1>t, <1>g
    <2>2. QED
      BY <1>3, <1>t, <1>f, <2>1 DEF FramesInv, EndpointType
  <1>4. CASE UNCHANGED <<ep, frames>> /\ alone' = {} /\ owed' = [owed EXCEPT ![chan] = {}]
    <2>1. owed' \in [Channels -> SUBSET Messages]
      BY <1>4, <1>t
    <2>2. QED
      BY <1>4, <1>t, <1>f, <2>1 DEF FramesInv, EndpointType
  <1>5. ASSUME NEW c \in Channels, NEW k \in 1..Len(ep),
               UNCHANGED <<frames, alone>>, alone \subseteq {c},
               ep' = SubSeq(ep, k + 1, Len(ep)),
               owed' = [owed EXCEPT ![c] = @ \ ToSet(SubSeq(ep, 1, k))]
        PROVE  FramesInv' /\ EndpointType'
    <2>1. /\ ep' \in Seq(Messages) /\ InOrder(ep') /\ Until(ep', frames)
          /\ FramesOf(ep', c) = FramesOf(ep, c) \ ToSet(SubSeq(ep, 1, k))
      BY <1>5, <1>t, <1>f, DropFacts
    <2>2. /\ owed'[c] = owed[c] \ ToSet(SubSeq(ep, 1, k))
          /\ owed' \in [Channels -> SUBSET Messages]
      BY <1>5, <1>t
    <2>3. \A d \in alone' : d = c /\ d \in alone
      BY <1>5
    <2>4. \A d \in alone' : owed'[d] = FramesOf(ep', d)
      BY <1>f, <2>1, <2>2, <2>3
    <2>5. QED
      BY <1>5, <1>t, <2>1, <2>2, <2>4 DEF FramesInv, EndpointType
  <1>6. CASE UNCHANGED <<frames, owed, alone>> /\ \E m \in Reply : ep' = Append(ep, m)
    <2>1. PICK m \in Reply : ep' = Append(ep, m)
      BY <1>6
    <2>2. m \in Messages /\ m.cmd # "frame"
      BY DEF Reply
    <2>3. /\ ep' \in Seq(Messages) /\ InOrder(ep') /\ Until(ep', frames)
          /\ \A c : FramesOf(ep', c)
                     = FramesOf(ep, c) \cup (IF m.cmd = "frame" /\ m.ch = c THEN {m} ELSE {})
      BY <1>t, <1>f, <2>1, <2>2, AddFacts
    <2>4. \A c : FramesOf(ep', c) = FramesOf(ep, c)
      BY <2>2, <2>3
    <2>5. QED
      BY <1>6, <1>t, <1>f, <2>3, <2>4 DEF FramesInv, EndpointType
  <1>7. ASSUME NEW c \in Channels, ReceivesFrame(c)
        PROVE  FramesInv' /\ EndpointType'
    <2> DEFINE m == [cmd |-> "frame", ch |-> c, n |-> frames + 1]
    <2>1. /\ frames < MaxFrames /\ frames' = frames + 1 /\ ep' = Append(ep, m) /\ alone' = alone
          /\ owed' = IF c \in open THEN [owed EXCEPT ![c] = @ \cup {m}] ELSE owed
      BY <1>7 DEF ReceivesFrame
    <2>2. m \in Messages /\ m.cmd = "frame" /\ m.ch = c /\ m.n = frames + 1
      BY <1>t, <2>1 DEF Messages
    <2> HIDE DEF m
    <2>3. frames' \in Nat /\ frames' \in 0..MaxFrames /\ frames <= frames' /\ frames < m.n /\ m.n <= frames'
      BY <1>t, <2>1, <2>2
    <2>4. /\ ep' \in Seq(Messages) /\ InOrder(ep') /\ Until(ep', frames')
          /\ \A d : FramesOf(ep', d)
                     = FramesOf(ep, d) \cup (IF m.cmd = "frame" /\ m.ch = d THEN {m} ELSE {})
      BY <1>t, <1>f, <2>1, <2>2, <2>3, AddFacts
    <2>5. owed' \in [Channels -> SUBSET Messages]
      BY <1>t, <2>1, <2>2
    <2>6. ASSUME NEW d \in alone
          PROVE  owed'[d] = FramesOf(ep', d)
      <3>1. d \in open /\ owed[d] = FramesOf(ep, d) /\ d \in Channels
        BY <1>f, <1>t DEF AloneInv
      <3>2. CASE d = c
        BY <1>t, <2>1, <2>2, <2>4, <3>1, <3>2
      <3>3. CASE d # c
        <4>1. FramesOf(ep', d) = FramesOf(ep, d)
          BY <2>2, <2>4, <3>3
        <4>2. owed'[d] = owed[d]
          BY <1>t, <2>1, <3>1, <3>3
        <4>3. QED
          BY <3>1, <4>1, <4>2
      <3>4. QED
        BY <3>2, <3>3
    <2>7. QED
      BY <2>1, <2>3, <2>4, <2>5, <2>6 DEF FramesInv, EndpointType
  <1>8. QED
    BY <1>1, <1>2, <1>3, <1>4, <1>5, <1>6, <1>7, EndpointSteps
-----------------------------------------------------------------------------
(* Every step keeps all of it.                                              *)

\* Commands are for the channel of the call, and so are their answers.
LEMMA DeviceKept ==
  ASSUME IInv, CardType, [Next]_vars
  PROVE  pending' \in Seq(Request) /\ started' \subseteq Channels
  <1>1. pending \in Seq(Request) /\ started \subseteq Channels
    BY DEF CardType
  <1>2. CASE Send
    <2>1. call \in Calls /\ chan \in Channels /\ step \in 1..Len(Program)
      BY <1>2 DEF Send, IInv, RegistryType, CallInv, CardType, Busy
    <2>2. Program \in Seq(Commands)
      BY <2>1, ProgramFacts
    <2>3. [cmd |-> Command, ch |-> chan] \in Request
      BY <2>1, <2>2 DEF Command, Request
    <2>4. QED
      BY <1>1, <1>2, <2>3 DEF Send
  <1>3. CASE DeviceAnswers
    <2>1. pending # << >> /\ pending' = Tail(pending)
      BY <1>3 DEF DeviceAnswers
    <2>2. Head(pending) \in Request
      BY <1>1, <2>1
    <2>3. started' \subseteq started \cup {Head(pending).ch} /\ Head(pending).ch \in Channels
      BY <1>3, <2>2 DEF DeviceAnswers, Request
    <2>4. QED
      BY <1>1, <2>1, <2>3
  <1>4. QED
    BY <1>1, <1>2, <1>3, BusSteps

\* Nothing is open, asked for or received at first.
LEMMA CardInit == Init => CardInv
  <1>1. ASSUME Init
        PROVE  CardInv
    <2>1. step \in 1..Len(Program)
      <3>1. Program = <<"stop">> /\ step = 1
        BY <1>1 DEF Init, Program
      <3>2. QED
        BY <3>1
    <2>2. CardType
      BY <1>1, <2>1, KvaserConstants DEF Init, CardType
    <2>3. PausedInv /\ IoInv /\ AloneInv
      BY <1>1 DEF Init, PausedInv, IoInv, AloneInv, Busy
    <2>4. BusInv
      BY <1>1 DEF Init, BusInv, Starting
    <2>5. FramesInv
      BY <1>1 DEF Init, FramesInv, InOrder, Until
    <2>6. QED
      BY <2>2, <2>3, <2>4, <2>5 DEF CardInv
  <1>2. QED
    BY <1>1

\* Each part of the invariant is kept, given the others.
LEMMA CardStep ==
  ASSUME IInv, IInv', CardInv, [Next]_vars
  PROVE  CardInv'
  <1>1. CardType /\ PausedInv /\ BusInv /\ IoInv /\ AloneInv /\ FramesInv
    BY DEF CardInv
  <1>2. /\ step \in 1..Len(Program) /\ io \in [Channels -> {"off", "check", "read"}]
        /\ alone \subseteq Channels
    BY <1>1 DEF CardType
  <1>3. PausedInv' /\ BusInv'
    BY <1>1, PausedKept, BusKept
  <1>4. IoInv' /\ io' \in [Channels -> {"off", "check", "read"}]
    BY <1>1, <1>2, IoKept
  <1>5. AloneInv' /\ alone' \subseteq Channels
    BY <1>1, <1>2, AloneKept
  <1>6. FramesInv' /\ EndpointType'
    BY <1>1, FramesKept
  <1>7. (step \in 1..Len(Program))'
    BY <1>2, StepKept
  <1>8. pending' \in Seq(Request) /\ started' \subseteq Channels
    BY <1>1, DeviceKept
  <1>9. CardType'
    BY <1>4, <1>5, <1>6, <1>7, <1>8 DEF CardType, EndpointType
  <1>10. QED
    BY <1>3, <1>4, <1>5, <1>6, <1>9 DEF CardInv

\* The invariant of the card, on top of that of the registry.
LEMMA CardHolds == Spec => [](IInv /\ CardInv)
  <1>1. Init => CardInv
    BY CardInit
  <1>2. IInv /\ IInv' /\ CardInv /\ [Next]_vars => CardInv'
    BY CardStep
  <1>3. Spec => []IInv
    BY InvHolds
  <1>4. QED
    BY <1>1, <1>2, <1>3, PTL DEF Spec

\* A card does not change its kind.
LEMMA KindKept == Spec => [](mhydra \in BOOLEAN)
  <1>1. Init => mhydra \in BOOLEAN
    BY DEF Init
  <1>2. mhydra \in BOOLEAN /\ [Next]_vars => (mhydra \in BOOLEAN)'
    BY StepSteps
  <1>3. QED
    BY <1>1, <1>2, PTL DEF Spec

\* The parts together give the types.
LEMMA TypeImplied ==
  ASSUME IInv, CardInv, mhydra \in BOOLEAN
  PROVE  TypeOK
  <1>1. RegistryType /\ CardType /\ paused \subseteq open
    BY DEF IInv, CardInv, PausedInv
  <1>2. step \in 1..(MaxCardChannels + 6)
    <2>1. step \in 1..Len(Program) /\ Len(Program) \in 1..(MaxCardChannels + 6)
      BY <1>1, ProgramFacts DEF RegistryType, CardType
    <2>2. QED
      BY <2>1, KvaserConstants
  <1>3. /\ live \subseteq Handles /\ liveCtx \subseteq Contexts
        /\ registry \in Seq([dev : Handles, ctx : Contexts, refcount : Nat, init_done : BOOLEAN])
        /\ handle \in [Channels -> Handles \cup {None}]
        /\ ctx \in [Channels -> Contexts \cup {None}]
        /\ open \subseteq Channels /\ abandoned \in Nat
        /\ gui \in {"idle", "opening", "endpoints", "flush", "send", "wait", "returning", "joining"}
        /\ call \in Calls /\ chan \in Channels \cup {None}
    BY <1>1 DEF RegistryType, Row, Busy
  <1>4. /\ pending \in Seq([cmd : Commands, ch : Channels])
        /\ started \subseteq Channels /\ frames \in Nat
        /\ ep \in Seq(Messages)
        /\ io \in [Channels -> {"off", "check", "read"}]
        /\ owed \in [Channels -> SUBSET Messages] /\ alone \subseteq Channels
    BY <1>1, KvaserConstants DEF CardType, Request
  <1>5. QED
    BY <1>1, <1>2, <1>3, <1>4 DEF TypeOK

\* The state of the card, its registry and its channels is always of the declared
\* types; in particular only open channels are paused, and a call never sends
\* past the end of its commands.
THEOREM CardTypes == Spec => []TypeOK
  <1>1. IInv /\ CardInv /\ mhydra \in BOOLEAN => TypeOK
    BY TypeImplied
  <1>2. QED
    BY <1>1, CardHolds, KindKept, PTL

\* A channel that open() reported open (hardware_kvaser.hpp:516-560) is on the
\* bus or will be once the device has answered, whatever late answer open() took
\* for the one it waited for.
THEOREM OpenIsOnBus == Spec => []OpenOnBus
  <1>1. CardInv => OpenOnBus
    BY DEF CardInv, BusInv, OpenOnBus
  <1>2. QED
    BY <1>1, CardHolds, PTL

\* A channel that has the device to itself since it opened loses no frame, and
\* gets them in order (hardware_kvaser.hpp:1518-1587).
THEOREM AloneGetsAll == Spec => []AloneLosesNothing
  <1>1. CardInv => AloneLosesNothing
    BY DEF CardInv, FramesInv, InOrder, AloneLosesNothing
  <1>2. QED
    BY <1>1, CardHolds, PTL
=============================================================================
