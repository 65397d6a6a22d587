------------------------------ MODULE BitTiming ------------------------------
(***************************************************************************)
(* How a driver splits a bit into time quanta.  A bit of tq quanta is one  *)
(* quantum of synchronisation, tseg1 before and tseg2 after the point at   *)
(* which it is sampled; a quantum is brp periods of the card's clock.  The *)
(* search goes from many quanta to few and takes the first split that the  *)
(* registers have room for, aiming at a sample point of 80 percent; where  *)
(* there is none it settles for a fixed one.                               *)
(***************************************************************************)
EXTENDS Integers, FiniteSetsExt

VARIABLES card, clock, rate,  \* the card, its clock, and the bitrate asked for
          timing              \* what the driver sends to the card

timingVars == <<card, clock, rate, timing>>

\* bitrate_bps_map: what slcan_bitrate offers.
Bitrates == {10000, 20000, 50000, 100000, 125000, 250000, 500000, 800000, 1000000}

\* The registers of a card, and what is used when nothing fits.
Leaf == [quanta |-> 3..25, brp |-> 64, tseg1 |-> 16, tseg2 |-> 8, sjw |-> 4,
         fallback |-> [tseg1 |-> 5, tseg2 |-> 2, sjw |-> 1]]
Hydra == [quanta |-> 3..25, brp |-> 8192, tseg1 |-> 255, tseg2 |-> 127, sjw |-> 4,
          fallback |-> [tseg1 |-> 15, tseg2 |-> 4, sjw |-> 4]]
VectorCard == [quanta |-> 8..80, brp |-> 1024, tseg1 |-> 80, tseg2 |-> 80, sjw |-> 16,
               fallback |-> [tseg1 |-> 63, tseg2 |-> 16, sjw |-> 16]]

Tseg1WithSync(tq) == (tq * 80) \div 100

Tseg1(tq) == (tq * 80) \div 100 - 1

Tseg2(tq) == tq - 1 - Tseg1(tq)

Fits(tq) ==
  /\ clock % (rate * tq) = 0
  /\ clock \div (rate * tq) \in 1..card.brp
  /\ Tseg1(tq) \in 1..card.tseg1 /\ Tseg2(tq) \in 1..card.tseg2

\* compute_leaf_timing(), compute_mhydra_timing(), compute_can_timing()
Timing == LET fitting == {tq \in card.quanta : Fits(tq)} IN
  IF fitting = {} THEN card.fallback
  ELSE LET tq == Max(fitting)
       IN [tseg1 |-> Tseg1(tq), tseg2 |-> Tseg2(tq), sjw |-> Min({Tseg2(tq), card.sjw})]

\* The clocks of the cards: a leaf's, the two an mhydra card reports, and what a
\* Vector device is taken to have when it does not say.
CardsAndClocks == {<<Leaf, 16000000>>, <<Hydra, 80000000>>, <<Hydra, 24000000>>,
                   <<VectorCard, 160000000>>}

Unset == [tseg1 |-> 0, tseg2 |-> 0, sjw |-> 0]

TimingInit == /\ \E known \in CardsAndClocks : card = known[1] /\ clock = known[2]
              /\ rate \in Bitrates
              /\ timing = Unset

\* Before the bus parameters are sent.
ChooseTiming == /\ timing = Unset /\ timing' = Timing
                /\ UNCHANGED <<card, clock, rate>>

TimingSpec == TimingInit /\ [][ChooseTiming]_timingVars
-----------------------------------------------------------------------------
\* Bits at the rate, sampled between 75 and 80 percent, and no more to jump by
\* than the shorter side of the sample point.
Exact ==
  LET tq == 1 + timing.tseg1 + timing.tseg2
      brp == clock \div (rate * tq)
  IN /\ brp \in 1..card.brp /\ clock = rate * tq * brp
     /\ 100 * (1 + timing.tseg1) \in (75 * tq)..(80 * tq)
     /\ timing.tseg1 <= card.tseg1 /\ timing.tseg2 <= card.tseg2 /\ timing.sjw <= timing.tseg2

\* Every bitrate the connection panel offers is met exactly at the clocks the drivers
\* know (a Vector device may report another one), except 10 kbit/s on a leaf: there
\* nothing fits, and the timing sent along with the rate is that of another one.
TimingExact == timing # Unset => (Exact <=> card # Leaf \/ rate # 10000)
==============================================================================
