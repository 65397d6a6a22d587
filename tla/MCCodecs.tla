------------------------------- MODULE MCCodecs -------------------------------
(* The instance of FrameFormats and BitTiming that TLC explores, one at a    *)
(* time: identifiers around the eleven bits of a standard frame, at the end  *)
(* of the 29 and beyond it, addresses at the ends of the two fields that     *)
(* hold one; all cards and bitrates.                                         *)
EXTENDS FrameFormats, BitTiming

MCIds == {0, 2047, 2053, 305419896, 2^29 - 1, 2147483647}
MCEntities == {0, 5, 16, 61}

Formats == Init /\ card = Leaf /\ clock = 16000000 /\ rate = 500000 /\ timing = Leaf.fallback

Timings == /\ TimingInit
           /\ format = "echo" /\ frame = Blank /\ late = FALSE /\ entity = 0
           /\ at = "read" /\ wire = << >> /\ got = <<Blank>>

MCNext == \/ Next /\ UNCHANGED timingVars
          \/ ChooseTiming /\ UNCHANGED vars

MCSpec == (Formats \/ Timings) /\ [][MCNext]_<<vars, timingVars>>
===============================================================================
