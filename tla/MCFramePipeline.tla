-------------------------- MODULE MCFramePipeline --------------------------
(* Small pipelines for TLC: their frames and logs, and adapters are alike.  *)
(* Standard and extended frames have the number x, and a bus has either     *)
(* extended ones of that number or frames that no DBC file describes.       *)
EXTENDS FramePipeline, TLC

CONSTANTS x, y  \* ids

Logged(i, e, c) == [id |-> i, extended |-> e, source |-> c]

Extended == {[id |-> x, extended |-> TRUE]}
Undescribed == {[id |-> y, extended |-> FALSE]}

OneFrame == {<<Logged(x, FALSE, 0)>>}
TwoFrames == {<<Logged(x, FALSE, 0), Logged(x, TRUE, 1)>>}

Symmetry == Permutations(Devices)
=============================================================================
