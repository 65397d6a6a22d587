-------------------------- MODULE MCAdapterSession --------------------------
(* Small sessions for TLC.  The GUI treats adapters a driver is loaded for  *)
(* alike, and entries of the transmit list alike: `None' is the only member *)
(* of their types the specification tells apart.                            *)
EXTENDS AdapterSession

Symmetry == Permutations(Devices \ Unbound) \cup Permutations(Jobs)
=============================================================================
