--------------------------- MODULE MCKvaserShared ---------------------------
(* The instance of KvaserShared that TLC explores. *)
EXTENDS KvaserShared

Symmetry == Permutations(Channels) \cup Permutations(Handles) \cup Permutations(Contexts)
=============================================================================
