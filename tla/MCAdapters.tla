----------------------------- MODULE MCAdapters -----------------------------
(* The instance of Adapters that TLC explores: every kind of adapter. *)
EXTENDS Adapters

MCKinds == AllKinds
=============================================================================
