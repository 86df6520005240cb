----------------------------- MODULE MCListener -----------------------------
(* Instances of ListenerSystem for TLC. *)
EXTENDS ListenerSystem, TLC

Symmetry == Permutations(Devices) \cup Permutations(Keys)
=============================================================================
