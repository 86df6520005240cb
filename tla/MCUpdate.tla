------------------------------ MODULE MCUpdate ------------------------------
(* Instances of FirmwareUpdate for TLC. *)
EXTENDS FirmwareUpdate, TLC

Symmetry == Permutations(Requests)
=============================================================================
