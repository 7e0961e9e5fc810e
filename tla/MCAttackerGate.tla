--------------------------- MODULE MCAttackerGate ---------------------------
(* Instances of AttackerGate for TLC.                                      *)
EXTENDS AttackerGate, TLC

SymmetryIps == Permutations(Ips)
=============================================================================
