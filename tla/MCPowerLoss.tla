---------------------------- MODULE MCPowerLoss -----------------------------
(* Instances of PowerLoss for TLC. *)
EXTENDS PowerLoss, TLC

Symmetric == Permutations(Games) \cup Permutations(Versions)
=============================================================================
