--------------------------- MODULE MCDerivedIndex ---------------------------
(* Instances of DerivedIndex for TLC. *)
EXTENDS DerivedIndex

CONSTANTS g1, g2, v1, v2

MCGames == {g1, g2}
MCVersions == {v1, v2}
=============================================================================
