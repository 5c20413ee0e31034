-------------------------- MODULE MCImportPipeline --------------------------
(* Instances of ImportPipeline for TLC. *)
EXTENDS ImportPipeline

CONSTANTS a, b, p, q

\* Duplicates next to each other and across a batch, an unreadable item at a batch
\* boundary, and a second file that overlaps the first.
TwoFiles == [s \in {p, q} |-> IF s = p THEN <<a, a, Bad, b>> ELSE <<b, a>>]
OneFile  == [s \in {p} |-> <<a, Bad, b, a, b>>]

AllFaults == {"prepare", "drop", "begin", "read", "insert", "commit", "checkpoint", "dedup", "rebuild"}

\* With one line the stages do not overlap, and everything may fail but
\* deduplicate(), whose failure leaves the identity index missing by design.  With
\* more, not the calls whose failure stage2 reports through fatal_error, which
\* stage0 may overwrite.
TolerableFaults == [n \in 1..3 |->
  IF n = 1 THEN AllFaults \ {"dedup"} ELSE AllFaults \ {"insert", "commit", "begin"}]

EveryFault == [n \in 1..3 |-> AllFaults]
=============================================================================
