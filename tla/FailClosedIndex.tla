-------------------------- MODULE FailClosedIndex ---------------------------
(***************************************************************************)
(* What a bundle promises about its derived indexes: each one is either    *)
(* unavailable, or an exact image of the canonical games, and no answer    *)
(* outlives a change of the games.                                         *)
(***************************************************************************)
CONSTANTS Games, Versions, Absent, None, Kinds

VARIABLES canonical, served

Images == [Games -> Versions \cup {Absent}]

Unavailable == [k \in Kinds |-> None]

Init ==
  /\ canonical = [g \in Games |-> Absent]
  /\ served = Unavailable

\* One game is added, changed or removed.
Mutate(g, v) ==
  /\ served = Unavailable
  /\ canonical' = [canonical EXCEPT ![g] = v]
  /\ UNCHANGED served

\* Games are removed, and with them every answer about them.
Prune(gone) ==
  /\ canonical' = [g \in Games |-> IF g \in gone THEN Absent ELSE canonical[g]]
  /\ served' = Unavailable

\* The bundle is deleted.
Discard ==
  /\ served = Unavailable
  /\ canonical' = [g \in Games |-> Absent]
  /\ UNCHANGED served

\* Indexes become available, each as the image of what is canonical then, or
\* stop being available; any number at once, as when a bundle is opened.
Switch(available) ==
  /\ served' = [k \in Kinds |-> IF k \in available THEN canonical ELSE None]
  /\ UNCHANGED canonical

Next ==
  \/ \E g \in Games, v \in Versions \cup {Absent} : Mutate(g, v)
  \/ \E gone \in SUBSET Games : Prune(gone)
  \/ Discard
  \/ \E available \in SUBSET Kinds : Switch(available)

Spec == Init /\ [][Next]_<<canonical, served>>
=============================================================================
