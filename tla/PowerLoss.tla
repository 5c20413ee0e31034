----------------------------- MODULE PowerLoss ------------------------------
(***************************************************************************)
(* DerivedIndex on a machine that can lose power.  A process death keeps    *)
(* what the operating system has been told; a power failure keeps only what *)
(* was synced.  What is not synced survives or not, piece by piece.         *)
(*                                                                         *)
(* A directory entry (manifest.json, an artifact, games.db) is durable once *)
(* the directory has been synced, which only write_manifest() does, as its  *)
(* last step.  games.db runs in WAL mode with synchronous = NORMAL: a commit *)
(* is durable only after a later checkpoint, and closing the connection is  *)
(* one.                                                                     *)
(***************************************************************************)
EXTENDS DerivedIndex

VARIABLES
  synced,       \* manifest.json and the artifacts when the directory was last synced
  recoverable,  \* the states games.db may come back with; None: no such file
  replaced,     \* the same of the games.db the synced directory names, if another
  unconfirmed,  \* history: a manifest is in place whose write reported an error
  doubt         \* history: what a power failure took that the manifest relies on

directory == [disk |-> disk, files |-> files]

pvars == <<vars, synced, recoverable, replaced, unconfirmed, doubt>>

PInit ==
  /\ Init
  /\ synced = directory
  /\ recoverable = {None} /\ replaced = {}
  /\ unconfirmed = FALSE /\ doubt = {}

\* Seeded fault of Syncs: the invalidating manifest is renamed but not synced, and
\* the write reports no error.
SyncsUnlessStale(o) ==
  IF o = "published" /\ pc # "stale"
  THEN synced' = directory' /\ replaced' = {} /\ unconfirmed' = FALSE
  ELSE /\ unconfirmed' = (unconfirmed \/ o = "published_not_durable")
       /\ UNCHANGED <<synced, replaced>>

\* write_manifest() syncs the directory unless it fails before or in doing so.
Syncs(o) ==
  IF o = "published"
  THEN synced' = directory' /\ replaced' = {} /\ unconfirmed' = FALSE
  ELSE /\ unconfirmed' = (unconfirmed \/ o = "published_not_durable")
       /\ UNCHANGED <<synced, replaced>>

Writes(o) ==
  /\ CreateManifest(o) \/ MarkInUse(o) \/ MarkStale(o) \/ Publish(o)
  /\ Syncs(o)
  /\ UNCHANGED <<recoverable, doubt>>

\* sqlite3_close() of the only connection checkpoints the WAL.
Closes(o) ==
  /\ CloseManager(o)
  /\ Syncs(o)
  /\ recoverable' = {games}
  /\ UNCHANGED doubt

\* Rows change under a manifest that names no index (Commit), so nothing the next
\* one names is in doubt; or before the indexes are invalidated (Reconcile).
Commits ==
  /\ \/ /\ \E g \in Games, v \in Versions \cup {Absent} : Commit([games EXCEPT ![g] = v])
        /\ doubt' = {}
     \/ \E gone \in SUBSET Games : Reconcile(gone) /\ UNCHANGED doubt
  /\ recoverable' = recoverable \cup {games'}
  /\ UNCHANGED <<synced, replaced, unconfirmed>>

\* A new games.db, or none, under the name of the one the synced directory has.
Replaces ==
  /\ CreateSchema \/ RemoveDb
  /\ IF db' = db THEN UNCHANGED <<recoverable, replaced>>
     ELSE /\ recoverable' = {IF db' THEN games' ELSE None}
          /\ replaced' = IF replaced = {} THEN recoverable ELSE replaced
  /\ UNCHANGED <<synced, unconfirmed, doubt>>

Others ==
  /\ \/ DiscardCreatedBundle
     \/ \E t \in {"edit", "import"} : BeginMutation(t)
     \/ \E k \in Kinds : BeginRebuild(k)
     \/ RemoveManifest \/ RemoveArtifacts
     \/ \E names \in SUBSET doomed : UnlinkStale(names) \/ UnlinkPrevious(names)
     \/ EndImport \/ BuildStaged \/ RenameStaged
     \/ Open
     \/ Crash
  /\ UNCHANGED <<synced, recoverable, replaced, unconfirmed, doubt>>

\* SQLite checkpoints on its own every wal_autocheckpoint pages.
Checkpoint ==
  /\ pc # "closed" /\ db
  /\ recoverable' = {games}
  /\ UNCHANGED <<vars, synced, replaced, unconfirmed, doubt>>

\* Each directory entry is what it is now or what it was when last synced, and
\* games.db has lost any of the commits since the last checkpoint.
PowerFailure ==
  /\ crashes < MaxCrashes /\ crashes' = crashes + 1
  /\ disk' \in {disk, synced.disk}
  /\ \E back \in SUBSET {n \in ArtifactNames : files[n] # synced.files[n]} :
       files' = [n \in ArtifactNames |-> IF n \in back THEN synced.files[n] ELSE files[n]]
  /\ \E rows \in recoverable \cup replaced :
       /\ db' = (rows # None)
       /\ games' = IF rows = None THEN EmptyStore ELSE rows
       /\ recoverable' = {rows}
  /\ doubt' = doubt
       \cup {d \in {"rows"} : db' /\ games' # games}
       \cup {d \in {"manifest"} : unconfirmed /\ disk' # disk}
  /\ Gone
  /\ synced' = directory' /\ replaced' = {} /\ unconfirmed' = FALSE
  /\ UNCHANGED <<ops, failures>>

PNext ==
  \/ \E o \in WriteOutcomes : Writes(o) \/ Closes(o)
  \/ Commits \/ Replaces \/ Others \/ Checkpoint \/ PowerFailure

PSpec == PInit /\ [][PNext]_pvars

-----------------------------------------------------------------------------
(* Properties. *)

\* An index that answers is the image of the canonical games, after any power
\* failure, unless that failure took something the published manifest relies on
\* and nobody was promised: commits of games.db that were not checkpointed, or a
\* manifest whose write had reported an error.  Which unsynced renames, unlinks
\* and artifacts survive never matters, and the next mutation ends the exception.
ExactUnlessPowerTookIt == doubt # {} \/ AnswersAreExact

\* The same with one exception only, the commits synchronous = NORMAL may lose:
\* with every manifest write reported as it went, an index that answers is exact.
ExactUnlessRowsLost == "rows" \in doubt \/ AnswersAreExact
=============================================================================
