---------------------------- MODULE DerivedIndex ----------------------------
(***************************************************************************)
(* One database bundle and the database_manager that has it open.          *)
(*                                                                         *)
(* games.db is canonical.  positions.postings.N and opening_tree.idx.N are *)
(* images of it, published through manifest.json.  Every operation of      *)
(* database_manager runs under generation_mutex_, so operations do not     *)
(* interleave with each other; but each is a sequence of file-system       *)
(* effects, any of which may fail and between any two of which the process *)
(* may die.  An operation is therefore a chain of actions linked by pc,    *)
(* one per effect that outlives the process.                               *)
(*                                                                         *)
(* An artifact's bytes, and the size and checksum the manifest keeps of    *)
(* them, are abstracted to the image: the canonical games it was built     *)
(* from.                                                                   *)
(***************************************************************************)
EXTENDS Integers, FiniteSets

CONSTANTS
  Games,          \* identifiers canonical games may have
  Versions,       \* what an index can tell of a game: moves, result, Elo
  Absent,         \* no game with this identifier
  None,           \* std::nullopt; also "no such file"
  Corrupt,        \* bytes no builder wrote
  WriteOutcomes,  \* the manifest_write_state values the storage can produce
  MaxOps,         \* bound: user operations that change the bundle
  MaxFailures,    \* bound: failed effects and damaged artifacts
  MaxCrashes      \* bound: process deaths

Kinds == {"postings", "tree"}

Images == [Games -> Versions \cup {Absent}]

\* Every build consumes at most one sequence number, and a build is owed to an
\* operation (an import makes two) or to a failure: the bound is never reached.
MaxSeq == 2 * MaxOps + MaxFailures

Entries == [seq : 0..MaxSeq, gen : Nat, image : Images]

Manifests == [gen : Nat, seq : 0..MaxSeq, dirty : BOOLEAN,
              entry : [Kinds -> Entries \cup {None}]]

ArtifactNames == Kinds \X (0..MaxSeq)

ASSUME BoundsAssumption ==
  MaxOps \in Nat /\ MaxFailures \in Nat /\ MaxCrashes \in Nat

ASSUME SentinelAssumption ==
  /\ Absent \notin Versions
  /\ None \notin Images
  /\ Corrupt \notin Images \cup {None}
  /\ None \notin Entries
  /\ None \notin Manifests

ASSUME FiniteAssumption == IsFiniteSet(Games)

ASSUME OutcomeAssumption ==
  /\ WriteOutcomes \subseteq {"published", "published_not_durable", "not_published"}
  /\ "published" \in WriteOutcomes

VARIABLES
  db,        \* games.db exists
  games,     \* its committed rows
  disk,      \* manifest.json
  files,     \* the artifacts in the directory, by generation-qualified name
  mem,       \* manifest_
  reader,    \* position_postings_ and opening_tree_index_
  created,   \* created_bundle_
  pc,        \* the effect the running operation performs next
  task,      \* the operation that is running
  kind,      \* the index a rebuild is for
  staged,    \* the file at <name>.building
  doomed,    \* artifacts the running operation is about to remove
  failed,    \* the running operation will return an error
  ops, failures, crashes   \* what has been spent of the bounds

storage == <<db, games, disk, files>>
manager == <<mem, reader, created>>
call    == <<pc, task, kind, staged, doomed, failed>>
budget  == <<ops, failures, crashes>>
vars    == <<storage, manager, call, budget>>

-----------------------------------------------------------------------------
(* The validity rule every query, close(), open() and the tree rebuild use. *)

EmptyStore == [g \in Games |-> Absent]

count_games(img) == Cardinality({g \in Games : img[g] # Absent})

has_valid_derived_index(k) ==
  /\ mem.entry[k] # None
  /\ mem.entry[k].gen = mem.gen

\* Seeded fault of Covers: the game counts are not compared.
CoversUncounted(m, r) ==
  /\ m # None /\ r["postings"] # None
  /\ m.entry["postings"] # None
  /\ m.entry["postings"].gen = m.gen

\* mem and reader are passed so that open() can ask it of what it has just loaded.
Covers(m, r) ==
  /\ m # None
  /\ r["postings"] # None
  /\ m.entry["postings"] # None
  /\ m.entry["postings"].gen = m.gen
  /\ count_games(games) = count_games(r["postings"])

postings_cover_canonical_games == Covers(mem, reader)

\* query_unfiltered_opening_stats reads the tree only when this holds as well.
tree_covers_canonical_games ==
  /\ postings_cover_canonical_games
  /\ reader["tree"] # None
  /\ has_valid_derived_index("tree")
  /\ count_games(games) = count_games(reader["tree"])

\* What a query that takes generation_mutex_ now would be answered from.
Answering(k) ==
  IF k = "postings" THEN postings_cover_canonical_games
                    ELSE tree_covers_canonical_games

-----------------------------------------------------------------------------
(* Effects. *)

Fail(n) == failures' = failures + n /\ failures' \in failures..MaxFailures

\* write_manifest: write and sync a temporary file, rename it over
\* manifest.json, sync the directory.  Only the last step can fail after the
\* new manifest is already what a reader of the directory sees.
write_manifest(m, outcome) ==
  /\ outcome \in WriteOutcomes
  /\ Fail(IF outcome = "published" THEN 0 ELSE 1)
  /\ disk' = IF outcome = "not_published" THEN disk ELSE m

\* Seeded fault of was_published: a manifest that is in place but whose directory
\* was not synced counts as never written.
was_durable(outcome) == outcome = "published"

was_published(outcome) == outcome # "not_published"

NoReaders == [k \in Kinds |-> None]

NoEntries == [k \in Kinds |-> None]

\* Seeded faults of WithEntry: the build number is not consumed; the candidate is
\* made from nothing and forgets the other index.
WithEntryReusingSeq(m, k, e) == [m EXCEPT !.entry[k] = e]
WithOnlyEntry(m, k, e) ==
  [gen |-> m.gen, seq |-> m.seq + 1, dirty |-> m.dirty, entry |-> [NoEntries EXCEPT ![k] = e]]

\* The candidates write_manifest() is given: the in-use mark set or cleared, the
\* next generation with no index, and one more index published.
InUse(m, b) == [m EXCEPT !.dirty = b]
Invalidated(m) ==
  [gen |-> m.gen + 1, seq |-> m.seq, dirty |-> m.dirty, entry |-> NoEntries]
WithEntry(m, k, e) ==
  [gen |-> m.gen, seq |-> m.seq + 1, dirty |-> m.dirty, entry |-> [m.entry EXCEPT ![k] = e]]

make_manifest == [gen |-> 0, seq |-> 0, dirty |-> FALSE, entry |-> NoEntries]

Goto(label) == pc' = label

\* The running operation returns to its caller; the generation lock is free.
Return ==
  /\ pc' = "idle" /\ task' = "none" /\ kind' = "postings"
  /\ staged' = None /\ doomed' = {} /\ failed' = FALSE

\* The manager is gone: closed, or lost with its process.
Gone ==
  /\ mem' = None /\ reader' = NoReaders /\ created' = FALSE
  /\ pc' = "closed" /\ task' = "none" /\ kind' = "postings"
  /\ staged' = None /\ doomed' = {} /\ failed' = FALSE

\* Seeded fault of RebuildFailed: open() goes on without an index.
RebuildFailureIgnored ==
  IF task \in {"create", "open"}
  THEN Goto("mark") /\ staged' = None /\ UNCHANGED <<task, kind, doomed, failed>>
  ELSE Return

\* How each caller of rebuild_* goes on when it has returned an error.
RebuildFailed ==
  IF task \in {"create", "open"}
  THEN Goto("failing") /\ staged' = None /\ UNCHANGED <<task, kind, doomed, failed>>
  ELSE Return

\* ... and when it has succeeded.  An import rebuilds the tree, if configured,
\* after the postings.
RebuildSucceeded ==
  \/ task \in {"create", "open"}
     /\ Goto("mark") /\ staged' = None /\ doomed' = {} /\ UNCHANGED <<task, kind, failed>>
  \/ task \in {"rebuild", "import"} /\ Return
  \/ task = "import" /\ kind = "postings"
     /\ Goto("build") /\ kind' = "tree" /\ staged' = None /\ doomed' = {}
     /\ UNCHANGED <<task, failed>>

-----------------------------------------------------------------------------
(* Lifecycle. *)

Init ==
  /\ db = FALSE /\ games = EmptyStore /\ disk = None
  /\ files = [n \in ArtifactNames |-> None]
  /\ mem = None /\ reader = NoReaders /\ created = FALSE
  /\ pc = "closed" /\ task = "none" /\ kind = "postings"
  /\ staged = None /\ doomed = {} /\ failed = FALSE
  /\ ops = 0 /\ failures = 0 /\ crashes = 0

\* create(): the directory, the lock, then games.db with its schema.
CreateSchema ==
  /\ pc = "closed" /\ ~db /\ ops < MaxOps
  /\ db' = TRUE /\ games' = EmptyStore
  /\ Goto("create") /\ task' = "create" /\ ops' = ops + 1
  /\ UNCHANGED <<disk, files, manager, kind, staged, doomed, failed, failures, crashes>>

\* create(): the first manifest.  Anything but a durable write is an error and
\* the bundle's files are removed.
CreateManifest(outcome) ==
  /\ pc = "create"
  /\ write_manifest(make_manifest, outcome)
  /\ IF outcome = "published"
     THEN mem' = make_manifest /\ created' = TRUE /\ Goto("build")
     ELSE Goto("remove_manifest") /\ UNCHANGED <<mem, created>>
  /\ UNCHANGED <<db, games, files, reader, task, kind, staged, doomed, failed, ops, crashes>>

\* open(): read the manifest, install a reader for each artifact whose size and
\* checksum match its entry and which opens; rebuild unless the postings cover.
OpenBundle(unreadable) ==
  /\ pc = "closed" /\ db /\ disk # None
  /\ unreadable \subseteq {k \in Kinds : disk.entry[k] # None}
  /\ Fail(Cardinality(unreadable))
  /\ mem' = disk
  /\ reader' = [k \in Kinds |->
       IF /\ disk.entry[k] # None
          /\ files[<<k, disk.entry[k].seq>>] = disk.entry[k].image
          /\ k \notin unreadable
       THEN disk.entry[k].image ELSE None]
  /\ Goto(IF Covers(mem', reader') THEN "mark" ELSE "build")
  /\ task' = "open"
  /\ UNCHANGED <<storage, created, kind, staged, doomed, failed, ops, crashes>>

\* open() and create(): the in-use mark.
MarkInUse(outcome) ==
  /\ pc = "mark"
  /\ mem' = InUse(mem, TRUE)
  /\ write_manifest(mem', outcome)
  /\ IF outcome = "published" THEN Return
     ELSE Goto("failing") /\ UNCHANGED <<task, kind, staged, doomed, failed>>
  /\ UNCHANGED <<db, games, files, reader, created, ops, crashes>>

\* close(), of a session or of a failed open() or create(): the outcome of the
\* manifest write is ignored.  A failed create() goes on to remove the bundle.
CloseManager(outcome) ==
  LET final == IF postings_cover_canonical_games
               THEN InUse(mem, FALSE) ELSE mem
  IN /\ pc \in {"idle", "failing", "discard"}
     /\ write_manifest(final, outcome)
     /\ IF pc = "discard" \/ task = "create"
        THEN /\ mem' = None /\ reader' = NoReaders /\ created' = FALSE
             /\ Goto("remove_manifest") /\ task' = "create"
             /\ kind' = "postings" /\ staged' = None /\ doomed' = {} /\ failed' = FALSE
        ELSE Gone
     /\ UNCHANGED <<db, games, files, ops, crashes>>

\* discard_created_bundle(): only a manager that came from create() removes files.
DiscardCreatedBundle ==
  /\ pc = "idle" /\ created
  /\ Goto("discard")
  /\ UNCHANGED <<storage, manager, task, kind, staged, doomed, failed, budget>>

\* remove_created_bundle_files(): the manifest, then games.db, then every
\* artifact found in the directory; each removal is best effort.
RemoveManifest ==
  /\ pc = "remove_manifest"
  /\ \/ disk' = None /\ UNCHANGED failures
     \/ Fail(1) /\ UNCHANGED disk
  /\ Goto("remove_db")
  /\ UNCHANGED <<db, games, files, manager, task, kind, staged, doomed, failed, ops, crashes>>

RemoveDb ==
  /\ pc = "remove_db"
  /\ \/ db' = FALSE /\ games' = EmptyStore /\ UNCHANGED failures
     \/ Fail(1) /\ UNCHANGED <<db, games>>
  /\ Goto("remove_artifacts")
  /\ UNCHANGED <<disk, files, manager, task, kind, staged, doomed, failed, ops, crashes>>

RemoveArtifacts ==
  /\ pc = "remove_artifacts"
  /\ \/ files' = [n \in ArtifactNames |-> None] /\ UNCHANGED failures
     \/ Fail(1) /\ UNCHANGED files
  /\ Gone
  /\ UNCHANGED <<db, games, disk, ops, crashes>>

-----------------------------------------------------------------------------
(* Canonical mutations: insert_game, remove_game, patch_game_metadata, and  *)
(* the batches an import commits while it holds lock_generation().          *)

\* Seeded fault of BeginMutation: one mutation forgets prepare_canonical_mutation().
BeginMutationUnprepared(t) ==
  /\ pc = "idle" /\ ops < MaxOps
  /\ Goto(IF t = "edit" \/ mem.entry = NoEntries THEN "mutate" ELSE "stale")
  /\ task' = t /\ ops' = ops + 1
  /\ UNCHANGED <<storage, manager, kind, staged, doomed, failed, failures, crashes>>

\* prepare_canonical_mutation(): nothing to do when the manifest names no index.
BeginMutation(t) ==
  /\ pc = "idle" /\ ops < MaxOps
  /\ Goto(IF mem.entry = NoEntries THEN "mutate" ELSE "stale")
  /\ task' = t /\ ops' = ops + 1
  /\ UNCHANGED <<storage, manager, kind, staged, doomed, failed, failures, crashes>>

\* mark_derived_indexes_stale(): publish a manifest of the next generation that
\* names no index; when that cannot be published the mutation is refused.
MarkStale(outcome) ==
  /\ pc = "stale"
  /\ LET candidate == Invalidated(mem)
     IN /\ write_manifest(candidate, outcome)
        /\ IF was_published(outcome)
           THEN /\ mem' = candidate /\ reader' = NoReaders
                /\ doomed' = {<<k, mem.entry[k].seq>> : k \in {j \in Kinds : mem.entry[j] # None}}
                /\ failed' = (outcome # "published")
                /\ Goto("unlink_stale") /\ UNCHANGED <<task, kind, staged>>
           ELSE Return /\ UNCHANGED <<mem, reader>>
  /\ UNCHANGED <<db, games, files, created, ops, crashes>>

Unlink(names) ==
  /\ names \subseteq doomed
  /\ Fail(Cardinality(doomed \ names))
  /\ files' = [n \in ArtifactNames |-> IF n \in names THEN None ELSE files[n]]

\* ... whose files are then removed, best effort, even when the manifest is
\* published but its directory entry could not be synced.
UnlinkStale(names) ==
  /\ pc = "unlink_stale"
  /\ Unlink(names)
  /\ IF failed THEN Return
     ELSE Goto("mutate") /\ doomed' = {} /\ UNCHANGED <<task, kind, staged, failed>>
  /\ UNCHANGED <<db, games, disk, manager, ops, crashes>>

\* One SQLite commit.  A failed or refused statement leaves the rows alone.
\* An import commits any number of times, and ends in the rebuild or, when it
\* was stopped or has failed, without one.
Commit(rows) ==
  /\ pc = "mutate"
  /\ \E g \in Games : rows = [games EXCEPT ![g] = rows[g]]
  /\ games' = rows
  /\ IF task = "import" THEN UNCHANGED call ELSE Return
  /\ UNCHANGED <<db, disk, files, manager, budget>>

\* resume_from_checkpoint(), of an import that died with raw rows in place:
\* deduplicate() commits before run_from() gets to prepare_canonical_mutation().
\* Every group of duplicates keeps a row.
Reconcile(gone) ==
  /\ pc = "idle" /\ ops < MaxOps
  /\ gone = {} \/ \E g \in Games \ gone : games[g] # Absent
  /\ games' = [g \in Games |-> IF g \in gone THEN Absent ELSE games[g]]
  /\ ops' = ops + 1
  /\ \/ Goto(IF mem.entry = NoEntries THEN "mutate" ELSE "stale") /\ task' = "import"
        /\ UNCHANGED <<kind, staged, doomed, failed, failures>>
     \/ Fail(1) /\ Return
  /\ UNCHANGED <<db, disk, files, manager, crashes>>

EndImport ==
  /\ pc = "mutate" /\ task = "import"
  /\ \/ Goto("build") /\ kind' = "postings" /\ UNCHANGED <<task, staged, doomed, failed>>
     \/ Return
  /\ UNCHANGED <<storage, manager, budget>>

-----------------------------------------------------------------------------
(* rebuild_position_postings() and rebuild_opening_tree_index().            *)

BeginRebuild(k) ==
  /\ pc = "idle" /\ ops < MaxOps
  /\ k = "tree" => postings_cover_canonical_games
  /\ Goto("build") /\ task' = "rebuild" /\ kind' = k /\ ops' = ops + 1
  /\ UNCHANGED <<storage, manager, staged, doomed, failed, failures, crashes>>

NewName == <<kind, mem.seq>>

\* An orphan under the new name is removed, then the index is built into the
\* staging file and reopened there.  (A tree build after an import is refused
\* when the postings do not cover; after a successful rebuild they do.)
BuildStaged ==
  /\ pc = "build" /\ mem.seq < MaxSeq
  /\ files' = [files EXCEPT ![NewName] = None]
  /\ \/ staged' = games /\ Goto("staged") /\ UNCHANGED <<task, kind, doomed, failed, failures>>
     \/ Fail(1) /\ RebuildFailed
  /\ UNCHANGED <<db, games, disk, manager, ops, crashes>>

RenameStaged ==
  /\ pc = "staged"
  /\ \/ files' = [files EXCEPT ![NewName] = staged] /\ Goto("publish")
        /\ UNCHANGED <<task, kind, staged, doomed, failed, failures>>
     \/ Fail(1) /\ RebuildFailed /\ UNCHANGED files
  /\ UNCHANGED <<db, games, disk, manager, ops, crashes>>

\* publish_derived_index() and the installation of the reader.  The previous
\* generation's file outlives a publication that is not durable.
Publish(outcome) ==
  /\ pc = "publish"
  /\ LET entry     == [seq |-> mem.seq, gen |-> mem.gen, image |-> files[NewName]]
         candidate == WithEntry(mem, kind, entry)
         previous  == mem.entry[kind]
     IN /\ write_manifest(candidate, outcome)
        /\ IF was_published(outcome)
           THEN /\ mem' = candidate
                /\ reader' = [reader EXCEPT ![kind] = files[NewName]]
                /\ UNCHANGED files
                /\ IF outcome # "published" THEN RebuildFailed
                   ELSE /\ doomed' = IF previous = None THEN {} ELSE {<<kind, previous.seq>>}
                        /\ Goto("unlink_previous")
                        /\ UNCHANGED <<task, kind, staged, failed>>
           ELSE /\ files' = [files EXCEPT ![NewName] = None]
                /\ RebuildFailed /\ UNCHANGED <<mem, reader>>
  /\ UNCHANGED <<db, games, created, ops, crashes>>

UnlinkPrevious(names) ==
  /\ pc = "unlink_previous"
  /\ Unlink(names)
  /\ RebuildSucceeded
  /\ UNCHANGED <<db, games, disk, manager, ops, crashes>>

-----------------------------------------------------------------------------
(* The environment. *)

\* The process dies: every file stays as the last effect left it.
Crash ==
  /\ pc # "closed" /\ crashes < MaxCrashes
  /\ crashes' = crashes + 1
  /\ Gone
  /\ UNCHANGED <<storage, ops, failures>>

\* An artifact is damaged or deleted while no manager has the bundle open.
\* artifact_matches_manifest() tells neither from the other.
Damage(n) ==
  /\ pc = "closed" /\ files[n] \in Images
  /\ Fail(1)
  /\ files' = [files EXCEPT ![n] = Corrupt]
  /\ UNCHANGED <<db, games, disk, manager, call, ops, crashes>>

-----------------------------------------------------------------------------
User ==
  \/ CreateSchema
  \/ DiscardCreatedBundle
  \/ \E t \in {"edit", "import"} : BeginMutation(t)
  \/ \E gone \in SUBSET Games : Reconcile(gone)
  \/ \E k \in Kinds : BeginRebuild(k)

\* The steps a thread inside an operation takes.
Step ==
  \/ \E o \in WriteOutcomes : CreateManifest(o) \/ MarkInUse(o) \/ MarkStale(o) \/ Publish(o)
  \/ RemoveManifest \/ RemoveDb \/ RemoveArtifacts
  \/ \E names \in SUBSET doomed : UnlinkStale(names) \/ UnlinkPrevious(names)
  \/ \E g \in Games, v \in Versions \cup {Absent} : Commit([games EXCEPT ![g] = v])
  \/ EndImport
  \/ BuildStaged \/ RenameStaged

Open == \E unreadable \in SUBSET Kinds : OpenBundle(unreadable)

Close == \E o \in WriteOutcomes : CloseManager(o)

Environment == Crash \/ \E n \in ArtifactNames : Damage(n)

Next == User \/ Step \/ Open \/ Close \/ Environment

Spec == Init /\ [][Next]_vars

\* A thread inside an operation keeps running, and whoever wants the bundle
\* calls open() again after it failed or after a crash.
Fairness ==
  /\ WF_vars(Step)
  /\ WF_vars(Open)
  /\ WF_vars(pc \in {"failing", "discard"} /\ Close)

FairSpec == Spec /\ Fairness

-----------------------------------------------------------------------------
(* Properties. *)

Labels == {"closed", "idle", "create", "mark", "failing", "discard", "remove_manifest",
           "remove_db", "remove_artifacts", "stale", "unlink_stale", "mutate", "build",
           "staged", "publish", "unlink_previous"}

StorageTypeOK ==
  /\ db \in BOOLEAN
  /\ games \in Images
  /\ disk \in Manifests \cup {None}
  /\ files \in [ArtifactNames -> Images \cup {None, Corrupt}]

ManagerTypeOK ==
  /\ mem \in Manifests \cup {None}
  /\ reader \in [Kinds -> Images \cup {None}]
  /\ created \in BOOLEAN

CallTypeOK ==
  /\ pc \in Labels
  /\ task \in {"none", "create", "open", "edit", "import", "rebuild"}
  /\ kind \in Kinds
  /\ staged \in Images \cup {None}
  /\ doomed \in SUBSET ArtifactNames
  /\ failed \in BOOLEAN

BudgetTypeOK == ops \in Nat /\ failures \in Nat /\ crashes \in Nat

\* The type of every variable.
TypeOK == StorageTypeOK /\ ManagerTypeOK /\ CallTypeOK /\ BudgetTypeOK

\* Whenever the validity rule lets a query be answered from an index, that index
\* describes exactly the canonical games.  The rule compares a generation number
\* and a game count, never the contents: after any history of mutations, failed
\* writes, half-finished rebuilds, damaged files and process deaths it must not
\* take an image of another game set, of the same size, for the current one.
AnswersAreExact == \A k \in Kinds : Answering(k) => reader[k] = games

OpenLabels ==
  Labels \ {"closed", "create", "remove_manifest", "remove_db", "remove_artifacts"}

\* A manager's manifest_ agrees with manifest.json on everything but the in-use
\* mark, whatever write just failed.
SessionInv ==
  /\ mem # None <=> pc \in OpenLabels
  /\ mem # None => /\ db /\ disk # None
                   /\ mem.gen = disk.gen /\ mem.seq = disk.seq /\ mem.entry = disk.entry
  /\ mem = None => reader = NoReaders
  /\ pc = "create" => db

\* An entry belongs to the current generation and was numbered before the next
\* build; an installed reader is that of an entry.
EntryInv ==
  /\ disk # None => \A k \in Kinds : disk.entry[k] # None =>
       /\ disk.entry[k].gen = disk.gen
       /\ disk.entry[k].seq < disk.seq
  /\ \A k \in Kinds : reader[k] # None =>
       mem # None /\ mem.entry[k] # None /\ reader[k] = mem.entry[k].image

\* The images of a manifest's entries are the given rows, or have more of them: a
\* resumed import has removed duplicates, or a failed discard left the manifest of
\* an emptied bundle.
Describes(m, rows) ==
  m # None => \A k \in Kinds : m.entry[k] # None =>
    m.entry[k].image = rows \/ count_games(rows) < count_games(m.entry[k].image)

\* What an operation relies on between two of its effects.
CallInv ==
  /\ pc = "staged" => staged = games
  /\ pc = "publish" => mem.seq < MaxSeq /\ files[NewName] = games
  /\ pc = "staged" => mem.seq < MaxSeq
  /\ pc \in {"mutate", "unlink_stale"} => mem.entry = NoEntries
  /\ pc \in {"unlink_stale", "unlink_previous"} \/ doomed = {}
  /\ disk # None => \A k \in Kinds :
       disk.entry[k] # None => <<k, disk.entry[k].seq>> \notin doomed

\* Memory, manifest and artifacts agree with each other, whatever the rows are.
Sound == TypeOK /\ SessionInv /\ EntryInv /\ CallInv

\* The inductive invariant behind the safety theorems: memory, manifest, artifacts
\* and canonical rows stay consistent across every failed or interrupted effect.
Consistent == Sound /\ Describes(disk, games)

\* Canonical rows change only after the manifest on disk names no index any more:
\* the order prepare_canonical_mutation() exists for, also right after an open()
\* or a rebuild that reported an error.  The one exception, the duplicates a
\* resumed import removes first, takes rows away and is told by their number.
MutationsFollowInvalidation ==
  [][games' # games /\ db /\ db' =>
       disk.entry = NoEntries \/ count_games(games') < count_games(games)]_vars

\* The file an entry of manifest.json refers to is never removed, overwritten or
\* replaced by a rebuild, an invalidation, an open() or a close() for as long as
\* the entry stands: only damage from outside and discarding the bundle take it.
PublishedArtifactsStay ==
  [][\A k \in Kinds :
       /\ disk # None /\ disk.entry[k] # None
       /\ disk' # None /\ disk'.entry[k] = disk.entry[k]
       /\ pc \notin {"closed", "remove_artifacts"}
       => LET n == <<k, disk.entry[k].seq>>
          IN files[n] = disk.entry[k].image => files'[n] = files[n]]_vars

\* While a session lasts and the games stay as they are, answers stop only through
\* an invalidation: a rebuild that fails at any point leaves the generation it
\* meant to replace in service.
RebuildKeepsService ==
  [][postings_cover_canonical_games /\ mem' # None /\ pc # "stale" /\ games' = games
       => postings_cover_canonical_games']_vars

\* A bundle that is not open becomes usable again: open() can be retried after
\* any failure, and ends in a session that answers from covering postings.
ReopenRecovers ==
  (pc = "closed" /\ db /\ disk # None) ~> (pc = "idle" /\ postings_cover_canonical_games)

\* What a caller can see of the bundle, and the promise it is held to.  Canonical
\* rows and the answers given about them never get out of step, whatever effects
\* fail and wherever the process dies.
served == [k \in Kinds |-> IF Answering(k) THEN reader[k] ELSE None]

Promise == INSTANCE FailClosedIndex WITH canonical <- games, served <- served

FailsClosed == Promise!Spec
=============================================================================
