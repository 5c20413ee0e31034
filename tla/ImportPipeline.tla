--------------------------- MODULE ImportPipeline ---------------------------
(***************************************************************************)
(* import_pipeline: one PGN import after another into one bundle.          *)
(*                                                                         *)
(* Games flow through a Taskflow pipeline of three pipes.  stage0 (serial) *)
(* reads, stage1 (parallel) replays the moves, stage2 (serial) inserts,    *)
(* commits a batch and writes the checkpoint.  stage0 of a later game runs *)
(* while stage2 of an earlier one does, and both write eof_reached,        *)
(* stopped and fatal_error without synchronisation.  stage1 touches only   *)
(* its own slot and is part of reading here.                               *)
(*                                                                         *)
(* A fresh import drops the identity index and inserts without looking;    *)
(* deduplicate() then removes what is there twice and restores the index.  *)
(*                                                                         *)
(* A game is its identity: equal items of a PGN are exact duplicates.  A   *)
(* byte offset is the number of items before it.                           *)
(***************************************************************************)
EXTENDS Integers, Sequences, FiniteSets, FiniteSetsExt

CONSTANTS
  Games,        \* game identities
  Bad,          \* an item that cannot be read or replayed
  Sources,      \* PGN files
  Items,        \* what each of them holds
  NumLines,     \* the values import_config::num_lines may have
  BatchSize,    \* import_config::batch_size
  Faults,       \* the calls that may fail, for each of them
  SizeModulus,  \* one more than the largest std::size_t
  None,         \* no checkpoint, no transaction, no result
  MaxRuns, MaxFailures, MaxCrashes   \* bounds

ASSUME ImportAssumption ==
  /\ Bad \notin Games /\ IsFiniteSet(Games) /\ None \notin [Games -> Nat]
  /\ \A s \in Sources : Items[s] \in Seq(Games \cup {Bad})
  /\ NumLines \subseteq Nat \ {0} /\ BatchSize \in Nat \ {0}
  /\ MaxRuns \in Nat /\ MaxFailures \in Nat /\ MaxCrashes \in Nat
  /\ SizeModulus \in Nat \ {0} /\ \A s \in Sources : Len(Items[s]) < SizeModulus
  /\ \A n \in NumLines :
       Faults[n] \subseteq {"prepare", "drop", "begin", "read", "insert", "commit",
                           "checkpoint", "dedup", "rebuild"}

VARIABLES
  rows,        \* committed rows of each game
  index,       \* the identity index exists
  chk,         \* import.checkpoint.json
  pc,          \* what the thread in run() or resume() does
  source,      \* its pgn_path
  lines,       \* its num_lines
  tx,          \* the rows as the open transaction sees them
  raw,         \* raw_mode
  start,       \* start_offset
  pos,         \* items stage0 has read
  done,        \* items stage2 has taken
  stage0,      \* "check": looks at the flags next; "read": is in reader.next(); "end"
  stage2,      \* "insert", "commit", "checkpoint"; "stop" or "error": has called pflow.stop()
  eof_reached, stopped, fatal_error,   \* shared by stage0 and stage2
  offset,      \* checkpoint_offset
  committed, pre_committed, pending, skipped,
  stop,        \* stop_requested_
  result,      \* what the last call returned
  clean,       \* history: no raw rows of another, interrupted import are in its way
  runs, failures, crashes

storage  == <<rows, index, chk>>
input    == <<source, lines, raw, start, pre_committed, clean>>
flags    == <<eof_reached, stopped, fatal_error>>
progress == <<offset, committed, pending, skipped>>
stages   == <<pos, done, stage0, stage2>>
budget   == <<runs, failures, crashes>>
vars     == <<storage, pc, input, tx, flags, progress, stages, stop, result, budget>>

-----------------------------------------------------------------------------
(* The writer's calls. *)

Fails(f) ==
  /\ f \in Faults[lines] /\ failures < MaxFailures
  /\ failures' = failures + 1

count_games(r) == MapThenSumSet(LAMBDA g : r[g], Games)

\* Seeded fault of Unique: every row of a duplicated game goes.
UniqueDroppingGroups(r) == [g \in Games |-> IF r[g] = 1 THEN 1 ELSE 0]

\* dedup_delete_sql: one row of each game is left.
Unique(r) == [g \in Games |-> IF r[g] > 0 THEN 1 ELSE 0]

deduplicate ==
  \/ rows' = Unique(rows) /\ index' = TRUE /\ UNCHANGED failures
  \/ Fails("dedup") /\ UNCHANGED <<rows, index>>

\* Seeded fault of restore_identity_index: an early return that forgets it.
restore_forgotten(lost) == failures' = failures + lost /\ UNCHANGED <<rows, index>>

\* restore_identity_index(), on the way out of a failed import.
restore_identity_index(lost) ==
  IF raw
  THEN \/ rows' = Unique(rows) /\ index' = TRUE /\ failures' = failures + lost
       \/ /\ "dedup" \in Faults[lines] /\ failures + lost < MaxFailures
          /\ failures' = failures + lost + 1 /\ UNCHANGED <<rows, index>>
  ELSE failures' = failures + lost /\ UNCHANGED <<rows, index>>

\* Seeded fault of write_checkpoint: it records how far the reader is.
write_reader_checkpoint ==
  \/ chk' = [source |-> source, offset |-> pos, committed |-> committed] /\ UNCHANGED failures
  \/ Fails("checkpoint") /\ UNCHANGED chk

write_checkpoint ==
  \/ chk' = [source |-> source, offset |-> offset, committed |-> committed] /\ UNCHANGED failures
  \/ Fails("checkpoint") /\ UNCHANGED chk

Returns(r) == pc' = "idle" /\ result' = r /\ tx' = None

Failed == [ok |-> FALSE, stopped |-> FALSE]

\* static_cast<std::size_t>: a negative difference becomes a huge count.
Size(n) == n % SizeModulus

\* Seeded fault of Summary: games_processed_ is not reset for a resumed import.
SummaryOfAllRead(halt) ==
  [ok |-> TRUE, stopped |-> halt, source |-> source, attempted |-> done,
   committed |-> Size(committed - pre_committed), skipped |-> skipped]

Summary(halt) ==
  [ok |-> TRUE, stopped |-> halt, source |-> source, attempted |-> done - start,
   committed |-> Size(committed - pre_committed), skipped |-> skipped]

-----------------------------------------------------------------------------
Init ==
  /\ rows = [g \in Games |-> 0] /\ index = TRUE /\ chk = None
  /\ pc = "idle" /\ tx = None /\ source \in Sources /\ lines \in NumLines /\ raw = FALSE /\ start = 0
  /\ pos = 0 /\ done = 0 /\ stage0 = "end" /\ stage2 = "insert"
  /\ eof_reached = FALSE /\ stopped = FALSE /\ fatal_error = "none"
  /\ offset = 0 /\ committed = 0 /\ pre_committed = 0 /\ pending = 0 /\ skipped = 0
  /\ stop = FALSE /\ result = None /\ clean = TRUE
  /\ runs = 0 /\ failures = 0 /\ crashes = 0

\* Seeded fault of Run: the checkpoint's source is not compared.
RunFromAnyCheckpoint(s) ==
  /\ pc = "idle" /\ runs < MaxRuns
  /\ pc' = IF chk # None /\ ~index THEN "repair" ELSE "enter"
  /\ source' = s
  /\ start' = IF chk # None THEN chk.offset ELSE 0
  /\ pre_committed' = IF chk # None THEN chk.committed ELSE 0
  /\ stop' = FALSE /\ result' = None /\ runs' = runs + 1 /\ clean' = (index \/ chk # None)
  /\ UNCHANGED <<storage, lines, tx, raw, flags, progress, stages, failures, crashes>>

\* run(): resumes when the checkpoint is of this PGN, and otherwise leaves it
\* alone and begins afresh.  resume() accepts no other PGN's checkpoint.  Each
\* import has a pipeline of its own, so stop_requested_ starts cleared.
Run(s) ==
  LET resumes == chk # None /\ chk.source = s
  IN /\ pc = "idle" /\ runs < MaxRuns
     /\ pc' = IF resumes /\ ~index THEN "repair" ELSE "enter"
     /\ source' = s
     /\ start' = IF resumes THEN chk.offset ELSE 0
     /\ pre_committed' = IF resumes THEN chk.committed ELSE 0
     /\ stop' = FALSE /\ result' = None /\ runs' = runs + 1 /\ clean' = (index \/ resumes)
     /\ UNCHANGED <<storage, lines, tx, raw, flags, progress, stages, failures, crashes>>

\* resume_from_checkpoint(): the rows of an interrupted raw import are
\* reconciled, and what is left counts as committed before.
Repair ==
  /\ pc = "repair"
  /\ deduplicate
  /\ IF index'
     THEN pre_committed' = count_games(rows') /\ pc' = "enter" /\ UNCHANGED <<tx, result>>
     ELSE Returns(Failed) /\ UNCHANGED pre_committed
  /\ UNCHANGED <<chk, source, lines, raw, start, clean, flags, progress, stages, stop, runs, crashes>>

\* run_from() up to the pipeline: the indexes are marked stale, the reader is put
\* in place, raw mode drops the identity index, the first transaction begins.
Enter ==
  /\ pc = "enter"
  /\ raw' = (pre_committed = 0)
  /\ \/ /\ Fails("prepare") \/ (pre_committed = 0 /\ Fails("drop"))
        /\ Returns(Failed) /\ UNCHANGED <<rows, index>>
     \/ /\ pre_committed = 0 /\ Fails("begin")
        /\ \/ rows' = Unique(rows) /\ index' = TRUE
           \/ "dedup" \in Faults[lines] /\ rows' = rows /\ index' = FALSE
        /\ Returns(Failed)
     \/ pre_committed # 0 /\ Fails("begin") /\ Returns(Failed) /\ UNCHANGED <<rows, index>>
     \/ /\ index' = (index /\ pre_committed # 0)
        /\ tx' = rows /\ pc' = "ingest" /\ UNCHANGED <<rows, failures, result>>
  /\ pos' = start /\ done' = start /\ stage0' = "check" /\ stage2' = "insert"
  /\ eof_reached' = FALSE /\ stopped' = FALSE /\ fatal_error' = "none"
  /\ offset' = start /\ committed' = pre_committed /\ pending' = 0 /\ skipped' = 0
  /\ UNCHANGED <<chk, source, lines, start, pre_committed, clean, stop, runs, crashes>>

-----------------------------------------------------------------------------
(* stage0. *)

Halted == stage2 \in {"stop", "error"}

\* A line is taken from stage0 of a game until its stage2 returns.
TakenLines == pos - done + IF stage2 = "insert" THEN 0 ELSE 1

\* The flags are read before the game is.
Stage0Check ==
  /\ pc = "ingest" /\ stage0 = "check" /\ TakenLines < lines
  /\ IF stop
     THEN stopped' = TRUE /\ eof_reached' = TRUE /\ stage0' = "end"
     ELSE /\ stage0' = IF eof_reached THEN "end" ELSE "read"
          /\ UNCHANGED <<stopped, eof_reached>>
  /\ UNCHANGED <<storage, pc, input, tx, fatal_error, progress, pos, done, stage2, stop, result, budget>>

Stage0Read ==
  /\ pc = "ingest" /\ stage0 = "read"
  /\ \/ /\ pos < Len(Items[source])
        /\ pos' = pos + 1 /\ stage0' = "check"
        /\ UNCHANGED <<eof_reached, fatal_error, failures>>
     \/ /\ pos = Len(Items[source])
        /\ fatal_error' = "eof" /\ eof_reached' = TRUE /\ stage0' = "end"
        /\ UNCHANGED <<pos, failures>>
     \/ /\ pos = start /\ Fails("read")     \* the file could not be opened
        /\ fatal_error' = "io_failure" /\ eof_reached' = TRUE /\ stage0' = "end"
        /\ UNCHANGED pos
  /\ UNCHANGED <<storage, pc, input, tx, stopped, progress, done, stage2, stop, result, runs, crashes>>

-----------------------------------------------------------------------------
(* stage2.  pflow.stop() is meant for the first pipe; called here it throws,  *)
(* the pipeline makes no further call of stage2, and wait() does not rethrow. *)

Abort ==
  /\ tx' = None /\ fatal_error' = "io_failure" /\ eof_reached' = TRUE /\ stage2' = "error"

Item == Items[source][done + 1]

\* The checked insert() looks the game up in the rows it sees; insert_raw() does not.
Duplicate == Item # Bad /\ ~raw /\ tx[Item] > 0

Stage2Insert ==
  /\ pc = "ingest" /\ stage2 = "insert" /\ done < pos
  /\ done' = done + 1
  /\ \/ /\ Item = Bad \/ Duplicate       \* parse error, or duplicate
        /\ skipped' = skipped + 1
        /\ UNCHANGED <<tx, offset, committed, pending, stage2, eof_reached, fatal_error, failures>>
     \/ /\ Item # Bad /\ ~Duplicate
        /\ tx' = [tx EXCEPT ![Item] = @ + 1]
        /\ offset' = done' /\ committed' = committed + 1 /\ pending' = pending + 1
        /\ stage2' = IF pending' >= BatchSize THEN "commit" ELSE "insert"
        /\ UNCHANGED <<skipped, eof_reached, fatal_error, failures>>
     \/ /\ Item # Bad /\ Fails("insert")
        /\ Abort /\ UNCHANGED <<skipped, offset, committed, pending>>
  /\ UNCHANGED <<storage, pc, input, stopped, pos, stage0, stop, result, runs, crashes>>

Stage2Commit ==
  /\ pc = "ingest" /\ stage2 = "commit"
  /\ \/ /\ rows' = tx /\ tx' = None /\ stage2' = "checkpoint"
        /\ UNCHANGED <<eof_reached, fatal_error, failures>>
     \/ Fails("commit") /\ Abort /\ UNCHANGED rows
  /\ UNCHANGED <<index, chk, pc, input, stopped, progress, pos, done, stage0, stop, result, runs, crashes>>

\* The checkpoint write may fail silently; then a stop request is honoured, or the
\* next batch begins.
Stage2Checkpoint ==
  /\ pc = "ingest" /\ stage2 = "checkpoint"
  /\ pending' = 0
  /\ \/ /\ write_checkpoint
        /\ IF stop THEN /\ stopped' = TRUE /\ eof_reached' = TRUE /\ stage2' = "stop"
                        /\ UNCHANGED <<tx, fatal_error>>
                   ELSE tx' = rows /\ stage2' = "insert" /\ UNCHANGED flags
     \/ /\ ~stop /\ Fails("begin") /\ Abort /\ UNCHANGED stopped
        /\ chk' = [source |-> source, offset |-> offset, committed |-> committed]
  /\ UNCHANGED <<rows, index, pc, input, offset, committed, skipped, pos, done, stage0, stop,
                 result, runs, crashes>>

-----------------------------------------------------------------------------
(* After executor.run(taskflow).wait(). *)

\* When wait() returns (Taskflow's doing): every game has passed stage2, or stage2 gave up.
Drained == stage0 # "read" /\ (Halted \/ (stage0 = "end" /\ done = pos /\ stage2 = "insert"))

\* The last batch is committed, unless an error other than the end of the file
\* is on record or the commit fails; then the index is restored and run() fails.
IngestEnd ==
  /\ pc = "ingest" /\ Drained
  /\ \/ /\ fatal_error # "io_failure"
        /\ rows' = IF tx = None THEN rows ELSE tx
        /\ tx' = None /\ pc' = IF raw THEN "dedup" ELSE "finish"
        /\ UNCHANGED <<index, failures, result>>
     \/ /\ fatal_error = "io_failure" /\ restore_identity_index(0)
        /\ Returns(Failed)
     \/ /\ fatal_error # "io_failure" /\ tx # None
        /\ "commit" \in Faults[lines] /\ failures < MaxFailures
        /\ restore_identity_index(1) /\ Returns(Failed)
  /\ UNCHANGED <<chk, input, flags, progress, stages, stop, runs, crashes>>

\* dedup_summary::removed.
Removed(before, after) == count_games(before) - count_games(after)

Deduplicate ==
  /\ pc = "dedup"
  /\ deduplicate
  /\ IF index'
     THEN /\ committed' = committed - Removed(rows, rows')
          /\ skipped' = skipped + Removed(rows, rows')
          /\ pc' = "finish" /\ UNCHANGED <<tx, result>>
     ELSE Returns(Failed) /\ UNCHANGED <<committed, skipped>>
  /\ UNCHANGED <<chk, input, flags, offset, pending, stages, stop, runs, crashes>>

\* A stopped import leaves a checkpoint and does not rebuild.
Finish ==
  /\ pc = "finish"
  /\ \/ /\ stopped \/ stop
        /\ write_checkpoint /\ Returns(Summary(TRUE))
     \/ /\ ~(stopped \/ stop)
        /\ pc' = "rebuild" /\ UNCHANGED <<chk, failures, tx, result>>
  /\ UNCHANGED <<rows, index, input, flags, progress, stages, stop, runs, crashes>>

Rebuild ==
  /\ pc = "rebuild"
  /\ \/ pc' = "delete" /\ UNCHANGED <<failures, tx, result>>
     \/ Fails("rebuild") /\ Returns(Failed)
  /\ UNCHANGED <<storage, input, flags, progress, stages, stop, runs, crashes>>

DeleteCheckpoint ==
  /\ pc = "delete"
  /\ chk' = None
  /\ Returns(Summary(FALSE))
  /\ UNCHANGED <<rows, index, input, flags, progress, stages, stop, budget>>

RequestStop ==
  /\ pc # "idle" /\ ~stop
  /\ stop' = TRUE
  /\ UNCHANGED <<storage, pc, input, tx, flags, progress, stages, result, budget>>

\* The process dies; SQLite rolls the open transaction back.
Crash ==
  /\ pc # "idle" /\ crashes < MaxCrashes /\ crashes' = crashes + 1
  /\ Returns(None)
  /\ UNCHANGED <<storage, input, flags, progress, stages, stop, runs, failures>>

-----------------------------------------------------------------------------
Step ==
  \/ Repair \/ Enter \/ Stage0Check \/ Stage0Read
  \/ Stage2Insert \/ Stage2Commit \/ Stage2Checkpoint
  \/ IngestEnd \/ Deduplicate \/ Finish \/ Rebuild \/ DeleteCheckpoint

Next == (\E s \in Sources : Run(s)) \/ Step \/ RequestStop \/ Crash

Spec == Init /\ [][Next]_vars

-----------------------------------------------------------------------------
(* Properties. *)

Bags == [Games -> Nat]

TypeOK ==
  /\ rows \in Bags /\ index \in BOOLEAN
  /\ chk = None \/ chk \in [source : Sources, offset : Nat, committed : Int]
  /\ pc \in {"idle", "repair", "enter", "ingest", "dedup", "finish", "rebuild", "delete"}
  /\ source \in Sources /\ lines \in NumLines /\ tx \in Bags \cup {None} /\ raw \in BOOLEAN
  /\ start \in Nat /\ pos \in Nat /\ done \in Nat /\ offset \in Nat
  /\ stage0 \in {"check", "read", "end"}
  /\ stage2 \in {"insert", "commit", "checkpoint", "stop", "error"}
  /\ eof_reached \in BOOLEAN /\ stopped \in BOOLEAN /\ stop \in BOOLEAN
  /\ fatal_error \in {"none", "eof", "io_failure"}
  /\ committed \in Int /\ pre_committed \in Int /\ pending \in Nat /\ skipped \in Nat

Valid(s, n) == {Items[s][i] : i \in 1..n} \ {Bad}

\* The checkpoint is never ahead of what SQLite has committed: every readable game
\* before its offset has a row, so that a crash, a stop or an error at any point
\* loses none of them when the import is resumed from there.
CheckpointBehindRows ==
  chk # None => \A g \in Valid(chk.source, chk.offset) : rows[g] > 0

\* An import that returns a summary without having been stopped has stored every
\* readable game of its PGN, whatever crashes, stops, failures and imports of
\* other files came before it.
CompletedImportHoldsEveryGame ==
  result # None /\ result.ok /\ ~result.stopped =>
    \A g \in Valid(result.source, Len(Items[result.source])) : rows[g] > 0

\* A call that returned leaves each game once and the identity index in place: any
\* successful call, and a failed one too when no crash came before it and
\* deduplicate() itself works.  (A failed import must not leave raw rows behind.)
IdentityRestored ==
  result # None /\ (result.ok \/ (crashes = 0 /\ "dedup" \notin Faults[lines])) =>
    index /\ \A g \in Games : rows[g] <= 1

\* No step of an import, no rollback, repair or crash takes the last row of a game.
GamesStay == [][\A g \in Games : rows[g] > 0 => rows'[g] > 0]_rows

\* committed + skipped = total_attempted, the sum the diagnostic test checks, as
\* numbers: std::size_t has not wrapped, so that no more games are reported than
\* were attempted.  Also for a stopped, resumed, repaired or deduplicated import, as
\* long as the import does not begin afresh on the raw rows of an interrupted one,
\* whose duplicates deduplicate() would subtract from what this one committed.
SummaryAddsUp ==
  result # None /\ result.ok /\ clean =>
    result.committed + result.skipped = result.attempted

\* What the same test checks, of any import that returns a summary.
SummaryAlwaysAddsUp ==
  result # None /\ result.ok => result.committed + result.skipped = result.attempted

\* What the HTTP interface says of a cancel: the checkpoint is preserved.
CancelKeepsCheckpoint == [][stop /\ chk # None => chk' # None]_vars

\* What a test says: failed runs preserve existing checkpoints.  stage2 has reported
\* an error that run() must return.
FailedRunsKeepCheckpoint ==
  [][stage2 = "error" /\ pc # "idle" /\ chk # None => chk' # None]_vars
=============================================================================
