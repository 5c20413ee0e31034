---------------------------- MODULE PostingsBuild ---------------------------
(***************************************************************************)
(* position_postings::build(): every canonical game is replayed into       *)
(* occurrence records, which are sorted externally and written as the file *)
(* of PostingsFile.  Any write may fail; the build then returns an error   *)
(* and its builder is destroyed.                                           *)
(***************************************************************************)
EXTENDS PostingsFile, TLC

VARIABLES
    threshold,      \* spill_threshold_ of this build
    queue,          \* ids for_each_replay_game() has still to visit
    records,        \* records_ and the spill runs
    metadata,       \* game_metadata_
    scratch,        \* scratch files of the build on disk
    artifact,       \* {} or the file renamed to its final path
    built           \* "replay", "merged", "published", "rejected" or "failed"

postingsVars == <<queue, records, metadata, scratch, artifact, built>>

SpillFile(i) == <<"spill", i>>
Dirspool == <<"dirspool", 0>>
TmpFile == <<"tmp", 0>>
SpillFiles(sorter) == {SpillFile(i) : i \in DOMAIN sorter.runs}

(* The rows build() makes of one game, plies 0 to its length. *)
GameRows(id, game) ==
    [i \in 1..(Len(game.moves) + 1) |-> <<Boards(game.moves)[i - 1], id, i - 1>>]

(* spill_current_buffer(): raw records, equal ones are kept. *)
SpillRest(sorter) ==
    IF sorter.buffer = <<>> THEN sorter
    ELSE [buffer |-> <<>>, runs |-> Append(sorter.runs, RecordSort!Sorted(sorter.buffer))]

(* Buffer and runs after one row, and after append() of some. *)
PushRow(sorter, row, limit) ==
    LET grown == [sorter EXCEPT !.buffer = Append(@, row)]
    IN  IF Len(grown.buffer) < limit THEN grown ELSE SpillRest(grown)

AppendRows(sorter, rows) ==
    LET after[n \in 0..Len(rows)] ==
            IF n = 0 THEN sorter ELSE PushRow(after[n - 1], rows[n], threshold)
    IN  after[Len(rows)]

PostingsInit ==
    /\ queue = Ascending(DOMAIN library)
    /\ records = RecordSort!NoRecords
    /\ metadata = <<>>
    /\ scratch = {}
    /\ artifact = {}
    /\ built = "replay"

(* append() of the next game's rows, every spill it makes included. *)
AppendGame ==
    /\ built = "replay" /\ queue # <<>>
    /\ LET id == Head(queue)  game == library[id]
       IN  /\ records' = AppendRows(records, GameRows(id, game))
           /\ metadata' = [g \in DOMAIN metadata \cup {id} |->
                              IF g # id THEN metadata[g]
                              ELSE [result |-> ResultCode(game.result), white |-> game.white,
                                    black |-> game.black]]
           /\ scratch' = scratch \cup SpillFiles(records')
           /\ queue' = Tail(queue)
    /\ UNCHANGED <<artifact, built>>

(* What is left on disk when the build returns early: a spill that could   *)
(* not be written is removed at once, the completed ones by the destructor *)
(* or the guard of merge_runs(), which owns the two output files too.      *)
AfterFailure(files, sorter, partial) ==
    files \ (SpillFiles(sorter) \cup partial)

(* A spill write fails inside append(). *)
AppendFails ==
    /\ built = "replay" /\ queue # <<>>
    /\ LET after == AppendRows(records, GameRows(Head(queue), library[Head(queue)]))
           partial == {SpillFile(Len(records.runs) + 1)}
       IN  /\ Len(after.runs) > Len(records.runs)
           /\ scratch' = AfterFailure(scratch \cup partial, records, partial)
    /\ built' = "failed"
    /\ UNCHANGED <<queue, records, metadata, artifact>>

(* finalize() up to the staged file: the last spill, the merge, the         *)
(* consumed spills removed, .tmp assembled from postings and .dirspool.     *)
MergeRuns ==
    /\ built = "replay" /\ queue = <<>>
    /\ records' = SpillRest(records)
    /\ scratch' = (scratch \ SpillFiles(records')) \cup {Dirspool, TmpFile}
    /\ built' = "merged"
    /\ UNCHANGED <<queue, metadata, artifact>>

(* Any write, read or removal of finalize() fails: the guard of            *)
(* merge_runs() removes what the build owns.                               *)
FinalizeFails ==
    /\ built = "merged" \/ (built = "replay" /\ queue = <<>>)
    /\ scratch' = AfterFailure(scratch \cup {Dirspool, TmpFile}, records, {Dirspool, TmpFile})
    /\ built' = "failed"
    /\ UNCHANGED <<queue, records, metadata, artifact>>

(* The staged file is reopened, validated and renamed to its path. *)
StagedFile == AssembleFile(RecordSort!Merged(records.runs), metadata)

PublishPostings ==
    /\ built = "merged"
    /\ LET Publish(staged) == IF OpenAccepts(staged)
                               THEN artifact' = {staged} /\ built' = "published"
                               ELSE artifact' = artifact /\ built' = "rejected"
       IN  Publish(StagedFile)
    /\ scratch' = scratch \ {Dirspool, TmpFile}
    /\ UNCHANGED <<queue, records, metadata>>

PostingsNext == AppendGame \/ AppendFails \/ MergeRuns \/ FinalizeFails \/ PublishPostings

-----------------------------------------------------------------------------
(* What the queries should say, read off the canonical games *)

TrueOccurrences(hash) ==
    LET Plies(id) == {ply \in DOMAIN Boards(library[id].moves) :
                         Boards(library[id].moves)[ply] = hash}
    IN  SetToSortSeq(UNION {{<<id, ply>> : ply \in Plies(id)} : id \in DOMAIN library}, LexLess)

TrueIds(hash) == {id \in DOMAIN library : hash \in Visited(library[id].moves)}

TrueSummary(hash) ==
    LET occ == TrueOccurrences(hash)
        plies == {occ[i][2] : i \in DOMAIN occ}
    IN  IF occ = <<>> THEN {}
        ELSE {[occurrences |-> Len(occ), games |-> Cardinality(TrueIds(hash)),
               min_ply |-> Min(plies), max_ply |-> Max(plies)]}
=============================================================================
