--------------------------- MODULE PrefixPostings ---------------------------
(***************************************************************************)
(* position_prefix_postings.cpp: which games may hold a position, by the   *)
(* leading bits of its hash.  Rows are reduced to (prefix, game) pairs,    *)
(* made unique when a run is written and when runs are merged, and stored  *)
(* as one offset per bucket over one list of games.  Without a spill the   *)
(* file is written from memory, with one it is merged from the runs.       *)
(***************************************************************************)
EXTENDS GameReplay, TLC

CONSTANTS BucketWidth,      \* 2^(64 - prefix_bits)
          BucketCount       \* 2^prefix_bits

ASSUME PrefixAssumption ==
    BucketWidth \in Nat \ {0} /\ BucketCount \in Nat \ {0}

VARIABLES
    prefixThreshold,    \* spill_threshold_
    prefixQueue,        \* ids whose rows are still to be appended
    prefixRecords,      \* records_ and the spill runs
    prefixScratch,      \* scratch files on disk
    prefixFile,         \* {} or the file at path_
    prefixBuilt         \* "append", "written", "open", "rejected" or "failed"

prefixVars == <<prefixQueue, prefixRecords, prefixScratch, prefixFile, prefixBuilt>>

(* prefix(). *)
Prefix(hash) == hash \div BucketWidth

PrefixRows(id, game) ==
    [i \in 1..(Len(game.moves) + 1) |-> <<Prefix(Boards(game.moves)[i - 1]), id>>]

(* append(): a full buffer is sorted, made unique and spilled. *)
AppendPrefixes(sorter, rows) ==
    RecordSort!PushAll(sorter, rows, prefixThreshold)

(* The offsets of a sorted list of pairs, and its games. *)
PrefixFileOf(pairs) ==
    LET Below(bucket) == Cardinality({i \in DOMAIN pairs : pairs[i][1] < bucket})
    IN  [offsets |-> [bucket \in 0..BucketCount |-> Below(bucket)],
         games |-> [i \in DOMAIN pairs |-> pairs[i][2]]]

(* Seeded fault: duplicates are written. *)
FinalizeInMemoryRaw(sorter) == PrefixFileOf(RecordSort!Sorted(sorter.buffer))

(* finalize_in_memory(): sort and unique what was never spilled. *)
FinalizeInMemory(sorter) ==
    PrefixFileOf(RecordSort!Combined(RecordSort!Sorted(sorter.buffer)))

(* finalize_external_merge(): spill the rest, merge, count per bucket. *)
FinalizeExternalMerge(sorter) ==
    PrefixFileOf(RecordSort!Merged(RecordSort!Spilled(sorter).runs))

(* open()'s checks. *)
PrefixAccepts(file) ==
    /\ file.offsets[0] = 0
    /\ file.offsets[BucketCount] = Len(file.games)
    /\ \A bucket \in 1..BucketCount : file.offsets[bucket - 1] <= file.offsets[bucket]

(* candidates(). *)
Candidates(file, hash) ==
    SubSeq(file.games, file.offsets[Prefix(hash)] + 1, file.offsets[Prefix(hash) + 1])

-----------------------------------------------------------------------------
PrefixRuns(sorter) == {<<"spill", i>> : i \in DOMAIN sorter.runs}
MergeScratch == <<"postings.tmp", 0>>

PrefixInit ==
    /\ prefixQueue = Ascending(DOMAIN library)
    /\ prefixRecords = RecordSort!NoRecords
    /\ prefixScratch = {}
    /\ prefixFile = {}
    /\ prefixBuilt = "append"

AppendPrefixRows ==
    /\ prefixBuilt = "append" /\ prefixQueue # <<>>
    /\ prefixRecords' = AppendPrefixes(prefixRecords, PrefixRows(Head(prefixQueue), library[Head(prefixQueue)]))
    /\ prefixScratch' = prefixScratch \cup PrefixRuns(prefixRecords')
    /\ prefixQueue' = Tail(prefixQueue)
    /\ UNCHANGED <<prefixFile, prefixBuilt>>

(* A spill cannot be written: append() returns, the runs written so far    *)
(* and the partial one stay on disk.                                       *)
AppendPrefixFails ==
    /\ prefixBuilt = "append" /\ prefixQueue # <<>>
    /\ LET after == AppendPrefixes(prefixRecords, PrefixRows(Head(prefixQueue), library[Head(prefixQueue)]))
       IN  Len(after.runs) > Len(prefixRecords.runs)
    /\ prefixScratch' = prefixScratch \cup {<<"spill", Len(prefixRecords.runs) + 1>>}
    /\ prefixBuilt' = "failed"
    /\ UNCHANGED <<prefixQueue, prefixRecords, prefixFile>>

(* finalize(): the merged file replaces what was there, then the runs and  *)
(* the scratch file are removed.                                           *)
FinalizePrefix ==
    /\ prefixBuilt = "append" /\ prefixQueue = <<>>
    /\ prefixFile' = {IF prefixRecords.runs = <<>> THEN FinalizeInMemory(prefixRecords)
                      ELSE FinalizeExternalMerge(prefixRecords)}
    /\ prefixRecords' = RecordSort!NoRecords
    /\ prefixScratch' = {}
    /\ prefixBuilt' = "written"
    /\ UNCHANGED prefixQueue

(* A write fails while the runs are merged: nothing is cleaned up, the     *)
(* runs and the half-written scratch file stay.                            *)
PrefixFails ==
    /\ prefixBuilt = "append" /\ prefixQueue = <<>> /\ prefixRecords.runs # <<>>
    /\ prefixRecords' = RecordSort!Spilled(prefixRecords)
    /\ prefixScratch' = PrefixRuns(prefixRecords') \cup {MergeScratch}
    /\ prefixBuilt' = "failed"
    /\ UNCHANGED <<prefixQueue, prefixFile>>

(* open() of the written file. *)
OpenPrefix ==
    /\ prefixBuilt = "written"
    /\ prefixBuilt' = IF \A file \in prefixFile : PrefixAccepts(file) THEN "open" ELSE "rejected"
    /\ UNCHANGED <<prefixQueue, prefixRecords, prefixScratch, prefixFile>>

PrefixNext == AppendPrefixRows \/ AppendPrefixFails \/ FinalizePrefix \/ PrefixFails \/ OpenPrefix
=============================================================================
