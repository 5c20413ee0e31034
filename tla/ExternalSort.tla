---------------------------- MODULE ExternalSort ----------------------------
(***************************************************************************)
(* The bounded-memory sort every index builder uses: records are pushed    *)
(* into a buffer, the buffer is sorted and spilled to a run of its own     *)
(* when it reaches a threshold, and finalize() merges the runs with a heap *)
(* of cursors.  Records with the same key are combined, by the builder's   *)
(* own rule, when a run is written and when runs are merged.               *)
(***************************************************************************)
EXTENDS Integers, Sequences, FiniteSets, SequencesExt

CONSTANTS Key(_),           \* what records are sorted by
          Less(_, _),       \* the order of keys
          Combine(_, _)     \* two records of one key

(* A sorter: the records in memory and the runs on disk. *)
NoRecords == [buffer |-> <<>>, runs |-> <<>>]

(* Record i of a buffer comes before record j. *)
Before(buffer, i, j) ==
    \/ Less(Key(buffer[i]), Key(buffer[j]))
    \/ ~Less(Key(buffer[j]), Key(buffer[i])) /\ i < j

(* The records of a buffer by ascending key. *)
Sorted(buffer) ==
    LET place == [i \in DOMAIN buffer |-> Cardinality({j \in DOMAIN buffer : Before(buffer, j, i)}) + 1]
    IN  [k \in DOMAIN buffer |-> buffer[CHOOSE i \in DOMAIN buffer : place[i] = k]]

(* One more record of an ascending stream behind those written. *)
Written(out, item) ==
    IF out # <<>> /\ Key(Last(out)) = Key(item)
    THEN Append(Front(out), Combine(Last(out), item))
    ELSE Append(out, item)

(* Sorted records with adjacent equal keys combined. *)
Combined(sorted) ==
    LET out[n \in 0..Len(sorted)] == IF n = 0 THEN <<>> ELSE Written(out[n - 1], sorted[n])
    IN  out[Len(sorted)]

(* Write the buffer, if it holds anything, to the next run. *)
Spilled(sorter) ==
    IF sorter.buffer = <<>> THEN sorter
    ELSE [buffer |-> <<>>, runs |-> Append(sorter.runs, Combined(Sorted(sorter.buffer)))]

(* Push one record, spilling when the threshold is reached. *)
Pushed(sorter, item, threshold) ==
    LET grown == [sorter EXCEPT !.buffer = Append(@, item)]
    IN  IF Len(grown.buffer) >= threshold THEN Spilled(grown) ELSE grown

PushAll(sorter, items, threshold) ==
    LET after[n \in 0..Len(items)] ==
            IF n = 0 THEN sorter ELSE Pushed(after[n - 1], items[n], threshold)
    IN  after[Len(items)]

(* One step of the k-way merge: pop the least cursor, write its record,    *)
(* advance that cursor.                                                    *)
Popped(runs, st) ==
    LET live == {r \in DOMAIN runs : st.at[r] <= Len(runs[r])}
        HeadKey(r) == Key(runs[r][st.at[r]])
        least == CHOOSE r \in live : \A q \in live : ~Less(HeadKey(q), HeadKey(r))
    IN  [at |-> [st.at EXCEPT ![least] = @ + 1], out |-> Written(st.out, runs[least][st.at[least]])]

(* The merge, until every record of every run has been popped. *)
Merged(runs) ==
    LET places == UNION {{r} \X DOMAIN runs[r] : r \in DOMAIN runs}
        after[n \in 0..Cardinality(places)] ==
            IF n = 0 THEN [at |-> [r \in DOMAIN runs |-> 1], out |-> <<>>] ELSE Popped(runs, after[n - 1])
    IN  after[Cardinality(places)].out
=============================================================================
