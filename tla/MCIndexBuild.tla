---------------------------- MODULE MCIndexBuild ----------------------------
(* A small game tree with transpositions at equal and at different plies,  *)
(* a line that returns to the starting position, and hashes far enough     *)
(* apart that a delta needs its high part.                                 *)
EXTENDS IndexBuild

MCApply(hash, move) ==
    CASE hash = 10 /\ move = 1 -> 3
      [] hash = 10 /\ move = 2 -> 40
      [] hash = 3 /\ move = 3 -> 12
      [] hash = 3 /\ move = 7 -> 41
      [] hash = 3 /\ move = 9 -> 10
      [] hash = 40 /\ move = 4 -> 200
      [] hash = 40 /\ move = 3 -> 41
      [] hash = 200 /\ move = 5 -> 3
      [] hash = 12 /\ move = 6 -> 70
      [] hash = 41 /\ move = 8 -> 70

Lines == {<<>>, <<1, 3, 6>>, <<2, 4, 5, 3, 6>>, <<1, 9, 2, 4>>, <<2, 3, 8>>, <<1, 7, 8>>}

Row(id, moves) ==
    CASE id = 2 -> [moves |-> moves, result |-> "1-0", white |-> 1500, black |-> 1600,
                    white_name |-> "a", black_name |-> "b", eco |-> "A00", rank |-> [white |-> 1, eco |-> 1]]
      [] id = 3 -> [moves |-> moves, result |-> "*", white |-> NoElo, black |-> 1700,
                    white_name |-> "b", black_name |-> "a", eco |-> "B00", rank |-> [white |-> 2, eco |-> 2]]
      [] id = 7 -> [moves |-> moves, result |-> "0-1", white |-> 1700, black |-> 1900,
                    white_name |-> "a", black_name |-> "c", eco |-> "A00", rank |-> [white |-> 1, eco |-> 1]]

LibraryOf(line) == [id \in DOMAIN line |-> Row(id, line[id])]

(* Libraries of up to three games, later ids holding the longer lines. *)
MCLibraries ==
    {LibraryOf(line) : line \in UNION {[ids -> Lines] : ids \in {{}, {7}, {2, 3}}}}
    \cup {LibraryOf(line) : line \in {f \in [{2, 3, 7} -> Lines] : Cardinality({f[i] : i \in {2, 3, 7}}) >= 2
                                                                   /\ Len(f[2]) >= Len(f[7])}}

MCSettings ==
    {[max_root_ply |-> 1, spill_threshold |-> 2, memory_limit |-> 0, external |-> FALSE],
     [max_root_ply |-> 3, spill_threshold |-> 3, memory_limit |-> 50, external |-> TRUE],
     [max_root_ply |-> 1, spill_threshold |-> 50, memory_limit |-> 0, external |-> TRUE]}

MCHashes == {0, 3, 10, 12, 40, 41, 70, 200, 201}

Filter == [player |-> Unset, color |-> "either", result |-> Unset, eco |-> Unset,
           min_elo |-> NoElo, max_elo |-> NoElo, offset |-> 0, limit |-> 5,
           sort |-> "id", ascending |-> TRUE]

MCFilters ==
    {Filter, [Filter EXCEPT !.limit = 0], [Filter EXCEPT !.limit = 1, !.offset = 1],
     [Filter EXCEPT !.limit = 9, !.offset = 3],
     [Filter EXCEPT !.sort = "white", !.ascending = FALSE, !.limit = 2],
     [Filter EXCEPT !.result = "1-0"], [Filter EXCEPT !.min_elo = 1600],
     [Filter EXCEPT !.player = "a", !.color = "black"]}

MCDepths == {1, 3}
=============================================================================
