-------------------------- MODULE OpeningTreeIndex --------------------------
(***************************************************************************)
(* opening_tree_index.cpp: for every position within max_root_ply, the     *)
(* moves played from it with their statistics.  Three external sorts feed  *)
(* it: games per root, statistics per edge, and games per child position   *)
(* over all plies (counted here, or streamed from the position postings).  *)
(* The starting position alone is covered at every ply: its node is        *)
(* `complete`.                                                             *)
(***************************************************************************)
EXTENDS GameReplay, TLC

VARIABLES
    options,        \* max_root_ply, spill_threshold, memory_limit, external
    pending,        \* ids still to replay
    roots, edges, visits,   \* the three sorters
    treeScratch,    \* scratch files on disk
    tree,           \* {} or the file published under its path
    treeBuilt       \* "replay", "published", "rejected" or "failed"

treeVars == <<pending, roots, edges, visits, treeScratch, tree, treeBuilt>>

-----------------------------------------------------------------------------
(* Records of the three sorts *)

EdgeKey(record) == record.key

(* merge_edge_agg(): sums, the least ply, the least and greatest sample. *)
MergeEdgeAgg(a, b) ==
    [key |-> a.key, sums |-> SumContributions(a.sums, b.sums),
     root_ply |-> Min({a.root_ply, b.root_ply}),
     sample_min |-> Min({a.sample_min, b.sample_min}),
     sample_max |-> Max({a.sample_max, b.sample_max})]

HashOf(pair) == pair[1]
HashLess(a, b) == a < b
AddCounts(a, b) == <<a[1], a[2] + b[2]>>

CountSort == INSTANCE ExternalSort WITH Key <- HashOf, Less <- HashLess, Combine <- AddCounts
EdgeSort == INSTANCE ExternalSort WITH Key <- EdgeKey, Less <- LexLess, Combine <- MergeEdgeAgg

(* accumulate_game(): positions visited, each once. *)
GameVisits(game) ==
    LET v == Ascending(Visited(game.moves))
    IN  [i \in 1..Len(v) |-> <<v[i], 1>>]

(* Roots: the start, and every position within the cap. *)
GameRoots(game, max_root_ply) ==
    LET at == Boards(game.moves)
        r == Ascending({Start} \cup {at[ply] : ply \in {p \in 1..Len(game.moves) : p <= max_root_ply}})
    IN  [i \in 1..Len(r) |-> <<r[i], 1>>]

(* Seeded fault: the cap also applies to the starting position. *)
EdgePliesCapped(game, max_root_ply) == {ply \in 0..(Len(game.moves) - 1) : ply <= max_root_ply}

(* Plies whose move becomes an edge: within the cap, or from the start. *)
EdgePlies(game, max_root_ply) ==
    {ply \in 0..(Len(game.moves) - 1) :
        ply <= max_root_ply \/ Boards(game.moves)[ply] = Start}

(* One record per distinct edge of the game, at its least ply. *)
GameEdges(id, game, max_root_ply) ==
    LET at == Boards(game.moves)
        Key(ply) == <<at[ply], game.moves[ply + 1], at[ply + 1]>>
        plies == EdgePlies(game, max_root_ply)
        keys == SetToSortSeq({Key(ply) : ply \in plies}, LexLess)
    IN  [i \in 1..Len(keys) |->
            [key |-> keys[i], sums |-> Contribution(ResultCode(game.result), game.white, game.black),
             root_ply |-> Min({ply \in plies : Key(ply) = keys[i]}),
             sample_min |-> id, sample_max |-> id]]

(* add_root()/spill_roots(), add_edge()/spill_edges(), visit(). *)
AddRoots(sorter, items) == CountSort!PushAll(sorter, items, options.spill_threshold)
AddEdges(sorter, items) == EdgeSort!PushAll(sorter, items, options.spill_threshold)
AddVisits(sorter, items) == CountSort!PushAll(sorter, items, options.spill_threshold)

(* merge_roots(), merge_edges(), hash_visit_counter::finalize(). *)
MergeRoots(sorter) == CountSort!Merged(CountSort!Spilled(sorter).runs)
MergeEdges(sorter) == EdgeSort!Merged(EdgeSort!Spilled(sorter).runs)
MergeVisits(sorter) == CountSort!Merged(CountSort!Spilled(sorter).runs)

-----------------------------------------------------------------------------
(* The index file *)

(* child_frequency(): binary search of the sorted counts on disk; {} when  *)
(* the hash is missing.                                                    *)
SearchFrequency(counts, hash) ==
    LET n == Len(counts)
        lower[lo \in 0..n, hi \in 0..n] ==
            IF lo >= hi THEN lo
            ELSE LET mid == lo + ((hi - lo) \div 2)
                 IN  IF counts[mid + 1][1] < hash THEN lower[mid + 1, hi] ELSE lower[lo, mid]
        at == lower[0, n]
    IN  IF at = n \/ counts[at + 1][1] # hash THEN {} ELSE {counts[at + 1][2]}

(* load_referenced_child_frequencies(): one forward pass over the counts,  *)
(* for the children the edges name.                                        *)
LoadReferenced(edgeRecords, counts) ==
    LET wanted == Ascending({edgeRecords[i].key[3] : i \in DOMAIN edgeRecords})
        Pass(st, pair) ==
            LET past == {i \in st.next..Len(wanted) : wanted[i] >= pair[1]}
                at == IF past = {} THEN Len(wanted) + 1 ELSE Min(past)
            IN  IF at <= Len(wanted) /\ wanted[at] = pair[1]
                THEN [next |-> at + 1, found |-> st.found \cup {pair}]
                ELSE [st EXCEPT !.next = at]
    IN  FoldLeft(Pass, [next |-> 1, found |-> {}], counts).found

(* One root of write_index_file() and its edges, which follow st.next; a    *)
(* child's frequency is never below that of an edge into it.  `frequency`   *)
(* gives the children's frequencies.                                        *)
JoinNode(st, root, edgeRecords, frequency) ==
    LET Row(e) == [move |-> e.key[2], child |-> e.key[3], root_ply |-> e.root_ply,
                   sums |-> e.sums, transpositions |-> CHOOSE f \in frequency[e.key[3]] : TRUE,
                   sample_min |-> e.sample_min, sample_max |-> e.sample_max]
        Node(mine) == [hash |-> root[1], games |-> root[2], complete |-> root[1] = Start,
                       rows |-> [i \in 1..Len(mine) |-> Row(mine[i])]]
        Join(mine, ok) == [ok |-> st.ok /\ ok, next |-> st.next + Len(mine),
                           nodes |-> IF ok THEN Append(st.nodes, Node(mine)) ELSE st.nodes]
        Checked(mine) == Join(mine, \A i \in DOMAIN mine :
                                \E f \in frequency[mine[i].key[3]] : f >= mine[i].sums.frequency)
        Until(stop) == SubSeq(edgeRecords, st.next, IF stop = {} THEN Len(edgeRecords) ELSE Min(stop) - 1)
    IN  Checked(Until({i \in st.next..Len(edgeRecords) : edgeRecords[i].key[1] # root[1]}))

(* The frequency of every child: held in memory when the edges fit,         *)
(* searched on disk otherwise.                                              *)
ChildFrequencies(edgeRecords, counts) ==
    LET children == {edgeRecords[i].key[3] : i \in DOMAIN edgeRecords}
        in_memory == Len(edgeRecords) <= options.memory_limit /\ edgeRecords # <<>>
        Loaded(referenced) == [c \in children |-> {p[2] : p \in {q \in referenced : q[1] = c}}]
    IN  IF in_memory THEN Loaded(LoadReferenced(edgeRecords, counts))
        ELSE [c \in children |-> SearchFrequency(counts, c)]

(* write_index_file(): the join of roots and edges, both in hash order. *)
WriteIndexFile(rootCounts, edgeRecords, counts, games) ==
    LET JoinAll(frequency) ==
            LET Join(st, root) == JoinNode(st, root, edgeRecords, frequency)
            IN  FoldLeft(Join, [ok |-> TRUE, next |-> 1, nodes |-> <<>>], rootCounts)
        Layout(joined) == [ok |-> joined.ok,
                           file |-> [max_root_ply |-> options.max_root_ply, source_games |-> games,
                                     nodes |-> joined.nodes]]
    IN  Layout(JoinAll(ChildFrequencies(edgeRecords, counts)))

(* read_continuation()'s checks of one row. *)
RowValid(row, node, cap) ==
    /\ node.complete \/ row.root_ply <= cap
    /\ row.sums.frequency \in 1..node.games
    /\ row.sums.white_wins + row.sums.draws + row.sums.black_wins = row.sums.frequency
    /\ row.sums.white_elo_count <= row.sums.frequency
    /\ row.sums.black_elo_count <= row.sums.frequency
    /\ row.sample_min > 0 /\ row.sample_min <= row.sample_max
    /\ row.transpositions >= row.sums.frequency

(* opening_tree_index::open(). *)
TreeAccepts(file) ==
    LET n == Len(file.nodes)
    IN  /\ \A i \in 1..(n - 1) : file.nodes[i].hash < file.nodes[i + 1].hash
        /\ \A i \in 1..n :
              LET node == file.nodes[i]
              IN  /\ node.games > 0
                  /\ node.complete => node.hash = Start /\ node.games = file.source_games
                  /\ \A k \in DOMAIN node.rows : RowValid(node.rows[k], node, file.max_root_ply)

NodesAt(file, hash) == {node \in ToSet(file.nodes) : node.hash = hash}

(* query_opening_stats(), game_count(), is_complete(). *)
TreeRows(file, hash) == UNION {ToSet(node.rows) : node \in NodesAt(file, hash)}
TreeGameCount(file, hash) == IF NodesAt(file, hash) = {} THEN 0
                             ELSE (CHOOSE node \in NodesAt(file, hash) : TRUE).games
IsComplete(file, hash) == \E node \in NodesAt(file, hash) : node.complete

-----------------------------------------------------------------------------
(* The builder *)

RunFiles(kind, sorter) == {<<kind, i>> : i \in DOMAIN sorter.runs}
Owned(r, e, v) == RunFiles("roots", r) \cup RunFiles("edges", e) \cup RunFiles("childfreq", v)
NextRuns == {<<"roots", Len(roots.runs) + 1>>, <<"edges", Len(edges.runs) + 1>>,
             <<"childfreq", Len(visits.runs) + 1>>}
MergedRoots == <<"roots", 0>>
MergedEdges == <<"edges", 0>>
ChildCounts == <<"childcounts", 0>>
ChildCountsTmp == <<"childcounts.tmp", 0>>
IndexTmp == <<"index.tmp", 0>>

TreeInit ==
    /\ pending = Ascending(DOMAIN library)
    /\ roots = CountSort!NoRecords /\ edges = EdgeSort!NoRecords /\ visits = CountSort!NoRecords
    /\ treeScratch = {}
    /\ tree = {}
    /\ treeBuilt = "replay"

(* accumulate(): visits are counted here only without an external stream. *)
AccumulateGame ==
    /\ treeBuilt = "replay" /\ pending # <<>>
    /\ LET id == Head(pending)  game == library[id]
       IN  /\ visits' = IF options.external THEN visits ELSE AddVisits(visits, GameVisits(game))
           /\ roots' = AddRoots(roots, GameRoots(game, options.max_root_ply))
           /\ edges' = AddEdges(edges, GameEdges(id, game, options.max_root_ply))
    /\ treeScratch' = treeScratch \cup Owned(roots', edges', visits')
    /\ pending' = Tail(pending)
    /\ UNCHANGED <<tree, treeBuilt>>

(* A spill of accumulate() fails: build() returns the error and the        *)
(* destructors remove the runs, the one being written included.            *)
AccumulateFails ==
    /\ treeBuilt = "replay" /\ pending # <<>>
    /\ LET game == library[Head(pending)]
           written == {run \in NextRuns :
               \/ run[1] = "roots" /\ Len(AddRoots(roots, GameRoots(game, options.max_root_ply)).runs) >= run[2]
               \/ run[1] = "edges" /\ Len(AddEdges(edges, GameEdges(Head(pending), game, options.max_root_ply)).runs) >= run[2]
               \/ run[1] = "childfreq" /\ ~options.external /\ Len(AddVisits(visits, GameVisits(game)).runs) >= run[2]}
       IN  /\ written # {}
           /\ treeScratch' = (treeScratch \cup written) \ (Owned(roots, edges, visits) \cup NextRuns)
    /\ treeBuilt' = "failed"
    /\ UNCHANGED <<pending, roots, edges, visits, tree>>

(* materialize_child_counts() of an external stream: it must be ascending. *)
StreamOk(stream) == /\ \A i \in DOMAIN stream : stream[i][2] > 0
                    /\ \A i \in 1..(Len(stream) - 1) : stream[i][1] < stream[i + 1][1]

(* finalize(): merge, attach child counts, write, open, publish. *)
FinalizeTree(stream) ==
    /\ treeBuilt = "replay" /\ pending = <<>>
    /\ LET counts == IF options.external THEN stream ELSE MergeVisits(visits)
           Publish(written) ==
               IF (options.external => StreamOk(stream)) /\ written.ok /\ TreeAccepts(written.file)
               THEN tree' = {written.file} /\ treeBuilt' = "published"
               ELSE tree' = tree /\ treeBuilt' = "rejected"
       IN  Publish(WriteIndexFile(MergeRoots(roots), MergeEdges(edges), counts,
                                  Cardinality(DOMAIN library)))
    /\ treeScratch' = treeScratch \ Owned(roots, edges, visits)
    /\ UNCHANGED <<pending, roots, edges, visits>>

(* finalize() fails while it writes `stage`: cleanup() removes the merged  *)
(* files, remove_temp() the index, the destructors the runs.  The counts'  *)
(* own temporary file may stay: finalize() of the visit counter removes it *)
(* only when the rename fails, materialize_child_counts() always but when  *)
(* its first write fails.                                                  *)
TreeFails(stage) ==
    /\ treeBuilt = "replay" /\ pending = <<>>
    /\ LET written == CASE stage = "roots" -> {MergedRoots}
                        [] stage = "edges" -> {MergedRoots, MergedEdges}
                        [] stage = "counts" -> {MergedRoots, MergedEdges, ChildCountsTmp}
                        [] stage = "index" -> {MergedRoots, MergedEdges, ChildCounts, IndexTmp}
           removed == {MergedRoots, MergedEdges, ChildCounts, IndexTmp}
       IN  \E others \in SUBSET {ChildCountsTmp} :
              treeScratch' = (treeScratch \cup written \cup NextRuns)
                             \ (Owned(roots, edges, visits) \cup NextRuns \cup removed \cup others)
    /\ treeBuilt' = "failed"
    /\ UNCHANGED <<pending, roots, edges, visits, tree>>

TreeNext(stream) ==
    \/ AccumulateGame \/ AccumulateFails \/ FinalizeTree(stream)
    \/ \E stage \in {"roots", "edges", "counts", "index"} : TreeFails(stage)
=============================================================================
