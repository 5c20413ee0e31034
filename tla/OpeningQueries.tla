--------------------------- MODULE OpeningQueries ---------------------------
(***************************************************************************)
(* What database_manager and motif::search answer from the canonical       *)
(* games, the position postings and the opening tree index: games of a     *)
(* position, statistics of its continuations, the rating distribution and  *)
(* the prefetched opening tree.  Every query first checks that the         *)
(* postings count the games of the store.                                  *)
(***************************************************************************)
EXTENDS PostingsBuild, OpeningTreeIndex, GameList

Failure == <<"io_failure">>

(* The postings, or the tree, when they count the games of the store. *)
CurrentPostings == {file \in artifact : file.header.games = Cardinality(DOMAIN library)}
CurrentTree == {file \in tree : file.source_games = Cardinality(DOMAIN library)}

WithPostings(Answer(_)) ==
    IF CurrentPostings = {} THEN Failure ELSE Answer(CHOOSE file \in CurrentPostings : TRUE)

(* query_position_matches(), query_position_first_matches(),               *)
(* position_game_ids(): the postings' own answers.                         *)
QueryPositionMatches(hash, limit, offset) ==
    LET Answer(file) == Occurrences(file, hash, limit, offset) IN WithPostings(Answer)
QueryPositionFirstMatches(hash, ids) ==
    LET Answer(file) == FirstOccurrences(file, hash, ids) IN WithPostings(Answer)
PositionGameIds(hash) ==
    LET Answer(file) == DistinctGameIds(file, hash, 0, 0) IN WithPostings(Answer)

(* position_summary(): nothing, rather than an error, without postings. *)
PositionSummary(hash) == UNION {Summary(file, hash) : file \in CurrentPostings}

-----------------------------------------------------------------------------
(* Continuation statistics *)

MatchRow(file, id) == CHOOSE row \in MetadataOf(file, id) : TRUE

(* The positions of `hash` in allowed games that a move follows. *)
Followed(file, hash, allowed) ==
    {o \in ToSet(Occurrences(file, hash, 0, 0)) :
        o[1] \in allowed \cap DOMAIN library /\ o[2] < Len(library[o[1]].moves)}

NextMove(o) == library[o[1]].moves[o[2] + 1]
NextBoard(o) == Boards(library[o[1]].moves)[o[2] + 1]

(* postings_filtered_opening_stats(): each game contributes once per edge, *)
(* at its least ply; a child's popularity counts the games reaching it,    *)
(* all of them or the allowed ones.                                        *)
FilteredStats(file, hash, allowed, global) ==
    LET followed == Followed(file, hash, allowed)
        direct == {<<o[1], NextMove(o), NextBoard(o)>> : o \in followed}
        edgesSeen == {<<d[2], d[3]>> : d \in direct}
        Games(e) == {d[1] : d \in {x \in direct : x[2] = e[1] /\ x[3] = e[2]}}
        Plies(e) == {o[2] : o \in {x \in followed : NextMove(x) = e[1] /\ NextBoard(x) = e[2]}}
        OfGame(id) == LET row == MatchRow(file, id) IN Contribution(row.result, row.white, row.black)
        AddGame(id, sums) == SumContributions(OfGame(id), sums)
        Popularity(child) ==
            IF global THEN SumSet({s.games : s \in Summary(file, child)})
            ELSE Cardinality({id \in allowed \cap DOMAIN library : child \in Visited(library[id].moves)})
    IN  {[move |-> e[1], child |-> e[2], root_ply |-> Min(Plies(e)),
          sums |-> FoldSet(AddGame, NoContribution, Games(e)),
          transpositions |-> Popularity(e[2]),
          sample_min |-> Min(Games(e)), sample_max |-> Max(Games(e))] : e \in edgesSeen}

(* query_unfiltered_opening_stats(): the tree where it is whole (a complete *)
(* node, or a position never reached beyond its cap), else the postings.    *)
QueryUnfilteredOpeningStats(hash) ==
    LET FromPostings(file) == FilteredStats(file, hash, ToSet(DistinctGameIds(file, hash, 0, 0)), TRUE)
        Answer(file) ==
            IF CurrentTree = {} THEN FromPostings(file)
            ELSE LET index == CHOOSE t \in CurrentTree : TRUE
                     summary == Summary(file, hash)
                 IN  IF IsComplete(index, hash) THEN TreeRows(index, hash)
                     ELSE IF summary = {} THEN {}
                     ELSE IF \E s \in summary : s.max_ply > index.max_root_ply
                          THEN FromPostings(file) ELSE TreeRows(index, hash)
    IN  WithPostings(Answer)

QueryFilteredOpeningStats(hash, ids) ==
    LET Answer(file) == FilteredStats(file, hash, ids, FALSE) IN WithPostings(Answer)

(* Rows in the order (move, child) the database returns them. *)
RowBefore(a, b) == LexLess(<<a.move, a.child>>, <<b.move, b.child>>)

(* find_root_board(): some sample game is at `hash` after root_ply moves,  *)
(* the least ply of the first row.                                         *)
RootBoardFound(rows, hash) ==
    LET ply == rows[1].root_ply
    IN  \E i \in DOMAIN rows : \E id \in {rows[i].sample_min, rows[i].sample_max} \cap DOMAIN library :
            ply <= Len(library[id].moves) /\ Boards(library[id].moves)[ply] = hash

(* build_stats(): the moves' notation needs a board of the position; when  *)
(* no sample game provides it the answer is empty.                         *)
NoStats == [total_games |-> 0, continuations |-> {}]
BuildStats(hash, rowSet, total_games) ==
    LET rows == SetToSortSeq(rowSet, RowBefore)
        Known(row) == {row.sample_min, row.sample_max} \cap DOMAIN library # {}
        Continuation(row) == [move |-> row.move, child |-> row.child, sums |-> row.sums,
                              frequency |-> row.transpositions]
    IN  IF rows = <<>> THEN [NoStats EXCEPT !.total_games = total_games]
        ELSE IF rows[1].root_ply > 0 /\ ~RootBoardFound(rows, hash) THEN NoStats
        ELSE [total_games |-> total_games,
              continuations |-> {Continuation(row) : row \in {r \in rowSet : Known(r)}}]

(* opening_stats::query(), without and with a metadata filter. *)
OpeningStatsQuery(hash) ==
    LET summary == PositionSummary(hash)
        ids == PositionGameIds(hash)
    IN  IF CurrentPostings = {} THEN Failure
        ELSE IF summary = {} /\ ids = <<>> THEN NoStats
        ELSE BuildStats(hash, QueryUnfilteredOpeningStats(hash),
                        IF summary = {} THEN Len(ids) ELSE (CHOOSE s \in summary : TRUE).games)

OpeningStatsFiltered(hash, filter) ==
    LET ids == FindGameIdsWithFilter(ToSet(PositionGameIds(hash)), filter)
    IN  IF ~HasMetadataFilter(filter) THEN OpeningStatsQuery(hash)
        ELSE IF CurrentPostings = {} THEN Failure
        ELSE IF ids = {} THEN NoStats
        ELSE BuildStats(hash, QueryFilteredOpeningStats(hash, ids), Cardinality(ids))

-----------------------------------------------------------------------------
(* Rating distribution *)

(* Every bucket from a move's least to its greatest. *)
FilledBuckets(floors, width) ==
    {f \in Min(floors)..Max(floors) : (f - Min(floors)) % width = 0}

(* postings_elo_distribution(): games with both ratings, once per move, in *)
(* buckets; the buckets between a move's least and greatest are filled     *)
(* with zeros.  An empty list of allowed games means every game.           *)
EloDistribution(file, hash, allowed, width) ==
    LET ids == IF allowed = {} THEN DOMAIN library ELSE allowed
        rated == {o \in Followed(file, hash, ids) :
                     MatchRow(file, o[1]).white # NoElo /\ MatchRow(file, o[1]).black # NoElo}
        Floor(id) == LET row == MatchRow(file, id)
                     IN  ((((row.white + row.black) \div 2) \div width) * width)
        seen == {<<o[1], NextMove(o)>> : o \in rated}
        Floors(m) == {Floor(s[1]) : s \in {x \in seen : x[2] = m}}
        In(m, f, code) == Cardinality({s \in seen : /\ s[2] = m /\ Floor(s[1]) = f
                                                    /\ MatchRow(file, s[1]).result = code})
    IN  UNION {{[move |-> m, floor |-> f, white_wins |-> In(m, f, 1), draws |-> In(m, f, 0),
                 black_wins |-> In(m, f, -1),
                 games |-> In(m, f, 1) + In(m, f, 0) + In(m, f, -1)] : f \in FilledBuckets(Floors(m), width)}
               : m \in {s[2] : s \in seen}}

(* Seeded fault: a filter that matches nothing is not treated apart. *)
QueryEloDistributionUnguarded(hash, filter, width) ==
    LET Answer(file) == EloDistribution(file, hash,
            IF HasMetadataFilter(filter) THEN FindGameIdsWithFilter(ToSet(PositionGameIds(hash)), filter)
            ELSE {}, width)
    IN  WithPostings(Answer)

(* query_elo_distribution(). *)
QueryEloDistribution(hash, filter, width) ==
    LET Answer(file) ==
            LET ids == FindGameIdsWithFilter(ToSet(PositionGameIds(hash)), filter)
            IN  IF ~HasMetadataFilter(filter) THEN EloDistribution(file, hash, {}, width)
                ELSE IF ids = {} THEN {}
                ELSE EloDistribution(file, hash, ids, width)
    IN  WithPostings(Answer)

-----------------------------------------------------------------------------
(* Games of a position *)

(* find_games(): without a metadata filter and in id order, the page is    *)
(* cut from the postings and only its games are read.                      *)
FindGames(hash, filter) ==
    LET fast == ~HasMetadataFilter(filter) /\ filter.sort = "id" /\ filter.ascending
        Answer(file) ==
            IF ~fast THEN FindGamesWithIds(ToSet(PositionGameIds(hash)), filter)
            ELSE IF Summary(file, hash) = {} THEN NoGames
            ELSE LET page == DistinctGameIds(file, hash, filter.limit, filter.offset)
                     found == FindGamesWithIds(ToSet(page), [filter EXCEPT !.offset = 0])
                 IN  [found EXCEPT !.total = (CHOOSE s \in Summary(file, hash) : TRUE).games]
    IN  WithPostings(Answer)

-----------------------------------------------------------------------------
(* The prefetched opening tree *)

(* query_tree_slice(): the moves after each occurrence, to a depth.  An     *)
(* empty list of games means every game.                                    *)
QueryTreeSlice(file, hash, max_depth, allowed) ==
    LET ids == IF allowed = {} THEN DOMAIN library ELSE allowed \cap DOMAIN library
        roots_at == {o \in ToSet(Occurrences(file, hash, 0, 0)) : o[1] \in ids}
        Rows(o) == LET moves == library[o[1]].moves
                       last == Smaller(Len(moves), o[2] + max_depth)
                   IN  {[id |-> o[1], root_ply |-> o[2], depth |-> ply - o[2] + 1,
                         move |-> moves[ply + 1], parent |-> Boards(moves)[ply],
                         child |-> Boards(moves)[ply + 1]] : ply \in o[2]..(last - 1)}
    IN  UNION {Rows(o) : o \in roots_at}

(* The aggregation of open(): a node per depth and position.  One row per   *)
(* occurrence of the root, so one game may count several times.             *)
NodeAggregates(rows) ==
    LET keys == {<<r.depth, r.parent>> : r \in rows}
        Of(key) == {r \in rows : r.depth = key[1] /\ r.parent = key[2]}
        Count(key, m) == Cardinality({r \in Of(key) : r.move = m})
    IN  [key \in keys |-> {[move |-> r.move, child |-> r.child, frequency |-> Count(key, r.move)]
                           : r \in Of(key)}]

(* Seeded fault: the nodes are built from the root down, before those below them. *)
SubtreeTooEarly(nodes, key, cont, max_depth) ==
    IF key[1] < max_depth THEN "expanded" ELSE "boundary"

(* The bottom-up pass of open(): from the deepest node, greatest hash       *)
(* first.  A node below is moved into the first continuation that leads to  *)
(* it; a later one gets the moved-from null pointer.                        *)
SubtreeOf(nodes, key, cont, max_depth) ==
    LET below == <<key[1] + 1, cont.child>>
        takers == {k \in DOMAIN nodes : k[1] = key[1] /\ \E c \in nodes[k] : c.child = cont.child}
        first == CHOOSE k \in takers : \A other \in takers : other[2] <= k[2]
    IN  IF below \notin DOMAIN nodes THEN IF key[1] < max_depth THEN "expanded" ELSE "boundary"
        ELSE IF key = first THEN "node" ELSE "null"

(* open(): the nodes below the root, with what each continuation holds. *)
OpenTree(hash, max_depth, filter) ==
    LET ids == FindGameIdsWithFilter(ToSet(PositionGameIds(hash)), filter)
        empty == {}
        Answer(file) ==
            LET allowed == IF HasMetadataFilter(filter) THEN ids ELSE {}
                rows == QueryTreeSlice(file, hash, max_depth, allowed)
                nodes == NodeAggregates(rows)
            IN  IF max_depth = 0 \/ (HasMetadataFilter(filter) /\ ids = {}) \/ rows = {} THEN empty
                ELSE UNION {{[depth |-> key[1], hash |-> key[2], move |-> c.move, child |-> c.child,
                              frequency |-> c.frequency, subtree |-> SubtreeOf(nodes, key, c, max_depth)]
                             : c \in nodes[key]} : key \in DOMAIN nodes}
    IN  WithPostings(Answer)

(* expand(): a boundary node takes the statistics of its position. *)
Expand(hash, filter) ==
    LET stats == OpeningStatsFiltered(hash, filter)
    IN  {[move |-> c.move, child |-> c.child, frequency |-> c.frequency] : c \in stats.continuations}
=============================================================================
