----------------------------- MODULE IndexBuild -----------------------------
(***************************************************************************)
(* The three index builders over one set of canonical games, and the       *)
(* queries that read what they publish.  rebuild_opening_tree_index()      *)
(* gives the tree builder the postings' summaries as child counts.  The    *)
(* prefix postings share no state with the others and are built last.      *)
(***************************************************************************)
EXTENDS OpeningQueries, PrefixPostings

CONSTANTS Libraries,        \* sets of canonical games to start from
          Settings,         \* thresholds and options of one build
          Hashes,           \* positions asked about, absent ones included
          Filters,          \* search filters asked about
          Depths,           \* prefetch depths
          EloWidth          \* bucket width of the rating distribution

(* Ids are row numbers from 1; moves are encoded as numbers; a position is *)
(* a hash of so many bits, the leading ones of which number its bucket;    *)
(* append() and the tree builder refuse a spill threshold of zero.         *)
ASSUME IndexAssumption ==
    /\ \A games \in Libraries :
          /\ IsFiniteSet(DOMAIN games) /\ DOMAIN games \subseteq Nat \ {0}
          /\ \A id \in DOMAIN games :
                /\ games[id].moves \in Seq(Nat)
                /\ Visited(games[id].moves) \subseteq 0..(BucketCount * BucketWidth - 1)
    /\ \A s \in Settings : s.spill_threshold \in Nat \ {0}
    /\ Hashes \subseteq 0..(BucketCount * BucketWidth - 1)

vars == <<library, threshold, postingsVars, options, treeVars, prefixThreshold, prefixVars>>

Init ==
    /\ library \in Libraries
    /\ \E s \in Settings :
          /\ threshold = s.spill_threshold /\ prefixThreshold = s.spill_threshold
          /\ options = s
    /\ PostingsInit /\ TreeInit /\ PrefixInit

(* rebuild_opening_tree_index(): hash and number of games, block by block. *)
SummaryStream ==
    LET file == CHOOSE f \in artifact : TRUE
        all == AllSummaries(file)
    IN  [i \in 1..Len(all) |-> <<all[i].hash, all[i].games>>]

BuildPostings == PostingsNext /\ UNCHANGED <<library, threshold, options, treeVars, prefixThreshold, prefixVars>>
BuildTree == /\ built = "published"
        /\ TreeNext(SummaryStream)
        /\ UNCHANGED <<library, threshold, postingsVars, options, prefixThreshold, prefixVars>>
BuildPrefixes == /\ treeBuilt = "published"
            /\ PrefixNext
            /\ UNCHANGED <<library, threshold, postingsVars, options, treeVars, prefixThreshold>>

Next == BuildPostings \/ BuildTree \/ BuildPrefixes

Spec == Init /\ [][Next]_vars

(* The states in which one builder has published and the next one, which   *)
(* always has a step, has not begun: every step from there sees the        *)
(* queries answered.                                                       *)
PostingsReady == built = "published" /\ treeBuilt = "replay" /\ pending = Ascending(DOMAIN library)
TreeReady == treeBuilt = "published" /\ prefixBuilt = "append" /\ prefixQueue = Ascending(DOMAIN library)

-----------------------------------------------------------------------------
(* Properties *)

(* The builders never write a file that their own open() refuses, whatever *)
(* the spills, block boundaries, digit lengths and hash gaps               *)
(* (merge_runs(), write_index_file(), finalize_external_merge()).          *)
NeverRejected == built # "rejected" /\ treeBuilt # "rejected" /\ prefixBuilt # "rejected"

PostingsAnswerTruly ==
    \A hash \in Hashes :
    LET truth == TrueOccurrences(hash)
        ids == Ascending(TrueIds(hash))
    IN  /\ PositionSummary(hash) = TrueSummary(hash)
        /\ PositionGameIds(hash) = ids
        /\ \A limit \in 0..2, offset \in 0..3 :
              /\ QueryPositionMatches(hash, limit, offset) = Window(truth, limit, offset)
              /\ DistinctGameIds(CHOOSE f \in artifact : TRUE, hash, limit, offset)
                     = Window(ids, limit, offset)
        /\ \A wanted \in SUBSET DOMAIN library :
              ToSet(QueryPositionFirstMatches(hash, wanted)) =
                  {<<id, Min({o[2] : o \in {x \in ToSet(truth) : x[1] = id}})>> :
                      id \in wanted \cap TrueIds(hash)}

(* Occurrences, first occurrences, distinct games, every page of both, and *)
(* the summary read back from the encoded file are those of the canonical  *)
(* games, for indexed and for absent positions.                            *)
PostingsExact == [][PostingsReady => PostingsAnswerTruly]_vars

TreeAnswersTruly ==
    \A hash \in Hashes :
    LET file == CHOOSE f \in artifact : TRUE
    IN  QueryUnfilteredOpeningStats(hash) = FilteredStats(file, hash, TrueIds(hash), TRUE)

(* The statistics a position gets do not depend on whether the opening     *)
(* tree index exists: the tree answers only for positions on which it      *)
(* agrees with the replay of every game (query_unfiltered_opening_stats()). *)
TreeTransparent == [][TreeReady => TreeAnswersTruly]_vars

PagesAreTrue ==
    \A hash \in Hashes, filter \in Filters :
    LET found == FindGames(hash, filter)
    IN  /\ found.total = CountMatches(TrueIds(hash), filter)
        /\ filter.limit > 0 => found.games = FetchPage(TrueIds(hash), filter)
        /\ filter.limit = 0 => found.games = <<>>
        /\ LET step == Smaller(filter.limit, MaxSearchLimit)
               pages == FlattenSeq([k \in 1..Cardinality(DOMAIN library) |->
                   StoreFindGames([filter EXCEPT !.offset = (k - 1) * step]).games])
           IN  step > 0 => /\ ToSet(pages) = FindGameIdsWithFilter(DOMAIN library, filter)
                           /\ Len(pages) = Cardinality(ToSet(pages))

(* Page and total of find_games() do not depend on the path it takes: the  *)
(* page cut from the postings is the page of the SQL query.  Following the *)
(* pages of a list, in whatever order, shows every matching game once.     *)
PagesAgree == [][PostingsReady => PagesAreTrue]_vars

FilteredAnswersNarrow ==
    \A hash \in Hashes, filter \in {f \in Filters : HasMetadataFilter(f)} :
    LET ids == FindGameIdsWithFilter(TrueIds(hash), filter)
        moves == {m \in UNION {ToSet(library[id].moves) : id \in ids} :
                    \E id \in ids : \E ply \in DOMAIN library[id].moves :
                       library[id].moves[ply] = m /\ Boards(library[id].moves)[ply - 1] = hash}
    IN  /\ {c.move : c \in OpeningStatsFiltered(hash, filter).continuations} \subseteq moves
        /\ {r.move : r \in QueryEloDistribution(hash, filter, EloWidth)} \subseteq moves
        /\ {n.move : n \in {x \in OpenTree(hash, 1, filter) : x.depth = 1}} = moves

(* A metadata filter only narrows: a filter no game of the position        *)
(* satisfies gives no statistics, no rating rows and an empty tree, never  *)
(* those of every game, although an empty list means every game below.     *)
FiltersNarrow == [][PostingsReady => FilteredAnswersNarrow]_vars

TreeHoldsEveryMove ==
    \A hash \in Hashes, depth \in Depths, filter \in Filters :
    LET ids == FindGameIdsWithFilter(TrueIds(hash), filter)
        conts == OpenTree(hash, depth, filter)
        Hangs(level, node) ==
            level = 1 \/ \E c \in conts : c.depth = level - 1 /\ c.child = node /\ c.subtree = "node"
    IN  \A o \in ToSet(TrueOccurrences(hash)) :
        LET moves == library[o[1]].moves
        IN  o[1] \in ids => \A level \in 1..Smaller(depth, Len(moves) - o[2]) :
                LET node == Boards(moves)[o[2] + level - 1]
                IN  /\ Hangs(level, node)
                    /\ \E c \in conts : /\ c.depth = level /\ c.hash = node
                                         /\ c.move = moves[o[2] + level]

(* No move is lost from the prefetched tree: every move played within the  *)
(* depth, from each occurrence of the root in each game the filter allows, *)
(* is a continuation of a node that hangs below the root, although nodes   *)
(* are moved into one of the continuations that lead to them.              *)
TreeIsWhole == [][PostingsReady => TreeHoldsEveryMove]_vars

(* The candidates of a position are distinct and include every game that   *)
(* holds it, whether or not the builder spilled.                           *)
CandidatesSound ==
    prefixBuilt = "open" => \A hash \in Hashes, file \in prefixFile :
        LET found == Candidates(file, hash)
        IN  /\ TrueIds(hash) \subseteq ToSet(found)
            /\ Len(found) = Cardinality(ToSet(found))
            /\ \A id \in ToSet(found) : \E h \in Visited(library[id].moves) : Prefix(h) = Prefix(hash)

-----------------------------------------------------------------------------
(* What documents and tests say and the code does not do *)

(* docs/devlog/2026-W18.md: total_games is the number of stored games that *)
(* reached the position, also when no sample game provides a board of it.  *)
TotalGamesIsReach ==
    TreeReady => \A hash \in Hashes : OpeningStatsQuery(hash).total_games = Cardinality(TrueIds(hash))

(* opening_tree_test.cpp: each continuation of a prefetched tree has a     *)
(* subtree, also when two move orders lead to one node.                    *)
EveryContinuationHasSubtree ==
    PostingsReady => \A hash \in Hashes, depth \in Depths, filter \in Filters :
        \A c \in OpenTree(hash, depth, filter) : c.subtree # "null"
=============================================================================
