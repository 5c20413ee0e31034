------------------------------ MODULE GameList ------------------------------
(***************************************************************************)
(* The list queries of game_store.cpp: the filter predicate of its SQL,    *)
(* the order, and pages with their total.  A name, an ECO code and a       *)
(* result are compared whole; Unset is an absent filter field.               *)
(***************************************************************************)
EXTENDS GameReplay

CONSTANTS MaxSearchLimit      \* max_search_limit

Unset == "any"

(* The WHERE clause of game_list_where_sql; a missing rating is NULL and   *)
(* satisfies neither bound.                                                *)
Matches(game, filter) ==
    /\ \/ filter.player = Unset
       \/ filter.color # "black" /\ game.white_name = filter.player
       \/ filter.color # "white" /\ game.black_name = filter.player
    /\ filter.result \in {Unset, game.result}
    /\ filter.eco \in {Unset, game.eco}
    /\ filter.min_elo # NoElo => /\ game.white # NoElo /\ game.white >= filter.min_elo
                                 /\ game.black # NoElo /\ game.black >= filter.min_elo
    /\ filter.max_elo # NoElo => /\ game.white # NoElo /\ game.white <= filter.max_elo
                                 /\ game.black # NoElo /\ game.black <= filter.max_elo

HasMetadataFilter(filter) ==
    \/ filter.player # Unset \/ filter.result # Unset \/ filter.eco # Unset
    \/ filter.min_elo # NoElo \/ filter.max_elo # NoElo

(* Collation ranks of the text columns (game_sort_expression). *)
SortKey(id, column) == IF column = "id" THEN id ELSE library[id].rank[column]

(* game_order_clause(): the column, then the id in the same direction. *)
ListedBefore(filter, a, b) ==
    LET ka == <<SortKey(a, filter.sort), a>>
        kb == <<SortKey(b, filter.sort), b>>
    IN  IF filter.ascending THEN LexLess(ka, kb) ELSE LexLess(kb, ka)

Smaller(a, b) == IF a < b THEN a ELSE b

(* fetch_game_list_page(): ORDER BY, LIMIT, OFFSET over the matching ids. *)
FetchPage(ids, filter) ==
    LET Before(a, b) == ListedBefore(filter, a, b)
        all == SetToSortSeq({id \in ids \cap DOMAIN library : Matches(library[id], filter)}, Before)
        limit == Smaller(filter.limit, MaxSearchLimit)
    IN  SubSeq(all, filter.offset + 1, Smaller(filter.offset + limit, Len(all)))

CountMatches(ids, filter) ==
    Cardinality({id \in ids \cap DOMAIN library : Matches(library[id], filter)})

NoGames == [games |-> <<>>, total |-> 0]

(* game_store::find_games(): without a filter the total is count_games(). *)
StoreFindGames(filter) ==
    LET total == IF HasMetadataFilter(filter) THEN CountMatches(DOMAIN library, filter)
                 ELSE Cardinality(DOMAIN library)
    IN  IF total = 0 \/ filter.limit = 0 THEN [games |-> <<>>, total |-> total]
        ELSE [games |-> FetchPage(DOMAIN library, filter), total |-> total]

(* game_store::find_games_with_ids(). *)
FindGamesWithIds(ids, filter) ==
    IF ids = {} THEN NoGames
    ELSE LET total == CountMatches(ids, filter)
         IN  IF total = 0 \/ filter.limit = 0 THEN [games |-> <<>>, total |-> total]
             ELSE [games |-> FetchPage(ids, filter), total |-> total]

(* game_store::find_game_ids_with_filter(). *)
FindGameIdsWithFilter(ids, filter) ==
    {id \in ids \cap DOMAIN library : Matches(library[id], filter)}
=============================================================================
