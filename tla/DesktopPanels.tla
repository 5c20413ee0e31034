--------------------------- MODULE DesktopPanels ---------------------------
(***************************************************************************)
(* The panels of the desktop window: the game browser, the board and the   *)
(* position search, each a presenter with the runner that owns its worker. *)
(*                                                                         *)
(* A panel is a record and an operation of it an operator on that record.  *)
(* The panel's worker thread has one job at a time, and at most one query   *)
(* waits for it.  A job carries `latest': whether the generation number it  *)
(* was prepared under is still its presenter's current one, which is all a  *)
(* generation number is ever compared for; an epoch likewise.               *)
(*                                                                         *)
(* Games are 1, 2, ... in row order and follow one line of play, so that a   *)
(* position is the number of plies that reach it.                           *)
(***************************************************************************)
EXTENDS Integers, Sequences

CONSTANTS
  PageSize,     \* browser_page_size and the search filter's limit
  Plies         \* moves in every game

ASSUME PanelsAssumption == PageSize \in Nat \ {0} /\ Plies \in Nat \ {0}

NoGame == 0
NoRow  == 0
Start  == 0
NoHash == -1
NoDatabase == "none"

Filters == {"all", "some"}
Passes(filter, game) == filter = "all" \/ game % 2 = 1

\* What find_games answers over n games: the page and the number of matches.
Matching(n, filter) == SelectSeq([g \in 1..n |-> g], LAMBDA g : Passes(filter, g))
PageOf(matches, page) ==
  [games |-> SelectSeq(matches, LAMBDA g :
                \E i \in DOMAIN matches : matches[i] = g /\ (i - 1) \div PageSize = page),
   total |-> Len(matches)]
Answer(n, filter, page) == PageOf(Matching(n, filter), page)

HasNext(r) == (r.page + 1) * PageSize < r.total
HasPrevious(r) == r.page > 0

-----------------------------------------------------------------------------
(* Worker threads. *)

NoJob == [kind |-> "none", latest |-> FALSE, stage |-> "done"]

QueryJob(filter, hash, page) ==
  [kind |-> "query", latest |-> TRUE, stage |-> "running",
   filter |-> filter, hash |-> hash, page |-> page, ok |-> FALSE, found |-> PageOf(<<>>, 0)]
LoadJob(kind, game, ply) ==
  [kind |-> kind, latest |-> TRUE, stage |-> "running", game |-> game, ply |-> ply, ok |-> FALSE]

Busy(r)    == r.job # NoJob
Running(r) == r.job.stage = "running"

\* run_query: the worker takes the job, or the job waits.
RunQuery(r, job) == IF Busy(r) THEN [r EXCEPT !.pending = job] ELSE [r EXCEPT !.job = job]

\* A new query generation: queries prepared before it will not be applied.
NextGeneration(r) ==
  [r EXCEPT !.job.latest = @ /\ r.job.kind # "query", !.pending.latest = FALSE]

\* The end of every completion: busy is cleared and the waiting query runs.
DispatchPending(r) == [r EXCEPT !.job = r.pending, !.pending = NoJob]

-----------------------------------------------------------------------------
(* The game browser. *)

\* asked: the page of the newest query that has not failed; fresh: it has been applied.
DetachedBrowser ==
  [db |-> NoDatabase, filter |-> "all", asked |-> 0, fresh |-> FALSE,
   page |-> 0, games |-> <<>>, total |-> 0, selected |-> NoGame, row |-> NoRow,
   job |-> NoJob, pending |-> NoJob]

\* attach and detach start a new epoch: a job of the old one is not applied.
AttachBrowser(b, db) == [DetachedBrowser EXCEPT !.db = db, !.job = [b.job EXCEPT !.latest = FALSE]]

RowOf(games, game) ==
  IF \E i \in DOMAIN games : games[i] = game THEN CHOOSE i \in DOMAIN games : games[i] = game ELSE NoRow

MakeQuery(b, page) ==
  IF b.db = NoDatabase THEN b
  ELSE RunQuery([NextGeneration(b) EXCEPT !.asked = page, !.fresh = FALSE], QueryJob(b.filter, Start, page))

LoadInitial(b)        == MakeQuery(b, 0)
FilterGames(b, filter) == MakeQuery([b EXCEPT !.filter = filter], 0)

SelectGame(b, row) == [b EXCEPT !.row = row, !.selected = b.games[row]]
MovedRow(b, delta) ==
  LET from == IF b.row # NoRow THEN b.row ELSE IF delta < 0 THEN Len(b.games) ELSE 1
      to   == from + delta
  IN  IF to < 1 THEN 1 ELSE IF to > Len(b.games) THEN Len(b.games) ELSE to

Activate(b, kind, game, ply) == [b EXCEPT !.job = LoadJob(kind, game, ply)]

\* Seeded fault of ApplyBrowserQuery: the generation is not compared.
BrowserQueryIgnoresGeneration(b, job) ==
  IF b.db # NoDatabase /\ job.ok
  THEN [b EXCEPT !.games = job.found.games, !.total = job.found.total, !.page = job.page,
                 !.row = RowOf(job.found.games, b.selected), !.fresh = TRUE]
  ELSE b

ApplyBrowserQuery(b, job) ==
  IF b.db # NoDatabase /\ job.latest /\ job.ok
  THEN [b EXCEPT !.games = job.found.games, !.total = job.found.total, !.page = job.page,
                 !.row = RowOf(job.found.games, b.selected), !.fresh = TRUE]
  ELSE IF b.db # NoDatabase /\ job.latest THEN [b EXCEPT !.asked = b.page]
  ELSE b

\* Whether complete_activation or complete_external_activation applies the game.
ActivationApplies(b, job) ==
  b.db # NoDatabase /\ job.latest /\ job.ok /\ (job.kind = "row" => b.selected = job.game)
ActivationFails(b, job) == b.db # NoDatabase /\ job.latest /\ ~job.ok

ApplyActivation(b, job) ==
  IF ActivationApplies(b, job) /\ job.kind = "match"
  THEN [b EXCEPT !.selected = job.game, !.row = RowOf(b.games, job.game)]
  ELSE b

-----------------------------------------------------------------------------
(* The board. *)

NoBoard      == [attached |-> FALSE, loaded |-> FALSE, ply |-> 0]
ClearedBoard == [attached |-> TRUE, loaded |-> FALSE, ply |-> 0]

Hash(bd)       == bd.ply
TotalPlies(bd) == IF bd.loaded THEN Plies ELSE 0

\* navigate_to clamps to the game; advance, retreat and the jumps are its cases.
NavigateTo(bd, ply) == [bd EXCEPT !.ply = IF ply < TotalPlies(bd) THEN ply ELSE TotalPlies(bd)]
LoadedBoard(job) ==
  NavigateTo([attached |-> TRUE, loaded |-> TRUE, ply |-> 0], job.ply)

-----------------------------------------------------------------------------
(* The position search. *)

NoCache == [page |-> -1]

\* shown: the current results are an applied page; behind: no search for the board's
\* position has been made since auto-search was off or an activation failed.
DetachedSearch ==
  [db |-> NoDatabase, auto |-> TRUE, last |-> NoHash, hash |-> Start, filter |-> "all",
   page |-> 0, games |-> <<>>, total |-> 0, searching |-> FALSE, shown |-> FALSE,
   cache |-> NoCache, behind |-> FALSE, job |-> NoJob, pending |-> NoJob]

AttachSearch(s, db) == [DetachedSearch EXCEPT !.db = db, !.job = [s.job EXCEPT !.latest = FALSE]]

ShowPage(s, hash, filter, page, found) ==
  [s EXCEPT !.hash = hash, !.filter = filter, !.page = page, !.games = found.games,
            !.total = found.total, !.searching = FALSE, !.shown = TRUE,
            !.cache = IF hash = Start /\ filter = "all" THEN [page |-> page, found |-> found] ELSE @]

CacheHit(s, hash, filter, page) == hash = Start /\ filter = "all" /\ s.cache.page = page

\* async_search_runner::search with search_presenter::search.
Search(s, hash, filter, page) ==
  IF CacheHit(s, hash, filter, page)
  THEN ShowPage([NextGeneration(s) EXCEPT !.last = hash], hash, filter, page, s.cache.found)
  ELSE RunQuery([NextGeneration(s) EXCEPT !.last = hash, !.hash = hash, !.filter = filter,
                    !.page = 0, !.games = <<>>, !.total = 0, !.searching = TRUE, !.shown = FALSE],
                QueryJob(filter, hash, page))

SearchHere(s, b, bd) == [Search(s, Hash(bd), b.filter, 0) EXCEPT !.behind = ~s.auto]

SearchIfHashChanged(s, b, bd) ==
  IF s.db # NoDatabase /\ s.auto /\ s.last # Hash(bd) THEN SearchHere(s, b, bd) ELSE s

RefreshIfAuto(s, b, bd) == IF s.db # NoDatabase /\ s.auto THEN SearchHere(s, b, bd) ELSE s

Invalidate(s) == [s EXCEPT !.cache = NoCache]

SearchPage(s, page) == Search(s, s.hash, s.filter, page)

\* Seeded faults of ApplySearchQuery: the generation is not compared; an error leaves
\* the panel searching.
SearchQueryIgnoresGeneration(s, job) ==
  IF s.db # NoDatabase
  THEN IF job.ok THEN ShowPage(s, job.hash, job.filter, job.page, job.found)
       ELSE [s EXCEPT !.searching = FALSE]
  ELSE s
SearchErrorDropped(s, job) ==
  IF s.db # NoDatabase /\ job.latest /\ job.ok
  THEN ShowPage(s, job.hash, job.filter, job.page, job.found) ELSE s

ApplySearchQuery(s, job) ==
  IF s.db # NoDatabase /\ job.latest
  THEN IF job.ok THEN ShowPage(s, job.hash, job.filter, job.page, job.found)
       ELSE [s EXCEPT !.searching = FALSE]
  ELSE s

=============================================================================
