------------------------------ MODULE Desktop ------------------------------
(***************************************************************************)
(* The desktop application: one event loop, four worker threads.           *)
(*                                                                         *)
(* The workspace worker creates or opens a database, the browser and the    *)
(* search worker read it, the import worker writes it.  Every callback of   *)
(* the window and every completion a worker posts runs on the event loop,   *)
(* one at a time, and is one action here; a worker's step is one action for *)
(* each effect another thread can see.  Leaving the event loop destroys the *)
(* locals of main in reverse order, joining each thread.                    *)
(***************************************************************************)
EXTENDS DesktopPanels, FiniteSets

CONSTANTS
  MaxGames,     \* bound: games a database can hold, by database
  MaxBundles,   \* bound: bundles that exist at a time, the scratch bundle included
  FailingReads  \* bound: the reads of the browser that may fail, <<database, kind>>

ASSUME DesktopAssumption == MaxGames \in [{"file", "scratch"} -> Nat] /\ MaxBundles \in Nat

Missing == -1

VARIABLES
  rows,       \* games in the bundle on disk and in the scratch bundle, or Missing
  indexed,    \* whether the active database has published position postings
  active,     \* workspace_service: the active database
  config,     \* workspace_service::config_: whether it lists the bundle as recent
  saved,      \* whether the configuration file does
  ws,         \* the workspace worker: [stage, op, ok]
  browser, board, search,
  importer,   \* import_service: its state and its worker [db, work, left, stop, fault]
  ui,         \* [timer, import_active, publishing]: the import timer and the window
  app         \* "running", or the local of main being destroyed, or "closed"

workspace == <<active, config, saved, ws>>
panels    == <<browser, board, search>>
vars == <<rows, indexed, workspace, panels, importer, ui, app>>

\* cancel_requested_ is TRUE exactly while the state of an unfinished import is
\* "canceling", and has no variable of its own.  `left` counts the batches still to be
\* stored; `fault` is history: a call of the pipeline has failed.
NoImport == [state |-> "idle", db |-> NoDatabase, work |-> "none", left |-> 0, stop |-> FALSE,
             fault |-> FALSE]

Bundles == {db \in DOMAIN rows : rows[db] # Missing}

Init ==
  /\ rows = [file |-> Missing, scratch |-> Missing] /\ indexed = FALSE
  /\ active = NoDatabase
  /\ saved = FALSE /\ config = FALSE
  /\ ws = [stage |-> "idle", op |-> "none", ok |-> FALSE]
  /\ browser = DetachedBrowser /\ board = NoBoard /\ search = DetachedSearch
  /\ importer = NoImport
  /\ ui = [timer |-> FALSE, import_active |-> FALSE, publishing |-> FALSE]
  /\ app = "running"

ImportActive == importer.state \in {"running", "canceling"}
AnyBusy      == ws.stage # "idle" \/ Busy(browser) \/ Busy(search)

EventLoop   == app = "running" /\ ~ui.publishing
Interactive == EventLoop /\ ~AnyBusy /\ ~ImportActive

-----------------------------------------------------------------------------
(* Workspace: create, open or scratch on the worker, close on the event loop. *)

RequestWorkspace(op) ==
  /\ Interactive /\ active = NoDatabase
  /\ op # "open" => Cardinality(Bundles) < MaxBundles
  /\ ws' = [stage |-> "database", op |-> op, ok |-> FALSE]
  /\ UNCHANGED <<rows, indexed, active, config, saved, panels, importer, ui, app>>

WorkspaceFails ==
  /\ ws' = [ws EXCEPT !.stage = "ready", !.ok = FALSE]
  /\ UNCHANGED <<indexed, active, config, saved>>

CreateDatabase ==
  /\ ws.stage = "database" /\ ws.op = "create"
  /\ \/ WorkspaceFails /\ UNCHANGED rows
     \/ /\ rows.file = Missing
        /\ rows' = [rows EXCEPT !.file = 0] /\ ws' = [ws EXCEPT !.stage = "config"]
        /\ UNCHANGED <<indexed, active, config, saved>>
  /\ UNCHANGED <<panels, importer, ui, app>>

OpenDatabase ==
  /\ ws.stage = "database" /\ ws.op = "open"
  /\ \/ WorkspaceFails
     \/ /\ rows.file # Missing
        /\ ws' = [ws EXCEPT !.stage = "config"]
        /\ UNCHANGED <<indexed, active, config, saved>>
  /\ UNCHANGED <<rows, panels, importer, ui, app>>

ActivateScratch ==
  /\ ws.stage = "database" /\ ws.op = "scratch"
  /\ \/ WorkspaceFails /\ UNCHANGED rows
     \/ /\ rows' = [rows EXCEPT !.scratch = 0] /\ indexed' = TRUE
        /\ active' = "scratch" /\ ws' = [ws EXCEPT !.stage = "ready", !.ok = TRUE]
        /\ UNCHANGED <<config, saved>>
  /\ UNCHANGED <<panels, importer, ui, app>>

\* Seeded fault of PersistWorkspace: a bundle whose configuration is not saved is kept.
PersistWithoutDiscard ==
  /\ ws.stage = "config"
  /\ \/ /\ config' = TRUE /\ saved' = TRUE
        /\ active' = "file" /\ indexed' = TRUE
        /\ ws' = [ws EXCEPT !.stage = "ready", !.ok = TRUE]
     \/ WorkspaceFails
  /\ UNCHANGED <<rows, panels, importer, ui, app>>

\* push_recent and save_config; a bundle just created is discarded if that fails.
PersistWorkspace ==
  /\ ws.stage = "config"
  /\ \/ /\ config' = TRUE /\ saved' = TRUE
        /\ active' = "file" /\ indexed' = TRUE
        /\ ws' = [ws EXCEPT !.stage = "ready", !.ok = TRUE]
        /\ UNCHANGED rows
     \/ /\ WorkspaceFails
        /\ rows' = [rows EXCEPT !.file = IF ws.op = "create" THEN Missing ELSE @]
  /\ UNCHANGED <<panels, importer, ui, app>>

\* The completion: attach the panels; attaching the board publishes its position.
WorkspaceDone ==
  /\ EventLoop /\ ws.stage = "ready"
  /\ ws' = [stage |-> "idle", op |-> "none", ok |-> FALSE]
  /\ IF ws.ok
     THEN /\ browser' = LoadInitial(AttachBrowser(browser, active))
          /\ board' = ClearedBoard
          /\ search' = SearchIfHashChanged(AttachSearch(search, active), browser', board')
     ELSE UNCHANGED panels
  /\ UNCHANGED <<rows, indexed, active, config, saved, importer, ui, app>>

Close ==
  /\ Interactive /\ ~ui.import_active /\ active # NoDatabase
  /\ browser' = AttachBrowser(browser, NoDatabase) /\ board' = NoBoard /\ search' = DetachedSearch
  /\ active' = NoDatabase /\ rows' = [rows EXCEPT !.scratch = Missing] /\ indexed' = FALSE
  /\ UNCHANGED <<config, saved, ws, importer, ui, app>>

\* Saves the whole configuration with the other layout.  The button is on the board
\* panel, shown while a database is published.
ToggleNotation ==
  /\ EventLoop /\ ws.stage = "idle" /\ active # NoDatabase
  /\ saved' \in {config, saved}
  /\ UNCHANGED <<rows, indexed, active, config, ws, panels, importer, ui, app>>

-----------------------------------------------------------------------------
(* The game browser's callbacks. *)

BrowserOnly == UNCHANGED <<rows, indexed, workspace, board, search, importer, ui, app>>

BrowserReady == Interactive /\ browser.db # NoDatabase

FiltersChanged(filter) ==
  /\ BrowserReady
  /\ browser' = FilterGames(browser, filter)
  /\ search' = RefreshIfAuto(search, browser', board)
  /\ UNCHANGED <<rows, indexed, workspace, board, importer, ui, app>>

PageRequested ==
  /\ BrowserReady
  /\ \/ HasNext(browser) /\ browser' = MakeQuery(browser, browser.page + 1)
     \/ HasPrevious(browser) /\ browser' = MakeQuery(browser, browser.page - 1)
  /\ BrowserOnly

SortRequested == BrowserReady /\ browser' = MakeQuery(browser, 0) /\ BrowserOnly

GameSelected ==
  /\ BrowserReady
  /\ \E row \in DOMAIN browser.games : browser' = SelectGame(browser, row)
  /\ BrowserOnly

MoveSelection ==
  /\ BrowserReady /\ browser.games # <<>>
  /\ \E delta \in {-1, 1} : browser' = SelectGame(browser, MovedRow(browser, delta))
  /\ BrowserOnly

ActivateRequested ==
  /\ BrowserReady /\ browser.selected # NoGame
  /\ browser' = Activate(browser, "row", browser.selected, 0)
  /\ BrowserOnly

-----------------------------------------------------------------------------
(* The board's and the search panel's callbacks. *)

BoardReady == Interactive /\ ~ui.import_active /\ board.attached

\* Every board callback republishes the position, the ones that do not move it too.
BoardNavigated ==
  /\ BoardReady
  /\ \E ply \in 0..Plies : board' = NavigateTo(board, ply)
  /\ search' = SearchIfHashChanged(search, browser, board')
  /\ UNCHANGED <<rows, indexed, workspace, browser, importer, ui, app>>

SearchOnly == UNCHANGED <<rows, indexed, workspace, browser, board, importer, ui, app>>

SearchRequested ==
  /\ BoardReady /\ ~search.searching
  /\ search' = SearchHere(search, browser, board)
  /\ SearchOnly

AutoSearchToggled ==
  /\ BoardReady
  /\ search' = IF search.auto THEN [search EXCEPT !.auto = FALSE, !.behind = TRUE]
               ELSE SearchIfHashChanged([search EXCEPT !.auto = TRUE], browser, board)
  /\ SearchOnly

SearchPageRequested ==
  /\ BoardReady /\ ~search.searching
  /\ \/ HasNext(search) /\ search' = SearchPage(search, search.page + 1)
     \/ HasPrevious(search) /\ search' = SearchPage(search, search.page - 1)
  /\ SearchOnly

MatchActivated ==
  /\ BoardReady
  /\ \E row \in DOMAIN search.games :
       browser' = Activate(browser, "match", search.games[row], search.hash)
  /\ BrowserOnly

-----------------------------------------------------------------------------
(* The browser's and the search's workers and their completions. *)

BrowserRead ==
  /\ Running(browser)
  /\ \E ok \in {TRUE, <<browser.db, browser.job.kind>> \notin FailingReads} :
       browser' = IF browser.job.kind = "query"
                  THEN [browser EXCEPT !.job.stage = "done", !.job.ok = ok,
                          !.job.found = IF ok THEN Answer(rows[browser.db], browser.job.filter, browser.job.page) ELSE @]
                  ELSE [browser EXCEPT !.job.stage = "done", !.job.ok = ok]
  /\ BrowserOnly

BrowserQueryDone ==
  /\ EventLoop /\ browser.job.kind = "query" /\ ~Running(browser)
  /\ browser' = DispatchPending(ApplyBrowserQuery(browser, browser.job))
  /\ BrowserOnly

\* Loading a game publishes the board's position; clearing it after an error does not.
ActivationDone ==
  /\ EventLoop /\ browser.job.kind \in {"row", "match"} /\ ~Running(browser)
  /\ browser' = DispatchPending(ApplyActivation(browser, browser.job))
  /\ board' = IF ActivationApplies(browser, browser.job) THEN LoadedBoard(browser.job)
              ELSE IF ActivationFails(browser, browser.job) THEN ClearedBoard
              ELSE board
  /\ search' = IF ActivationApplies(browser, browser.job) THEN SearchIfHashChanged(search, browser, board')
               ELSE IF ActivationFails(browser, browser.job) THEN [search EXCEPT !.behind = TRUE]
               ELSE search
  /\ UNCHANGED <<rows, indexed, workspace, importer, ui, app>>

\* Without published postings every read fails; the second attempt the worker makes
\* if an import is active has the same outcomes.
SearchRead ==
  /\ Running(search)
  /\ \E ok \in {FALSE} \cup {indexed} :
       search' = [search EXCEPT !.job.stage = "done", !.job.ok = ok,
                    !.job.found = IF ok THEN Answer(rows[search.db], search.job.filter, search.job.page) ELSE @]
  /\ SearchOnly

SearchDone ==
  /\ EventLoop /\ Busy(search) /\ ~Running(search)
  /\ search' = DispatchPending(ApplySearchQuery(search, search.job))
  /\ SearchOnly

-----------------------------------------------------------------------------
(* Import: started and polled on the event loop, run on its own thread. *)

\* Seeded fault of ImportRequested: an import starts over a search that still runs.
ImportDuringSearch ==
  /\ EventLoop /\ ws.stage = "idle" /\ ~Busy(browser) /\ active # NoDatabase
  /\ ~ui.import_active /\ ~ImportActive
  /\ importer' = [NoImport EXCEPT !.state = "running", !.db = active, !.work = "start"]
  /\ ui' = [ui EXCEPT !.publishing = TRUE]
  /\ UNCHANGED <<rows, indexed, workspace, panels, app>>

ImportRequested ==
  /\ EventLoop /\ ~AnyBusy /\ active # NoDatabase /\ ~ui.import_active /\ ~ImportActive
  /\ \E left \in 0..(MaxGames[active] - rows[active]) :
       importer' = [NoImport EXCEPT !.state = "running", !.db = active, !.work = "start", !.left = left]
  /\ ui' = [ui EXCEPT !.publishing = TRUE]
  /\ UNCHANGED <<rows, indexed, workspace, panels, app>>

\* The end of the same callback; the worker may be done by then.
ImportPublished ==
  /\ app = "running" /\ ui.publishing
  /\ ui' = [timer |-> TRUE, import_active |-> ImportActive, publishing |-> FALSE]
  /\ UNCHANGED <<rows, indexed, workspace, panels, importer, app>>

ImportOnly == UNCHANGED <<workspace, panels, ui, app>>

ImportBegins ==
  /\ importer.work = "start"
  /\ \/ /\ importer' = [importer EXCEPT !.work = "ingest"] /\ indexed' = FALSE
     \/ /\ importer' = [importer EXCEPT !.work = "error", !.fault = TRUE] /\ UNCHANGED indexed
  /\ UNCHANGED rows /\ ImportOnly

\* One batch more, or an error of stage2.  num_lines is a multiple of 16 here, so that
\* stage0 may be ahead of stage2: reaching the end of the file it replaces an error of
\* stage2 that is on record already, and run() goes on without the rest of the games.
ImportGame ==
  /\ importer.work = "ingest"
  /\ \/ /\ importer.left > 0
        /\ rows' = [rows EXCEPT ![importer.db] = @ + 1]
        /\ importer' = [importer EXCEPT !.left = @ - 1]
     \/ /\ importer' = [importer EXCEPT !.work = "error", !.fault = TRUE] /\ UNCHANGED rows
     \/ /\ importer.left > 0
        /\ importer' = [importer EXCEPT !.work = IF importer.stop THEN "returned" ELSE "rebuild",
                                         !.fault = TRUE]
        /\ UNCHANGED rows
  /\ UNCHANGED indexed /\ ImportOnly

ImportIngested ==
  /\ importer.work = "ingest" /\ (importer.stop \/ importer.left = 0)
  /\ importer' = [importer EXCEPT !.work = IF importer.stop THEN "returned" ELSE "rebuild"]
  /\ UNCHANGED <<rows, indexed>> /\ ImportOnly

ImportRebuilds ==
  /\ importer.work = "rebuild"
  /\ \/ importer' = [importer EXCEPT !.work = "returned"] /\ indexed' = TRUE
     \/ importer' = [importer EXCEPT !.work = "error", !.fault = TRUE] /\ UNCHANGED indexed
  /\ UNCHANGED rows /\ ImportOnly

\* Seeded faults of ImportFinishes: a stopped import counts as completed; an error is
\* not recorded.
FinishesCompleted ==
  /\ importer.work \in {"returned", "error"}
  /\ importer' = [NoImport EXCEPT !.state = IF importer.work = "error" THEN "failed" ELSE "completed"]
  /\ UNCHANGED <<rows, indexed>> /\ ImportOnly
FinishesWithoutError ==
  /\ importer.work = "returned"
  /\ importer' = [NoImport EXCEPT !.state = IF importer.state = "canceling" THEN "canceled" ELSE "completed"]
  /\ UNCHANGED <<rows, indexed>> /\ ImportOnly

ImportFinishes ==
  /\ importer.work \in {"returned", "error"}
  /\ importer' = [NoImport EXCEPT
                    !.state = IF importer.work = "error" THEN "failed"
                              ELSE IF importer.state = "canceling" THEN "canceled" ELSE "completed"]
  /\ UNCHANGED <<rows, indexed>> /\ ImportOnly

RequestCancel(i) ==
  IF i.state \in {"running", "canceling"}
  THEN [i EXCEPT !.state = "canceling", !.stop = TRUE] ELSE i

CancelRequested ==
  /\ EventLoop /\ ui.import_active
  /\ importer' = RequestCancel(importer)
  /\ UNCHANGED <<rows, indexed, workspace, panels, ui, app>>

\* The last poll shows the outcome, which nothing reads after it.
ImportTick ==
  /\ EventLoop /\ ui.timer /\ ~ImportActive
  /\ importer' = NoImport
  /\ ui' = [ui EXCEPT !.timer = FALSE, !.import_active = FALSE]
  /\ browser' = LoadInitial(browser)
  /\ search' = RefreshIfAuto(Invalidate(search), browser', board)
  /\ UNCHANGED <<rows, indexed, workspace, board, app>>

-----------------------------------------------------------------------------
(* Leaving main: the timer goes, then runner, search, browser, importer, service. *)

\* What the panels show is not read again, and forgotten here.
Quit ==
  /\ EventLoop
  /\ app' = "runner" /\ ui' = [ui EXCEPT !.timer = FALSE, !.import_active = FALSE]
  /\ browser' = [DetachedBrowser EXCEPT !.db = browser.db, !.job = browser.job]
  /\ search' = [DetachedSearch EXCEPT !.db = search.db, !.job = search.job]
  /\ board' = NoBoard
  /\ UNCHANGED <<rows, indexed, workspace, importer>>

\* Seeded faults of RunnerJoined and ImporterJoined: the join waits for the completion
\* on the event loop; no join at all.
RunnerAwaitsCompletion ==
  /\ app = "runner" /\ ws.stage = "idle" /\ app' = "search"
  /\ UNCHANGED <<rows, indexed, workspace, panels, importer, ui>>
ImporterNotJoined ==
  /\ app = "importer"
  /\ app' = "closed" /\ active' = NoDatabase
  /\ rows' = [rows EXCEPT !.scratch = Missing] /\ indexed' = FALSE
  /\ UNCHANGED <<config, saved, ws, panels, importer, ui>>

RunnerJoined ==
  /\ app = "runner" /\ ws.stage \in {"idle", "ready"}
  /\ app' = "search" /\ ws' = [ws EXCEPT !.stage = "idle"]
  /\ UNCHANGED <<rows, indexed, active, config, saved, panels, importer, ui>>

SearchJoined ==
  /\ app = "search" /\ ~Running(search)
  /\ app' = "browser" /\ search' = DetachedSearch
  /\ UNCHANGED <<rows, indexed, workspace, browser, board, importer, ui>>

BrowserJoined ==
  /\ app = "browser" /\ ~Running(browser)
  /\ app' = "importer" /\ browser' = DetachedBrowser /\ importer' = RequestCancel(importer)
  /\ UNCHANGED <<rows, indexed, workspace, board, search, ui>>

ImporterJoined ==
  /\ app = "importer" /\ importer.work = "none"
  /\ app' = "closed" /\ active' = NoDatabase
  /\ rows' = [rows EXCEPT !.scratch = Missing] /\ indexed' = FALSE
  /\ UNCHANGED <<config, saved, ws, panels, importer, ui>>

-----------------------------------------------------------------------------
UserStep ==
  \/ \E op \in {"create", "open", "scratch"} : RequestWorkspace(op)
  \/ Close \/ ToggleNotation
  \/ \E filter \in Filters : FiltersChanged(filter)
  \/ PageRequested \/ SortRequested \/ GameSelected \/ MoveSelection \/ ActivateRequested
  \/ BoardNavigated \/ SearchRequested \/ AutoSearchToggled \/ SearchPageRequested \/ MatchActivated
  \/ ImportRequested \/ CancelRequested \/ Quit

WorkspaceWorker == CreateDatabase \/ OpenDatabase \/ ActivateScratch \/ PersistWorkspace
ImportWorker == ImportBegins \/ ImportGame \/ ImportIngested \/ ImportRebuilds \/ ImportFinishes
Completion ==
  \/ WorkspaceDone \/ BrowserQueryDone \/ ActivationDone \/ SearchDone
  \/ ImportPublished \/ ImportTick
Destructor == RunnerJoined \/ SearchJoined \/ BrowserJoined \/ ImporterJoined

Next ==
  \/ UserStep \/ WorkspaceWorker \/ BrowserRead \/ SearchRead \/ ImportWorker
  \/ Completion \/ Destructor

Spec == Init /\ [][Next]_vars

\* The scheduler runs every thread, and the event loop every posted completion,
\* every expired timer and, once left, the destructors.
Fairness ==
  /\ WF_vars(WorkspaceWorker) /\ WF_vars(BrowserRead) /\ WF_vars(SearchRead) /\ WF_vars(ImportWorker)
  /\ WF_vars(WorkspaceDone) /\ WF_vars(BrowserQueryDone \/ ActivationDone) /\ WF_vars(SearchDone)
  /\ WF_vars(ImportPublished) /\ WF_vars(ImportTick) /\ WF_vars(Destructor)

FairSpec == Spec /\ Fairness

-----------------------------------------------------------------------------
\* Nothing is imported between the last poll of a finished import and the next one.
Settled == app = "running" /\ ~ui.timer /\ ~ui.publishing

TypeOK ==
  /\ (\A db \in DOMAIN rows : rows[db] \in Missing..MaxGames[db]) /\ indexed \in BOOLEAN
  /\ active \in {"file", "scratch", NoDatabase} /\ config \in BOOLEAN /\ saved \in BOOLEAN
  /\ ws.stage \in {"idle", "database", "config", "ready"}
  /\ browser.row \in NoRow..Len(browser.games) /\ board.ply \in 0..TotalPlies(board)
  /\ importer.work \in {"none", "start", "ingest", "rebuild", "returned", "error"}

\* A worker reads or writes only the database that is active while it does, also
\* while the window closes: the panels' presenters and the pipeline hold plain
\* references into workspace_service, and nothing but the busy checks of the
\* callbacks and the order of main's locals keeps them alive.
WorkersUseLiveDatabase ==
  /\ Running(browser) => browser.db = active /\ active # NoDatabase
  /\ Running(search) => search.db = active /\ active # NoDatabase
  /\ importer.work # "none" => importer.db = active /\ active # NoDatabase

\* No panel reads the database while an import writes it: the callbacks check
\* importer.active(), the import callback checks every panel, and the timer asks
\* for new pages only once the import has ended.
QueriesExcludeImport ==
  importer.work # "none" => ~Running(browser) /\ ~Running(search) /\ ws.stage = "idle"

\* Once the newest list query has been applied, the list is the page that was asked
\* for under the filter now set, as the database holds it: a late answer to an
\* older query is dropped, and the end of an import reloads the list.
ListFresh ==
  Settled /\ browser.db # NoDatabase /\ browser.fresh =>
    /\ browser.page = browser.asked
    /\ [games |-> browser.games, total |-> browser.total] = Answer(rows[active], browser.filter, browser.page)

\* With auto-search on since the last search, results on show are those of the
\* board's position and the browser's filter, as the database holds them: neither
\* the starting position's cache nor a late answer shows games of another time.
SearchFresh ==
  Settled /\ search.db # NoDatabase /\ search.auto /\ ~search.behind /\ search.shown =>
    /\ search.hash = Hash(board) /\ search.filter = browser.filter
    /\ [games |-> search.games, total |-> search.total] = Answer(rows[active], search.filter, search.page)

\* What the window shows of an import that ended, whenever the cancel came: it is
\* completed only if nobody asked it to stop and the postings are published again,
\* with every game of the file unless stage2 had an error that the end of the file
\* replaced; it is canceled only if it was asked to stop, and failed only if a call did.
ImportOutcome ==
  [][importer.work # "none" /\ importer'.work = "none" =>
       /\ importer'.state = "completed" =>
            ~importer.stop /\ indexed /\ (importer.left = 0 \/ importer.fault)
       /\ importer'.state = "canceled" => importer.stop
       /\ importer'.state = "failed" => importer.fault]_vars

\* What a test says: import_service reports asynchronous pipeline failures.
FailuresReported ==
  [][importer.work # "none" /\ importer'.work = "none" /\ importer.fault =>
       importer'.state = "failed"]_vars

\* Between two workspace operations the recent list, in memory and on disk, names
\* the bundle exactly if it exists: a configuration that cannot be saved takes the
\* bundle just created with it, and leaves one that was opened alone.
RecentIsWhole ==
  ws.stage # "config" => config = saved /\ (config <=> rows.file # Missing)

\* A search ends, in results or in an error, unless the window closes first.
SearchEnds == search.searching /\ app = "running" ~> ~search.searching \/ app # "running"

\* An import ends, canceled or not, and the window is told.
ImportEnds == ImportActive /\ app = "running" ~> ~ImportActive /\ (~ui.import_active \/ app # "running")

\* Closing the window ends the process, whatever its threads are doing.
QuitEnds == app = "runner" ~> app = "closed"

=============================================================================
