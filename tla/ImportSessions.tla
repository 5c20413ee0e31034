--------------------------- MODULE ImportSessions ---------------------------
(***************************************************************************)
(* The import sessions of the HTTP server.                                 *)
(*                                                                         *)
(* Request handlers enter a session, start its worker thread outside any   *)
(* lock and then register it; the worker imports under database_mutex,     *)
(* records the outcome and sets done; a progress stream polls; the next      *)
(* import joins finished workers and evicts old sessions.  An action is    *)
(* one section under sessions_mutex, or one store of the worker that       *)
(* another thread can see.                                                 *)
(*                                                                         *)
(* The pipeline itself is ImportPipeline's; here it ends in a summary (of  *)
(* a whole or of a stopped import) or in an error.                         *)
(***************************************************************************)
EXTENDS Integers, Sequences, FiniteSets, SequencesExt

CONSTANTS
  Handlers,              \* threads that handle requests
  MaxImports,            \* bound: sessions ever entered
  MaxCompletedSessions   \* max_completed_sessions, 64 in the code

ASSUME ImportSessionsAssumption ==
  /\ IsFiniteSet(Handlers)
  /\ MaxImports \in Nat /\ MaxCompletedSessions \in Nat

Ids == 1..MaxImports

VARIABLES
  server,                 \* "up", "stopping", "down"
  issued,                 \* sessions entered so far; the last one's id
  handler,                \* [at, id] of every request handler
  sessions,               \* ids in the map
  import_workers, completed_session_ids,
  upload,                 \* ids that came by /api/imports/upload
  temp_files,             \* ids whose uploaded file exists
  worker,                 \* the worker thread of an id
  database_mutex,         \* the id whose worker holds it, or 0
  stop_requested, summary, failed, done,
  stream                  \* [at, id]: a client's progress stream

map     == <<issued, sessions, import_workers, completed_session_ids>>
session == <<stop_requested, summary, failed, done>>
vars    == <<server, handler, map, upload, temp_files, worker, database_mutex, session, stream>>

Idle == [at |-> "idle", id |-> 0]

Init ==
  /\ server = "up" /\ issued = 0
  /\ handler = [h \in Handlers |-> Idle]
  /\ sessions = {} /\ import_workers = <<>> /\ completed_session_ids = <<>>
  /\ upload = {} /\ temp_files = {}
  /\ worker = [i \in Ids |-> "none"] /\ database_mutex = 0
  /\ stop_requested = [i \in Ids |-> FALSE] /\ summary = [i \in Ids |-> "none"]
  /\ failed = [i \in Ids |-> FALSE] /\ done = [i \in Ids |-> FALSE]
  /\ stream = [at |-> "none", id |-> 0]

-----------------------------------------------------------------------------
(* POST /api/imports and /api/imports/upload. *)

\* The elements of s that are in T, in their order.
Kept(s, T) ==
  LET pick[i \in 0..Len(s)] ==
        IF i = 0 THEN <<>>
        ELSE IF s[i] \in T THEN Append(pick[i - 1], s[i]) ELSE pick[i - 1]
  IN  pick[Len(s)]

DoneSessions == {i \in sessions : done[i]}

Finished == Kept(import_workers, DoneSessions)

\* Seeded fault of Evicted: the cap counts nothing as too many.
EvictedNone == 0

\* How many of the oldest completed sessions are beyond the cap.
Evicted ==
  LET n == Len(completed_session_ids \o Finished)
  IN  IF n > MaxCompletedSessions THEN n - MaxCompletedSessions ELSE 0

\* The map after prune_completed().
Pruned ==
  LET completed == completed_session_ids \o Finished
  IN  [workers   |-> Kept(import_workers, Ids \ DoneSessions),
       completed |-> SubSeq(completed, Evicted + 1, Len(completed)),
       sessions  |-> sessions \ ToSet(SubSeq(completed, 1, Evicted))]

\* Seeded fault of ActiveImport: only registered workers are looked at.
ActiveRegistered == \E i \in ToSet(import_workers) : ~done[i]

ActiveImport == \E i \in Pruned.sessions : ~done[i]

\* prune_completed(), which joins the finished workers while it holds the lock; then
\* 409 while an import is active, else a new session.
Post(h) ==
  /\ server = "up" /\ handler[h] = Idle
  /\ \A i \in ToSet(Finished) : worker[i] = "exited"
  /\ import_workers' = Pruned.workers /\ completed_session_ids' = Pruned.completed
  /\ \/ /\ ActiveImport
        /\ sessions' = Pruned.sessions
        /\ UNCHANGED <<issued, handler, upload>>
     \/ /\ ~ActiveImport /\ issued < MaxImports
        /\ issued' = issued + 1
        /\ sessions' = Pruned.sessions \cup {issued'}
        /\ \/ handler' = [handler EXCEPT ![h] = [at |-> "start", id |-> issued']] /\ UNCHANGED upload
           \/ /\ handler' = [handler EXCEPT ![h] = [at |-> "write", id |-> issued']]
              /\ upload' = upload \cup {issued'}
  /\ UNCHANGED <<server, temp_files, worker, database_mutex, session, stream>>

\* An uploaded file is written to the temporary directory; if it cannot be, it is
\* removed, the session is erased and the answer is 500.
WriteTemp(h) ==
  /\ handler[h].at = "write"
  /\ \/ /\ temp_files' = temp_files \cup {handler[h].id}
        /\ handler' = [handler EXCEPT ![h].at = "start"]
        /\ UNCHANGED sessions
     \/ /\ sessions' = sessions \ {handler[h].id}
        /\ handler' = [handler EXCEPT ![h] = Idle]
        /\ UNCHANGED temp_files
  /\ UNCHANGED <<server, issued, import_workers, completed_session_ids, upload, worker,
                 database_mutex, session, stream>>

\* Seeded fault of StartFails: the session stays in the map.
StartFailsForgetting(h) ==
  /\ handler[h].at = "start"
  /\ temp_files' = temp_files \ {handler[h].id}
  /\ handler' = [handler EXCEPT ![h] = Idle]
  /\ UNCHANGED <<server, map, upload, worker, database_mutex, session, stream>>

\* std::system_error: no thread; the session and the temporary file are removed.
StartFails(h) ==
  /\ handler[h].at = "start"
  /\ temp_files' = temp_files \ {handler[h].id}
  /\ sessions' = sessions \ {handler[h].id}
  /\ handler' = [handler EXCEPT ![h] = Idle]
  /\ UNCHANGED <<server, issued, import_workers, completed_session_ids, upload, worker,
                 database_mutex, session, stream>>

StartWorker(h) ==
  /\ handler[h].at = "start"
  /\ worker' = [worker EXCEPT ![handler[h].id] = "wait"]
  /\ handler' = [handler EXCEPT ![h].at = "register"]
  /\ UNCHANGED <<server, map, upload, temp_files, database_mutex, session, stream>>

\* Seeded fault of Register: the thread is detached.
RegisterNothing(h) ==
  /\ handler[h].at = "register"
  /\ handler' = [handler EXCEPT ![h] = Idle]
  /\ UNCHANGED <<server, map, upload, temp_files, worker, database_mutex, session, stream>>

\* The worker is registered, whatever it has done by then, and the answer is 202.
Register(h) ==
  /\ handler[h].at = "register"
  /\ import_workers' = Append(import_workers, handler[h].id)
  /\ handler' = [handler EXCEPT ![h] = Idle]
  /\ UNCHANGED <<server, issued, sessions, completed_session_ids, upload, temp_files, worker,
                 database_mutex, session, stream>>

-----------------------------------------------------------------------------
(* The worker thread. *)

\* Seeded fault of BeginImport: a run clears the stop flag.
BeginImportAfresh(i) ==
  /\ worker[i] = "wait" /\ database_mutex = 0
  /\ database_mutex' = i /\ worker' = [worker EXCEPT ![i] = "ingest"]
  /\ stop_requested' = [stop_requested EXCEPT ![i] = FALSE]
  /\ UNCHANGED <<server, handler, map, upload, temp_files, summary, failed, done, stream>>

\* pipeline->run() begins, and leaves a stop requested earlier in force.
BeginImport(i) ==
  /\ worker[i] = "wait" /\ database_mutex = 0
  /\ database_mutex' = i /\ worker' = [worker EXCEPT ![i] = "ingest"]
  /\ UNCHANGED <<server, handler, map, upload, temp_files, session, stream>>

\* The games are read, unless a stop is seen at the first of them.
Ingest(i) ==
  /\ worker[i] = "ingest" /\ ~stop_requested[i]
  /\ worker' = [worker EXCEPT ![i] = "finish"]
  /\ UNCHANGED <<server, handler, map, upload, temp_files, database_mutex, session, stream>>

\* run() returns: an error (or, for an upload, an exception) or a summary, which
\* is a stopped import's if a stop was seen on the way.
StoreOutcome(i) ==
  /\ worker[i] \in {"ingest", "finish"}
  /\ \/ failed' = [failed EXCEPT ![i] = TRUE] /\ UNCHANGED summary
     \/ /\ stop_requested[i]
        /\ summary' = [summary EXCEPT ![i] = "stopped"] /\ UNCHANGED failed
     \/ /\ worker[i] = "finish"
        /\ summary' = [summary EXCEPT ![i] = "whole"] /\ UNCHANGED failed
  /\ worker' = [worker EXCEPT ![i] = "stored"]
  /\ UNCHANGED <<server, handler, map, upload, temp_files, database_mutex, stop_requested, done, stream>>

\* An upload's worker releases database_mutex and removes its file before it is done.
CleanUp(i) ==
  /\ worker[i] = "stored" /\ i \in upload
  /\ temp_files' = temp_files \ {i} /\ database_mutex' = 0
  /\ worker' = [worker EXCEPT ![i] = "cleaned"]
  /\ UNCHANGED <<server, handler, map, upload, session, stream>>

\* Seeded fault of SetDone: done before the outcome is recorded.
SetDoneEarly(i) ==
  /\ worker[i] = "finish" /\ ~done[i]
  /\ done' = [done EXCEPT ![i] = TRUE]
  /\ UNCHANGED <<server, handler, map, upload, temp_files, worker, database_mutex, stop_requested,
                 summary, failed, stream>>

SetDone(i) ==
  /\ worker[i] = IF i \in upload THEN "cleaned" ELSE "stored"
  /\ done' = [done EXCEPT ![i] = TRUE] /\ worker' = [worker EXCEPT ![i] = "done"]
  /\ UNCHANGED <<server, handler, map, upload, temp_files, database_mutex, stop_requested, summary,
                 failed, stream>>

\* The other worker holds database_mutex until it returns.
Exit(i) ==
  /\ worker[i] = "done"
  /\ worker' = [worker EXCEPT ![i] = "exited"]
  /\ database_mutex' = IF database_mutex = i THEN 0 ELSE database_mutex
  /\ UNCHANGED <<server, handler, map, upload, temp_files, session, stream>>

-----------------------------------------------------------------------------
(* GET .../progress, DELETE, and the server's destructor. *)

Connect(i) ==
  /\ server = "up" /\ i \in sessions /\ stream.at = "none"
  /\ stream' = [at |-> "open", id |-> i]
  /\ UNCHANGED <<server, handler, map, upload, temp_files, worker, database_mutex, session>>

\* The content provider, at a poll that finds the session done.
Provide(i) ==
  /\ server = "up" /\ stream = [at |-> "open", id |-> i] /\ done[i]
  /\ stream' = [stream EXCEPT !.at = IF failed[i] THEN "error" ELSE "complete"]
  /\ UNCHANGED <<server, handler, map, upload, temp_files, worker, database_mutex, session>>

\* A poll that finds it running: the client is gone, or has waited sse_max_wait.
EndEarly(i) ==
  /\ server = "up" /\ stream = [at |-> "open", id |-> i] /\ ~done[i]
  /\ stream' \in {[at |-> "none", id |-> 0], [stream EXCEPT !.at = "timeout"]}
  /\ UNCHANGED <<server, handler, map, upload, temp_files, worker, database_mutex, session>>

\* (Once the session is done nobody reads the flag.)
Cancel(i) ==
  /\ server = "up" /\ i \in sessions /\ ~done[i]
  /\ stop_requested' = [stop_requested EXCEPT ![i] = TRUE]
  /\ UNCHANGED <<server, handler, map, upload, temp_files, worker, database_mutex, summary, failed,
                 done, stream>>

\* ~impl(), once the request handlers have returned: every import that is not
\* done is told to stop ...
Shutdown ==
  /\ server = "up" /\ \A h \in Handlers : handler[h] = Idle
  /\ server' = "stopping"
  /\ stop_requested' = [i \in Ids |-> stop_requested[i] \/ (i \in sessions /\ ~done[i])]
  /\ UNCHANGED <<handler, map, upload, temp_files, worker, database_mutex, summary, failed, done,
                 stream>>

\* ... and every registered worker joined.
JoinWorkers ==
  /\ server = "stopping" /\ \A i \in ToSet(import_workers) : worker[i] = "exited"
  /\ server' = "down" /\ import_workers' = <<>>
  /\ UNCHANGED <<handler, issued, sessions, completed_session_ids, upload, temp_files, worker,
                 database_mutex, session, stream>>

-----------------------------------------------------------------------------
Handle(h) == WriteTemp(h) \/ StartFails(h) \/ StartWorker(h) \/ Register(h)

Work(i) ==
  BeginImport(i) \/ Ingest(i) \/ StoreOutcome(i) \/ CleanUp(i) \/ SetDone(i) \/ Exit(i)

Next ==
  \/ \E h \in Handlers : Post(h) \/ Handle(h)
  \/ \E i \in Ids : Work(i) \/ Connect(i) \/ Provide(i) \/ EndEarly(i) \/ Cancel(i)
  \/ Shutdown \/ JoinWorkers

Spec == Init /\ [][Next]_vars

\* Handlers and workers run; and run() returns.
FairSpec ==
  /\ Spec
  /\ \A h \in Handlers : WF_vars(Handle(h))
  /\ \A i \in Ids : WF_vars(Work(i)) /\ WF_vars(Provide(i))
  /\ WF_vars(JoinWorkers)

-----------------------------------------------------------------------------
(* Properties. *)

Working == {i \in Ids : worker[i] \notin {"none", "done", "exited"}}

Held == {handler[h].id : h \in Handlers} \ {0}

\* At most one import is under way or about to start, although its worker is
\* entered in import_workers only after it runs: the check and the new
\* session are one section over sessions, not over the workers.
OneActiveImport ==
  Cardinality(Working \cup {i \in Held : worker[i] = "none"}) <= 1

\* A progress stream reports success only of an import that ended with a
\* summary, and failure only of one that failed: done is the last thing the
\* worker stores.
StreamTellsOutcome ==
  /\ stream.at = "complete" => summary[stream.id] # "none" /\ ~failed[stream.id]
  /\ stream.at = "error" => failed[stream.id] /\ summary[stream.id] = "none"

\* Beyond the cap, the map holds only sessions a handler has in hand or a
\* registered worker, and there are no more of those than handlers: slow
\* registrations never let sessions pile up, and none is forgotten by eviction.
SessionsBounded == server # "down" =>
  /\ Cardinality(sessions \ (Held \cup ToSet(import_workers))) <= MaxCompletedSessions
  /\ Cardinality(Held \cup ToSet(import_workers)) <= Cardinality(Handlers)

\* No import thread is left when the server, whose members it uses, is gone.
NoWorkerOutlivesServer ==
  server = "down" => \A i \in Ids : worker[i] \in {"none", "exited"}

\* A cancellation accepted while the worker still waits for the database is
\* not forgotten when the import begins: such an import never runs to its end.
EarlyCancelHolds ==
  \A i \in Ids : []((stop_requested[i] /\ worker[i] = "wait") => [](summary[i] # "whole"))

\* Every session that is entered is erased or done in the end, so a failed
\* start never answers later imports with 409 for good.
SessionsEnd == \A i \in Ids : (i \in sessions) ~> (i \notin sessions \/ done[i])
=============================================================================
