--------------------------- MODULE DesktopProofs ---------------------------
(***************************************************************************)
(* Safety of Desktop for every number of games, page size and length of    *)
(* game: who may touch the database when, and what the panels show.        *)
(***************************************************************************)
EXTENDS Desktop, TLAPS

-----------------------------------------------------------------------------
(* The inductive invariant: the shape of a panel and what its jobs hold ... *)

QueryFields   == {"kind", "latest", "stage", "filter", "hash", "page", "ok", "found"}
LoadFields    == {"kind", "latest", "stage", "game", "ply", "ok"}
BrowserFields == {"db", "filter", "asked", "fresh", "page", "games", "total", "selected", "row",
                  "job", "pending"}
SearchFields  == {"db", "auto", "last", "hash", "filter", "page", "games", "total", "searching",
                  "shown", "cache", "behind", "job", "pending"}

IsQuery(j) == j.kind = "query" /\ DOMAIN j = QueryFields /\ j.page \in Nat
IsLoad(j)  == j.kind \in {"row", "match"} /\ DOMAIN j = LoadFields
IsJob(j)   == j = NoJob \/ IsQuery(j) \/ IsLoad(j)

\* A query that waits has not run.
IsPending(j) == j = NoJob \/ (IsQuery(j) /\ j.stage = "running")

\* What a query that has run found is what n games answer.
Found(j, n) ==
  j.kind = "query" /\ j.stage # "running" /\ j.ok => j.found = Answer(n, j.filter, j.page)

\* A query of the current generation asks for the browser's filter and page ...
Asks(b, j) == j.kind = "query" /\ j.latest => j.filter = b.filter /\ j.page = b.asked

BrowserInv(b, n) ==
  /\ DOMAIN b = BrowserFields /\ IsJob(b.job) /\ IsPending(b.pending)
  /\ b.db = NoDatabase => b.job = NoJob
  /\ b.job = NoJob => b.pending = NoJob
  /\ b.job.kind = "query" /\ b.job.latest => ~b.pending.latest
  /\ Asks(b, b.job) /\ Asks(b, b.pending) /\ Found(b.job, n)
  /\ b.page \in Nat /\ b.asked \in Nat
  /\ b.fresh => b.page = b.asked

\* ... and the list, once fresh, is the answer of n games.
ListHolds(b, n) ==
  b.fresh => [games |-> b.games, total |-> b.total] = Answer(n, b.filter, b.page)

\* The search's queries of the current generation are of its position and filter.
Of(s, j) == j.kind = "query" /\ j.latest => j.filter = s.filter /\ j.hash = s.hash

SearchInv(s, n) ==
  /\ DOMAIN s = SearchFields /\ (s.job = NoJob \/ IsQuery(s.job)) /\ IsPending(s.pending)
  /\ s.db = NoDatabase => s.job = NoJob
  /\ s.job = NoJob => s.pending = NoJob
  /\ Of(s, s.job) /\ Of(s, s.pending) /\ Found(s.job, n)
  /\ s.page \in Nat
  /\ s.auto \/ s.behind

\* With auto-search on and no change missed, the search is of the board's position
\* and the browser's filter.
Follows(s, filter, hash) ==
  s.db # NoDatabase /\ s.auto /\ ~s.behind => s.last = hash /\ s.hash = hash /\ s.filter = filter

\* The results on show, and the cached ones, are the answers of n games.
Shows(s, n) ==
  s.shown => [games |-> s.games, total |-> s.total] = Answer(n, s.filter, s.page)
CacheHolds(s, n) ==
  s.cache = NoCache \/ s.cache.found = Answer(n, "all", s.cache.page)

\* What the search shows under auto-search.
ResultsHold(s, n) == CacheHolds(s, n) /\ (s.auto /\ ~s.behind => Shows(s, n))

LEMMA JobShape ==
  ASSUME NEW j, IsJob(j)
  PROVE  /\ {"kind", "latest", "stage"} \subseteq DOMAIN j
         /\ j = NoJob <=> j.kind = "none"
         /\ IsQuery(j) <=> j.kind = "query"
BY DEF IsJob, IsQuery, IsLoad, NoJob, QueryFields, LoadFields

LEMMA PendingIsJob ==
  ASSUME NEW j, IsPending(j) PROVE IsJob(j) /\ (j.kind = "query" => j.stage = "running") /\ (j = NoJob \/ IsQuery(j))
BY DEF IsPending, IsJob, IsQuery, NoJob

LEMMA QueryJobShape ==
  ASSUME NEW filter, NEW hash, NEW page \in Nat, NEW j, j = QueryJob(filter, hash, page)
  PROVE  /\ IsQuery(j) /\ IsPending(j) /\ IsJob(j) /\ j # NoJob
         /\ j.stage = "running" /\ j.filter = filter /\ j.hash = hash /\ j.page = page /\ j.latest
BY DEF QueryJob, IsQuery, IsPending, IsJob, QueryFields, NoJob

\* Making a job's generation an old one leaves the job what it was.
Aged(j, v) == [j EXCEPT !.latest = v]

LEMMA AgedJob ==
  ASSUME NEW j, IsJob(j), NEW v \in BOOLEAN, j = NoJob => ~v, NEW k, k = Aged(j, v)
  PROVE  /\ IsJob(k) /\ k.kind = j.kind /\ k.stage = j.stage /\ k.latest = v
         /\ j = NoJob <=> k = NoJob
         /\ IsQuery(j) => IsQuery(k) /\ k.filter = j.filter /\ k.page = j.page /\ k.hash = j.hash
                          /\ k.ok = j.ok /\ k.found = j.found
         /\ IsPending(j) => IsPending(k)
<1>1. DOMAIN k = DOMAIN j /\ k.kind = j.kind /\ k.stage = j.stage /\ k.latest = v
  BY JobShape DEF Aged
<1>2. CASE j = NoJob
  BY <1>1, <1>2 DEF Aged, NoJob, IsJob, IsQuery, IsPending
<1>3. CASE IsQuery(j)
  BY <1>1, <1>3 DEF Aged, IsQuery, IsJob, IsPending, QueryFields, NoJob
<1>4. CASE IsLoad(j)
  BY <1>1, <1>4 DEF Aged, IsQuery, IsLoad, IsJob, IsPending, LoadFields, NoJob
<1> QED
  BY <1>2, <1>3, <1>4 DEF IsJob

\* next_generation: no query of the panel is of the current generation any more.
LEMMA NextGenerationJobs ==
  ASSUME NEW r, {"job", "pending"} \subseteq DOMAIN r, IsJob(r.job), IsPending(r.pending),
         NEW q, q = NextGeneration(r)
  PROVE  /\ DOMAIN q = DOMAIN r /\ IsJob(q.job) /\ IsPending(q.pending)
         /\ q.job.kind = r.job.kind /\ q.job.stage = r.job.stage
         /\ q.job = NoJob <=> r.job = NoJob
         /\ IsQuery(r.job) => /\ IsQuery(q.job) /\ ~q.job.latest
                              /\ q.job.filter = r.job.filter /\ q.job.page = r.job.page
                              /\ q.job.ok = r.job.ok /\ q.job.found = r.job.found
         /\ ~q.pending.latest
         /\ q.pending = NoJob <=> r.pending = NoJob
<1>1. /\ DOMAIN q = DOMAIN r
      /\ q.job = [r.job EXCEPT !.latest = @ /\ r.job.kind # "query"]
      /\ q.pending = Aged(r.pending, FALSE)
  BY DEF NextGeneration, Aged
<1> DEFINE v == r.job.latest /\ r.job.kind # "query"
           w == FALSE
<1>2. v \in BOOLEAN /\ (r.job = NoJob => ~v) /\ q.job = Aged(r.job, v)
  BY <1>1 DEF NoJob, Aged
<1>3. IsJob(r.pending)
  BY PendingIsJob
<1>4. IsQuery(r.job) => ~v
  BY DEF IsQuery
<1>w. w \in BOOLEAN /\ ~w /\ q.pending = Aged(r.pending, w)
  BY <1>1
<1> HIDE DEF v, w
<1>5. /\ IsJob(q.job) /\ q.job.kind = r.job.kind /\ q.job.stage = r.job.stage /\ q.job.latest = v
      /\ r.job = NoJob <=> q.job = NoJob
      /\ IsQuery(r.job) => IsQuery(q.job) /\ q.job.filter = r.job.filter /\ q.job.page = r.job.page
                          /\ q.job.ok = r.job.ok /\ q.job.found = r.job.found
  BY <1>2, AgedJob
<1>6. IsPending(q.pending) /\ q.pending.latest = w /\ (r.pending = NoJob <=> q.pending = NoJob)
  BY <1>w, <1>3, AgedJob
<1> QED
  BY <1>1, <1>w, <1>4, <1>5, <1>6

(* ... of the browser's operations, each of which keeps it. *)

LEMMA NoJobShape ==
  IsJob(NoJob) /\ IsPending(NoJob) /\ NoJob.kind = "none" /\ NoJob.stage = "done" /\ NoJob.latest = FALSE
BY DEF IsJob, IsPending, NoJob

LEMMA NoJobAged == Aged(NoJob, FALSE) = NoJob
<1> DEFINE w == FALSE
<1>1. w \in BOOLEAN /\ ~w
  OBVIOUS
<1> HIDE DEF w
<1>2. Aged(NoJob, w) = NoJob
  BY <1>1, AgedJob, NoJobShape
<1> QED
  BY <1>2 DEF w

LEMMA DetachedBrowserInv ==
  ASSUME NEW n PROVE BrowserInv(DetachedBrowser, n) /\ ListHolds(DetachedBrowser, n)
<1> DEFINE a == DetachedBrowser
<1>1. /\ DOMAIN a = BrowserFields /\ a.job = NoJob /\ a.pending = NoJob
      /\ a.fresh = FALSE /\ a.page = 0 /\ a.asked = 0
  BY DEF DetachedBrowser, BrowserFields
<1> HIDE DEF a
<1>2. BrowserInv(a, n) /\ ListHolds(a, n)
  BY <1>1, NoJobShape DEF BrowserInv, Asks, Found, ListHolds
<1> QED
  BY <1>2 DEF a

\* A panel without a job may change its database.
LEMMA AttachBrowserInv ==
  ASSUME NEW b, b.job = NoJob, NEW db, NEW n
  PROVE  /\ BrowserInv(AttachBrowser(b, db), n) /\ ListHolds(AttachBrowser(b, db), n)
         /\ AttachBrowser(b, db).db = db /\ AttachBrowser(b, db).filter = "all"
         /\ AttachBrowser(b, db).job = NoJob
<1>1. [b.job EXCEPT !.latest = FALSE] = NoJob
  BY NoJobAged DEF Aged
<1> DEFINE a == AttachBrowser(b, db)
<1>2. /\ DOMAIN a = BrowserFields /\ a.db = db /\ a.filter = "all" /\ a.job = NoJob /\ a.pending = NoJob
      /\ a.fresh = FALSE /\ a.page = 0 /\ a.asked = 0
  BY <1>1 DEF AttachBrowser, DetachedBrowser, BrowserFields
<1> HIDE DEF a
<1>3. BrowserInv(a, n) /\ ListHolds(a, n)
  BY <1>2, NoJobShape DEF BrowserInv, Asks, Found, ListHolds
<1> QED
  BY <1>2, <1>3 DEF a

LEMMA MakeQueryInv ==
  ASSUME NEW b, NEW n, BrowserInv(b, n), b.db # NoDatabase, NEW page \in Nat,
         NEW q, q = MakeQuery(b, page)
  PROVE  /\ BrowserInv(q, n) /\ ListHolds(q, n)
         /\ q.db = b.db /\ q.filter = b.filter
<1> DEFINE g == NextGeneration(b)
           j == QueryJob(b.filter, Start, page)
           a == [g EXCEPT !.asked = page, !.fresh = FALSE]
<1>1. /\ DOMAIN g = BrowserFields /\ IsJob(g.job) /\ IsPending(g.pending)
      /\ g.job.kind = b.job.kind /\ g.job.stage = b.job.stage
      /\ IsQuery(b.job) => /\ IsQuery(g.job) /\ ~g.job.latest
                           /\ g.job.filter = b.job.filter /\ g.job.page = b.job.page
                           /\ g.job.ok = b.job.ok /\ g.job.found = b.job.found
      /\ ~g.pending.latest
  BY NextGenerationJobs DEF BrowserInv, BrowserFields
<1>2. g.db = b.db /\ g.filter = b.filter /\ g.page = b.page
  BY DEF BrowserInv, BrowserFields, NextGeneration
<1> HIDE DEF g
<1>3. /\ DOMAIN a = BrowserFields /\ a.db = b.db /\ a.filter = b.filter /\ a.asked = page
      /\ a.fresh = FALSE /\ a.job = g.job /\ a.pending = g.pending /\ a.page = b.page
  BY <1>1, <1>2 DEF BrowserFields
<1>4. /\ IsJob(j) /\ IsPending(j) /\ j # NoJob
      /\ j.stage = "running" /\ j.filter = b.filter /\ j.page = page
  BY QueryJobShape
<1>5. q = RunQuery(a, j)
  BY DEF MakeQuery, g
<1> HIDE DEF a, j
<1>6. Found(g.job, n) /\ (g.job.kind = "query" => ~g.job.latest)
  BY <1>1, JobShape DEF BrowserInv, Found
<1>7. CASE Busy(a)
  <2>1. /\ DOMAIN q = BrowserFields /\ q.db = b.db /\ q.filter = b.filter /\ q.asked = page
        /\ q.fresh = FALSE /\ q.job = g.job /\ q.pending = j /\ q.page = b.page
    BY <1>3, <1>5, <1>7 DEF RunQuery, BrowserFields
  <2> QED
    BY <2>1, <1>1, <1>3, <1>4, <1>6, <1>7 DEF BrowserInv, Asks, ListHolds, Busy
<1>8. CASE ~Busy(a)
  <2>1. /\ DOMAIN q = BrowserFields /\ q.db = b.db /\ q.filter = b.filter /\ q.asked = page
        /\ q.fresh = FALSE /\ q.job = j /\ q.pending = g.pending /\ q.page = b.page
    BY <1>3, <1>5, <1>8 DEF RunQuery, BrowserFields
  <2> QED
    BY <2>1, <1>1, <1>4 DEF BrowserInv, Asks, Found, ListHolds
<1> QED
  BY <1>7, <1>8

LEMMA FilterGamesInv ==
  ASSUME NEW b, NEW n, BrowserInv(b, n), b.job = NoJob, b.db # NoDatabase, NEW filter,
         NEW q, q = FilterGames(b, filter)
  PROVE  BrowserInv(q, n) /\ ListHolds(q, n) /\ q.db = b.db /\ q.filter = filter
<1> DEFINE a == [b EXCEPT !.filter = filter]
<1>1. /\ DOMAIN a = BrowserFields /\ a.db = b.db /\ a.filter = filter /\ a.asked = b.asked
      /\ a.fresh = b.fresh /\ a.page = b.page /\ a.job = NoJob /\ a.pending = NoJob
  BY DEF BrowserInv, BrowserFields
<1>2. q = MakeQuery(a, 0)
  BY DEF FilterGames
<1> HIDE DEF a
<1>3. BrowserInv(a, n)
  BY <1>1, NoJobShape DEF BrowserInv, Asks, Found
<1> QED
  BY <1>1, <1>2, <1>3, MakeQueryInv

\* A callback that leaves the queries alone.
LEMMA SelectGameInv ==
  ASSUME NEW b, NEW n, BrowserInv(b, n), NEW row, NEW q, q = SelectGame(b, row)
  PROVE  BrowserInv(q, n) /\ (ListHolds(b, n) => ListHolds(q, n)) /\ q.db = b.db /\ q.filter = b.filter
         /\ q.job = b.job
<1>1. /\ DOMAIN q = BrowserFields /\ q.db = b.db /\ q.filter = b.filter /\ q.asked = b.asked
      /\ q.fresh = b.fresh /\ q.page = b.page /\ q.games = b.games /\ q.total = b.total
      /\ q.job = b.job /\ q.pending = b.pending
  BY DEF SelectGame, BrowserInv, BrowserFields
<1> QED
  BY <1>1 DEF BrowserInv, Asks, ListHolds

LEMMA ActivateInv ==
  ASSUME NEW b, NEW n, BrowserInv(b, n), b.db # NoDatabase, NEW kind \in {"row", "match"}, NEW game, NEW ply,
         NEW q, q = Activate(b, kind, game, ply)
  PROVE  BrowserInv(q, n) /\ (ListHolds(b, n) => ListHolds(q, n)) /\ q.db = b.db /\ q.filter = b.filter
<1>1. /\ DOMAIN q = BrowserFields /\ q.db = b.db /\ q.filter = b.filter /\ q.asked = b.asked
      /\ q.fresh = b.fresh /\ q.page = b.page /\ q.games = b.games /\ q.total = b.total
      /\ q.job = LoadJob(kind, game, ply) /\ q.pending = b.pending
  BY DEF Activate, BrowserInv, BrowserFields
<1>2. IsJob(q.job) /\ q.job.kind # "query" /\ q.job # NoJob
  BY <1>1 DEF LoadJob, IsJob, IsLoad, LoadFields, NoJob
<1> QED
  BY <1>1, <1>2 DEF BrowserInv, Asks, Found, ListHolds

LEMMA AnswerIsRecord ==
  ASSUME NEW n, NEW filter, NEW page, NEW found, found = Answer(n, filter, page)
  PROVE  [games |-> found.games, total |-> found.total] = found
BY DEF Answer, PageOf

\* The completion of a query, after which the waiting one runs.  A query of an old
\* generation changes nothing that is shown.
LEMMA QueryDoneInv ==
  ASSUME NEW b, NEW n, BrowserInv(b, n), b.job.kind = "query", b.job.stage # "running",
         NEW q, q = DispatchPending(ApplyBrowserQuery(b, b.job))
  PROVE  BrowserInv(q, n) /\ (ListHolds(b, n) => ListHolds(q, n)) /\ q.db = b.db /\ q.filter = b.filter
<1> DEFINE a == ApplyBrowserQuery(b, b.job)
<1>1. b.page \in Nat /\ IsQuery(b.job) /\ b.job.page \in Nat
  BY JobShape DEF BrowserInv, IsQuery
<1>2. /\ DOMAIN a = BrowserFields /\ a.db = b.db /\ a.filter = b.filter /\ a.pending = b.pending
      /\ b.db # NoDatabase /\ b.job.latest /\ b.job.ok =>
           /\ a.page = b.job.page /\ a.games = b.job.found.games /\ a.total = b.job.found.total
           /\ a.asked = b.asked
      /\ b.db # NoDatabase /\ b.job.latest /\ ~b.job.ok =>
           a.fresh = b.fresh /\ a.asked = b.page /\ a.page = b.page /\ a.games = b.games /\ a.total = b.total
      /\ b.db = NoDatabase \/ ~b.job.latest => a = b
  BY DEF ApplyBrowserQuery, BrowserInv, BrowserFields
<1> HIDE DEF a
<1>3. /\ DOMAIN q = BrowserFields /\ q.db = a.db /\ q.filter = a.filter /\ q.asked = a.asked
      /\ q.fresh = a.fresh /\ q.page = a.page /\ q.games = a.games /\ q.total = a.total
      /\ q.job = b.pending /\ q.pending = NoJob
  BY <1>2 DEF DispatchPending, BrowserFields, a
<1>4. /\ IsJob(q.job) /\ IsPending(q.pending) /\ Found(q.job, n) /\ Asks(q, q.pending)
      /\ ~q.pending.latest
      /\ (q.db = NoDatabase => q.job = NoJob) /\ (q.job = NoJob => q.pending = NoJob)
  BY <1>2, <1>3, NoJobShape, PendingIsJob DEF BrowserInv, Found, Asks
<1>5. CASE b.db # NoDatabase /\ b.job.latest /\ b.job.ok
  <2>1. b.job.found = Answer(n, b.filter, b.job.page) /\ b.job.page = b.asked
    BY <1>5 DEF BrowserInv, Asks, Found
  <2>2. ListHolds(q, n)
    BY <1>2, <1>3, <1>5, <2>1, AnswerIsRecord DEF ListHolds
  <2>3. Asks(q, q.job) /\ q.page \in Nat /\ q.asked \in Nat /\ q.page = q.asked
    BY <1>1, <1>2, <1>3, <1>5, <2>1 DEF BrowserInv, Asks
  <2> QED
    BY <2>2, <2>3, <1>2, <1>3, <1>4 DEF BrowserInv
<1>6. CASE b.db # NoDatabase /\ b.job.latest /\ ~b.job.ok
  BY <1>1, <1>2, <1>3, <1>4, <1>6 DEF BrowserInv, Asks, ListHolds
<1>7. CASE b.db = NoDatabase \/ ~b.job.latest
  BY <1>1, <1>2, <1>3, <1>4, <1>7 DEF BrowserInv, Asks, ListHolds
<1> QED
  BY <1>5, <1>6, <1>7

LEMMA ActivationDoneInv ==
  ASSUME NEW b, NEW n, BrowserInv(b, n), NEW q, q = DispatchPending(ApplyActivation(b, b.job))
  PROVE  BrowserInv(q, n) /\ (ListHolds(b, n) => ListHolds(q, n)) /\ q.db = b.db /\ q.filter = b.filter
<1> DEFINE a == ApplyActivation(b, b.job)
<1>1. /\ DOMAIN a = BrowserFields /\ a.db = b.db /\ a.filter = b.filter /\ a.asked = b.asked
      /\ a.fresh = b.fresh /\ a.page = b.page /\ a.games = b.games /\ a.total = b.total
      /\ a.pending = b.pending
  BY DEF ApplyActivation, BrowserInv, BrowserFields
<1> HIDE DEF a
<1>2. /\ DOMAIN q = BrowserFields /\ q.db = b.db /\ q.filter = b.filter /\ q.asked = b.asked
      /\ q.fresh = b.fresh /\ q.page = b.page /\ q.games = b.games /\ q.total = b.total
      /\ q.job = b.pending /\ q.pending = NoJob
  BY <1>1 DEF DispatchPending, BrowserFields, a
<1> QED
  BY <1>2, NoJobShape, PendingIsJob DEF BrowserInv, Asks, Found, ListHolds

\* A query that has run.
Answered(j, ok, found) == [j EXCEPT !.stage = "done", !.ok = ok, !.found = found]

LEMMA AnsweredQuery ==
  ASSUME NEW j, IsQuery(j), NEW ok \in BOOLEAN, NEW found, NEW k, k = Answered(j, ok, found)
  PROVE  /\ IsQuery(k) /\ k.stage = "done" /\ k.ok = ok /\ k.found = found
         /\ k.latest = j.latest /\ k.filter = j.filter /\ k.page = j.page /\ k.hash = j.hash
BY DEF Answered, IsQuery, QueryFields

\* The worker's read of a database that holds n games.
LEMMA QueryReadInv ==
  ASSUME NEW b, NEW n, BrowserInv(b, n), IsQuery(b.job), NEW ok \in BOOLEAN,
         NEW found, ok => found = Answer(n, b.job.filter, b.job.page),
         NEW q, q = [b EXCEPT !.job = Answered(b.job, ok, found)]
  PROVE  BrowserInv(q, n) /\ (ListHolds(b, n) => ListHolds(q, n)) /\ q.db = b.db /\ q.filter = b.filter
<1>1. /\ DOMAIN q = BrowserFields /\ q.db = b.db /\ q.filter = b.filter /\ q.asked = b.asked
      /\ q.fresh = b.fresh /\ q.page = b.page /\ q.games = b.games /\ q.total = b.total
      /\ q.pending = b.pending /\ q.job = Answered(b.job, ok, found)
  BY DEF BrowserInv, BrowserFields
<1>2. /\ IsQuery(q.job) /\ q.job.latest = b.job.latest /\ q.job.stage = "done"
      /\ q.job.filter = b.job.filter /\ q.job.page = b.job.page
      /\ q.job.ok = ok /\ q.job.found = found
  BY <1>1, AnsweredQuery
<1>3. IsJob(q.job) /\ q.job # NoJob /\ Found(q.job, n) /\ b.job # NoJob
  BY <1>2, NoJobShape DEF IsJob, IsQuery, Found
<1> QED
  BY <1>1, <1>2, <1>3 DEF BrowserInv, Asks, ListHolds, IsQuery

ReadBy(b, n, ok) ==
  IF b.job.kind = "query"
  THEN [b EXCEPT !.job.stage = "done", !.job.ok = ok,
          !.job.found = IF ok THEN Answer(n, b.job.filter, b.job.page) ELSE @]
  ELSE [b EXCEPT !.job.stage = "done", !.job.ok = ok]

LEMMA BrowserReadInv ==
  ASSUME NEW b, NEW n, BrowserInv(b, n), Running(b), NEW ok \in BOOLEAN, NEW q, q = ReadBy(b, n, ok)
  PROVE  BrowserInv(q, n) /\ (ListHolds(b, n) => ListHolds(q, n)) /\ q.db = b.db /\ q.filter = b.filter
<1>1. b.job # NoJob /\ (IsQuery(b.job) \/ IsLoad(b.job))
  BY NoJobShape DEF BrowserInv, Running, IsJob
<1>2. CASE IsQuery(b.job)
  <2> DEFINE f == IF ok THEN Answer(n, b.job.filter, b.job.page) ELSE b.job.found
  <2>1. q = [b EXCEPT !.job = Answered(b.job, ok, f)]
    BY <1>2 DEF ReadBy, Answered, IsQuery, QueryFields, BrowserInv, BrowserFields
  <2>2. ok => f = Answer(n, b.job.filter, b.job.page)
    OBVIOUS
  <2> HIDE DEF f
  <2> QED
    BY <1>2, <2>1, <2>2, QueryReadInv
<1>3. CASE IsLoad(b.job)
  <2>1. q = [b EXCEPT !.job.stage = "done", !.job.ok = ok]
    BY <1>3 DEF ReadBy, IsLoad
  <2>a. q.job = [b.job EXCEPT !.stage = "done", !.ok = ok]
    BY <2>1 DEF BrowserInv, BrowserFields
  <2>2. DOMAIN q.job = LoadFields /\ q.job.kind = b.job.kind
    BY <1>3, <2>a DEF IsLoad, LoadFields
  <2>3. IsJob(q.job) /\ q.job.kind # "query" /\ q.job # NoJob
    BY <1>3, <2>2, NoJobShape DEF IsJob, IsLoad
  <2>4. /\ DOMAIN q = BrowserFields /\ q.db = b.db /\ q.filter = b.filter /\ q.asked = b.asked
        /\ q.fresh = b.fresh /\ q.page = b.page /\ q.games = b.games /\ q.total = b.total
        /\ q.pending = b.pending
    BY <2>1 DEF BrowserInv, BrowserFields
  <2> QED
    BY <1>1, <2>3, <2>4 DEF BrowserInv, Asks, Found, ListHolds
<1> QED
  BY <1>1, <1>2, <1>3

(* ... of the search's operations. *)

LEMMA DetachedSearchInv ==
  ASSUME NEW n
  PROVE  /\ SearchInv(DetachedSearch, n) /\ ResultsHold(DetachedSearch, n)
         /\ DetachedSearch.db = NoDatabase /\ DetachedSearch.job = NoJob
<1> DEFINE a == DetachedSearch
<1>1. /\ DOMAIN a = SearchFields /\ a.db = NoDatabase /\ a.job = NoJob /\ a.pending = NoJob
      /\ a.page = 0 /\ a.shown = FALSE /\ a.auto /\ ~a.behind /\ a.cache = NoCache
  BY DEF DetachedSearch, SearchFields
<1> HIDE DEF a
<1>2. SearchInv(a, n)
  BY <1>1, NoJobShape DEF SearchInv, Of, Found
<1>3. ResultsHold(a, n)
  BY <1>1 DEF ResultsHold, CacheHolds, Shows
<1> QED
  BY <1>1, <1>2, <1>3 DEF a

LEMMA AttachSearchInv ==
  ASSUME NEW s, s.job = NoJob, NEW db, NEW n, NEW a, a = AttachSearch(s, db)
  PROVE  SearchInv(a, n) /\ ResultsHold(a, n) /\ a.db = db /\ a.auto /\ ~a.behind /\ a.last = NoHash
<1>1. [s.job EXCEPT !.latest = FALSE] = NoJob
  BY NoJobAged DEF Aged
<1>2. /\ DOMAIN a = SearchFields /\ a.db = db /\ a.job = NoJob /\ a.pending = NoJob
      /\ a.page = 0 /\ a.shown = FALSE /\ a.auto /\ ~a.behind /\ a.cache = NoCache
      /\ a.last = NoHash
  BY <1>1 DEF AttachSearch, DetachedSearch, SearchFields
<1>3. SearchInv(a, n)
  BY <1>2, NoJobShape DEF SearchInv, Of, Found
<1>4. ResultsHold(a, n)
  BY <1>2 DEF ResultsHold, CacheHolds, Shows
<1> QED
  BY <1>2, <1>3, <1>4

\* Showing a page that n games answer.
LEMMA ShowPageHolds ==
  ASSUME NEW s, DOMAIN s = SearchFields, NEW n, NEW hash, NEW filter, NEW page,
         NEW found, found = Answer(n, filter, page),
         NEW q, q = ShowPage(s, hash, filter, page, found)
  PROVE  /\ DOMAIN q = SearchFields /\ q.db = s.db /\ q.auto = s.auto /\ q.behind = s.behind
         /\ q.last = s.last /\ q.hash = hash /\ q.filter = filter /\ q.page = page
         /\ q.job = s.job /\ q.pending = s.pending
         /\ Shows(q, n)
         /\ CacheHolds(s, n) => CacheHolds(q, n)
<1>1. /\ DOMAIN q = SearchFields /\ q.db = s.db /\ q.auto = s.auto /\ q.behind = s.behind
      /\ q.last = s.last /\ q.hash = hash /\ q.filter = filter /\ q.page = page
      /\ q.job = s.job /\ q.pending = s.pending
      /\ q.games = found.games /\ q.total = found.total
      /\ q.cache = IF hash = Start /\ filter = "all" THEN [page |-> page, found |-> found] ELSE s.cache
  BY DEF ShowPage, SearchFields
<1>2. Shows(q, n)
  BY <1>1, AnswerIsRecord DEF Shows
<1>3. CacheHolds(s, n) => CacheHolds(q, n)
  BY <1>1 DEF CacheHolds
<1> QED
  BY <1>1, <1>2, <1>3

LEMMA SearchStep ==
  ASSUME NEW s, NEW n, SearchInv(s, n), s.db # NoDatabase, NEW hash, NEW filter, NEW page \in Nat,
         NEW q, q = Search(s, hash, filter, page)
  PROVE  /\ SearchInv(q, n) /\ q.db = s.db /\ q.auto = s.auto /\ q.behind = s.behind
         /\ q.last = hash /\ q.hash = hash /\ q.filter = filter
         /\ CacheHolds(s, n) => CacheHolds(q, n) /\ Shows(q, n)
<1> DEFINE g == NextGeneration(s)
           j == QueryJob(filter, hash, page)
<1>0. IsJob(s.job)
  BY DEF SearchInv, IsJob
<1>1. /\ DOMAIN g = SearchFields /\ IsJob(g.job) /\ IsPending(g.pending)
      /\ g.job.kind = s.job.kind /\ g.job.stage = s.job.stage
      /\ g.job = NoJob <=> s.job = NoJob
      /\ g.pending = NoJob <=> s.pending = NoJob
      /\ IsQuery(s.job) => /\ IsQuery(g.job) /\ ~g.job.latest
                           /\ g.job.filter = s.job.filter /\ g.job.page = s.job.page
                           /\ g.job.ok = s.job.ok /\ g.job.found = s.job.found
      /\ ~g.pending.latest
  BY <1>0, NextGenerationJobs DEF SearchInv, SearchFields
<1>2. /\ g.db = s.db /\ g.auto = s.auto /\ g.behind = s.behind /\ g.cache = s.cache
  BY DEF SearchInv, SearchFields, NextGeneration
<1>3. Found(g.job, n) /\ (g.job.kind = "query" => ~g.job.latest) /\ (g.job = NoJob \/ IsQuery(g.job))
  BY <1>0, <1>1, JobShape DEF SearchInv, Found
<1> HIDE DEF g
<1>4. CASE CacheHit(s, hash, filter, page)
  <2> DEFINE a == [g EXCEPT !.last = hash]
  <2>1. q = ShowPage(a, hash, filter, page, s.cache.found)
    BY <1>4 DEF Search, g
  <2>2. /\ DOMAIN a = SearchFields /\ a.db = s.db /\ a.auto = s.auto /\ a.behind = s.behind
        /\ a.cache = s.cache /\ a.last = hash /\ a.job = g.job /\ a.pending = g.pending
    BY <1>1, <1>2 DEF SearchFields
  <2> HIDE DEF a
  <2>3. /\ DOMAIN q = SearchFields /\ q.db = s.db /\ q.auto = s.auto /\ q.behind = s.behind
        /\ q.last = hash /\ q.hash = hash /\ q.filter = filter /\ q.page = page
        /\ q.job = g.job /\ q.pending = g.pending
    BY <2>1, <2>2 DEF ShowPage, SearchFields
  <2>4. SearchInv(q, n)
    BY <1>1, <1>3, <2>3 DEF SearchInv, Of
  <2>5. ASSUME CacheHolds(s, n) PROVE CacheHolds(q, n) /\ Shows(q, n)
    <3>1. s.cache.found = Answer(n, filter, page) /\ s.cache # NoCache
      BY <1>4, <2>5 DEF CacheHit, CacheHolds, NoCache
    <3>2. CacheHolds(a, n)
      BY <2>2, <2>5 DEF CacheHolds
    <3> QED
      BY <2>1, <2>2, <3>1, <3>2, ShowPageHolds
  <2> QED
    BY <2>3, <2>4, <2>5
<1>5. CASE ~CacheHit(s, hash, filter, page)
  <2> DEFINE a == [g EXCEPT !.last = hash, !.hash = hash, !.filter = filter,
                    !.page = 0, !.games = <<>>, !.total = 0, !.searching = TRUE, !.shown = FALSE]
  <2>1. q = RunQuery(a, j)
    BY <1>5 DEF Search, g
  <2>2. /\ DOMAIN a = SearchFields /\ a.db = s.db /\ a.auto = s.auto /\ a.behind = s.behind
        /\ a.last = hash /\ a.hash = hash /\ a.filter = filter /\ a.page = 0 /\ a.shown = FALSE
        /\ a.cache = s.cache /\ a.job = g.job /\ a.pending = g.pending
    BY <1>1, <1>2 DEF SearchFields
  <2>3. /\ IsQuery(j) /\ IsPending(j) /\ j # NoJob
        /\ j.stage = "running" /\ j.filter = filter /\ j.hash = hash
    BY QueryJobShape
  <2> HIDE DEF a, j
  <2>4. /\ DOMAIN q = SearchFields /\ q.db = s.db /\ q.auto = s.auto /\ q.behind = s.behind
        /\ q.last = hash /\ q.hash = hash /\ q.filter = filter /\ q.page = 0 /\ q.shown = FALSE
        /\ q.cache = s.cache
        /\ \/ q.job = g.job /\ q.pending = j /\ g.job # NoJob
           \/ q.job = j /\ q.pending = g.pending
    BY <2>1, <2>2 DEF RunQuery, Busy, SearchFields
  <2>5. SearchInv(q, n)
    BY <1>1, <1>3, <2>3, <2>4 DEF SearchInv, Of, Found
  <2>6. CacheHolds(s, n) => CacheHolds(q, n) /\ Shows(q, n)
    BY <2>4 DEF CacheHolds, Shows
  <2> QED
    BY <2>4, <2>5, <2>6
<1> QED
  BY <1>4, <1>5

LEMMA SearchHereInv ==
  ASSUME NEW s, NEW n, SearchInv(s, n), s.db # NoDatabase, NEW b, NEW bd,
         NEW q, q = SearchHere(s, b, bd)
  PROVE  /\ SearchInv(q, n) /\ q.db = s.db /\ Follows(q, b.filter, Hash(bd))
         /\ CacheHolds(s, n) => ResultsHold(q, n)
<1> DEFINE a == Search(s, Hash(bd), b.filter, 0)
<1>1. /\ SearchInv(a, n) /\ a.db = s.db /\ a.auto = s.auto
      /\ a.last = Hash(bd) /\ a.hash = Hash(bd) /\ a.filter = b.filter
      /\ CacheHolds(s, n) => CacheHolds(a, n) /\ Shows(a, n)
  BY SearchStep
<1>2. q = [a EXCEPT !.behind = ~s.auto]
  BY DEF SearchHere
<1> HIDE DEF a
<1>3. /\ DOMAIN q = SearchFields /\ q.db = a.db /\ q.auto = s.auto /\ q.last = a.last /\ q.hash = a.hash
      /\ q.filter = a.filter /\ q.page = a.page /\ q.games = a.games /\ q.total = a.total
      /\ q.shown = a.shown /\ q.cache = a.cache /\ q.job = a.job /\ q.pending = a.pending
      /\ q.auto \/ q.behind
  BY <1>1, <1>2 DEF SearchInv, SearchFields
<1>4. SearchInv(q, n)
  BY <1>1, <1>3 DEF SearchInv, Of
<1>5. CacheHolds(s, n) => ResultsHold(q, n)
  BY <1>1, <1>3 DEF ResultsHold, CacheHolds, Shows
<1> QED
  BY <1>1, <1>3, <1>4, <1>5 DEF Follows

\* search_if_hash_changed, after the board has moved to bd.
LEMMA SearchIfHashChangedInv ==
  ASSUME NEW s, NEW n, SearchInv(s, n), NEW b, NEW bd,
         s.db # NoDatabase /\ s.auto /\ ~s.behind =>
           (s.last = s.hash /\ s.filter = b.filter) \/ (s.last = NoHash /\ Hash(bd) # NoHash),
         NEW q, q = SearchIfHashChanged(s, b, bd)
  PROVE  /\ SearchInv(q, n) /\ q.db = s.db /\ Follows(q, b.filter, Hash(bd))
         /\ ResultsHold(s, n) => ResultsHold(q, n)
<1>1. CASE s.db # NoDatabase /\ s.auto /\ s.last # Hash(bd)
  <2>1. q = SearchHere(s, b, bd)
    BY <1>1 DEF SearchIfHashChanged
  <2> QED
    BY <1>1, <2>1, SearchHereInv DEF ResultsHold
<1>2. CASE ~(s.db # NoDatabase /\ s.auto /\ s.last # Hash(bd))
  <2>1. q = s
    BY <1>2 DEF SearchIfHashChanged
  <2> QED
    BY <1>2, <2>1 DEF Follows
<1> QED
  BY <1>1, <1>2

LEMMA RefreshIfAutoInv ==
  ASSUME NEW s, NEW n, SearchInv(s, n), NEW b, NEW bd, NEW q, q = RefreshIfAuto(s, b, bd)
  PROVE  /\ SearchInv(q, n) /\ q.db = s.db /\ Follows(q, b.filter, Hash(bd))
         /\ s.db # NoDatabase /\ CacheHolds(s, n) => ResultsHold(q, n)
<1>1. CASE s.db # NoDatabase /\ s.auto
  <2>1. q = SearchHere(s, b, bd)
    BY <1>1 DEF RefreshIfAuto
  <2> QED
    BY <1>1, <2>1, SearchHereInv
<1>2. CASE ~(s.db # NoDatabase /\ s.auto)
  <2>1. q = s
    BY <1>2 DEF RefreshIfAuto
  <2> QED
    BY <1>2, <2>1 DEF Follows, ResultsHold
<1> QED
  BY <1>1, <1>2

\* Paging keeps the position and the filter of the search.
LEMMA SearchPageInv ==
  ASSUME NEW s, NEW n, SearchInv(s, n), s.db # NoDatabase, NEW page \in Nat,
         NEW q, q = SearchPage(s, page), NEW filter, NEW hash
  PROVE  /\ SearchInv(q, n) /\ q.db = s.db
         /\ Follows(s, filter, hash) => Follows(q, filter, hash)
         /\ CacheHolds(s, n) => ResultsHold(q, n)
<1>1. q = Search(s, s.hash, s.filter, page)
  BY DEF SearchPage
<1>2. /\ SearchInv(q, n) /\ q.db = s.db /\ q.auto = s.auto /\ q.behind = s.behind
      /\ q.last = s.hash /\ q.hash = s.hash /\ q.filter = s.filter
      /\ CacheHolds(s, n) => CacheHolds(q, n) /\ Shows(q, n)
  BY <1>1, SearchStep
<1> QED
  BY <1>2 DEF Follows, ResultsHold

AutoOff(s) == [s EXCEPT !.auto = FALSE, !.behind = TRUE]

LEMMA AutoSearchOffInv ==
  ASSUME NEW s, NEW n, SearchInv(s, n), NEW filter, NEW hash, NEW q, q = AutoOff(s)
  PROVE  /\ SearchInv(q, n) /\ q.db = s.db /\ Follows(q, filter, hash)
         /\ ResultsHold(s, n) => ResultsHold(q, n)
<1>1. /\ DOMAIN q = SearchFields /\ q.db = s.db /\ ~q.auto /\ q.behind /\ q.hash = s.hash
      /\ q.filter = s.filter /\ q.page = s.page /\ q.cache = s.cache /\ q.job = s.job
      /\ q.pending = s.pending
  BY DEF AutoOff, SearchInv, SearchFields
<1>2. SearchInv(q, n)
  BY <1>1 DEF SearchInv, Of
<1> QED
  BY <1>1, <1>2 DEF Follows, ResultsHold, CacheHolds

\* An activation that fails clears the board behind the search's back.
LEMMA BehindInv ==
  ASSUME NEW s, NEW n, SearchInv(s, n), NEW filter, NEW hash, NEW q, q = [s EXCEPT !.behind = TRUE]
  PROVE  /\ SearchInv(q, n) /\ q.db = s.db /\ Follows(q, filter, hash)
         /\ ResultsHold(s, n) => ResultsHold(q, n)
<1>1. /\ DOMAIN q = SearchFields /\ q.db = s.db /\ q.behind /\ q.hash = s.hash
      /\ q.filter = s.filter /\ q.page = s.page /\ q.cache = s.cache /\ q.job = s.job
      /\ q.pending = s.pending
  BY DEF SearchInv, SearchFields
<1>2. SearchInv(q, n)
  BY <1>1 DEF SearchInv, Of
<1> QED
  BY <1>1, <1>2 DEF Follows, ResultsHold, CacheHolds

LEMMA AutoSearchOnInv ==
  ASSUME NEW s, NEW n, SearchInv(s, n), ~s.auto, NEW b, NEW bd,
         NEW q, q = SearchIfHashChanged([s EXCEPT !.auto = TRUE], b, bd)
  PROVE  /\ SearchInv(q, n) /\ q.db = s.db /\ Follows(q, b.filter, Hash(bd))
         /\ ResultsHold(s, n) => ResultsHold(q, n)
<1> DEFINE a == [s EXCEPT !.auto = TRUE]
<1>1. /\ DOMAIN a = SearchFields /\ a.db = s.db /\ a.auto /\ a.behind /\ a.hash = s.hash
      /\ a.filter = s.filter /\ a.page = s.page /\ a.cache = s.cache /\ a.job = s.job
      /\ a.pending = s.pending
  BY DEF SearchInv, SearchFields
<1> HIDE DEF a
<1>2. SearchInv(a, n) /\ (ResultsHold(s, n) => ResultsHold(a, n))
  BY <1>1 DEF SearchInv, Of, ResultsHold, CacheHolds
<1>3. q = SearchIfHashChanged(a, b, bd)
  BY DEF a
<1> QED
  BY <1>1, <1>2, <1>3, SearchIfHashChangedInv

LEMMA InvalidateInv ==
  ASSUME NEW s, NEW n, SearchInv(s, n), NEW q, q = Invalidate(s)
  PROVE  SearchInv(q, n) /\ q.db = s.db /\ CacheHolds(q, n)
<1>1. /\ DOMAIN q = SearchFields /\ q.db = s.db /\ q.auto = s.auto /\ q.behind = s.behind
      /\ q.hash = s.hash /\ q.filter = s.filter /\ q.page = s.page /\ q.cache = NoCache
      /\ q.job = s.job /\ q.pending = s.pending
  BY DEF SearchInv, SearchFields, Invalidate
<1> QED
  BY <1>1 DEF SearchInv, Of, CacheHolds

\* The search worker's read of a database that holds n games.
LEMMA SearchReadInv ==
  ASSUME NEW s, NEW n, SearchInv(s, n), Running(s), NEW ok \in BOOLEAN, NEW filter, NEW hash,
         NEW found, ok => found = Answer(n, s.job.filter, s.job.page),
         NEW q, q = [s EXCEPT !.job = Answered(s.job, ok, found)]
  PROVE  /\ SearchInv(q, n) /\ q.db = s.db
         /\ Follows(s, filter, hash) => Follows(q, filter, hash)
         /\ ResultsHold(s, n) => ResultsHold(q, n)
<1>1. /\ DOMAIN q = SearchFields /\ q.db = s.db /\ q.auto = s.auto /\ q.behind = s.behind
      /\ q.last = s.last /\ q.hash = s.hash /\ q.filter = s.filter /\ q.page = s.page
      /\ q.games = s.games /\ q.total = s.total /\ q.shown = s.shown /\ q.cache = s.cache
      /\ q.pending = s.pending /\ q.job = Answered(s.job, ok, found)
  BY DEF SearchInv, SearchFields
<1>2. IsQuery(s.job) /\ s.job # NoJob
  BY NoJobShape DEF SearchInv, Running
<1>3. /\ IsQuery(q.job) /\ q.job.latest = s.job.latest /\ q.job.stage = "done"
      /\ q.job.filter = s.job.filter /\ q.job.page = s.job.page /\ q.job.hash = s.job.hash
      /\ q.job.ok = ok /\ q.job.found = found
  BY <1>1, <1>2, AnsweredQuery
<1>4. q.job # NoJob /\ Found(q.job, n)
  BY <1>3, NoJobShape DEF IsQuery, Found
<1>5. SearchInv(q, n)
  BY <1>1, <1>2, <1>3, <1>4 DEF SearchInv, Of, IsQuery
<1> QED
  BY <1>1, <1>5 DEF Follows, ResultsHold, CacheHolds, Shows

\* The completion of a search, after which the waiting one runs.
LEMMA SearchDoneInv ==
  ASSUME NEW s, NEW n, SearchInv(s, n), s.job # NoJob, s.job.stage # "running", NEW filter, NEW hash,
         NEW q, q = DispatchPending(ApplySearchQuery(s, s.job))
  PROVE  /\ SearchInv(q, n) /\ q.db = s.db
         /\ Follows(s, filter, hash) => Follows(q, filter, hash)
         /\ ResultsHold(s, n) => ResultsHold(q, n)
<1> DEFINE a == ApplySearchQuery(s, s.job)
           Kept == /\ DOMAIN a = SearchFields /\ a.db = s.db /\ a.auto = s.auto /\ a.behind = s.behind
                   /\ a.last = s.last /\ a.hash = s.hash /\ a.filter = s.filter /\ a.page \in Nat
                   /\ a.pending = s.pending
                   /\ ResultsHold(s, n) => ResultsHold(a, n)
<1>1. IsQuery(s.job) /\ s.job.page \in Nat
  BY DEF SearchInv, IsQuery
<1>2. Kept
  <2>1. CASE s.db # NoDatabase /\ s.job.latest /\ s.job.ok
    <3>1. /\ s.job.found = Answer(n, s.job.filter, s.job.page)
          /\ s.job.filter = s.filter /\ s.job.hash = s.hash
      BY <1>1, <2>1 DEF SearchInv, Of, Found, IsQuery
    <3>2. a = ShowPage(s, s.job.hash, s.job.filter, s.job.page, s.job.found)
      BY <2>1 DEF ApplySearchQuery
    <3>3. DOMAIN s = SearchFields
      BY DEF SearchInv
    <3> HIDE DEF a
    <3>4. /\ DOMAIN a = SearchFields /\ a.db = s.db /\ a.auto = s.auto /\ a.behind = s.behind
          /\ a.last = s.last /\ a.hash = s.job.hash /\ a.filter = s.job.filter /\ a.page = s.job.page
          /\ a.job = s.job /\ a.pending = s.pending
          /\ Shows(a, n)
          /\ CacheHolds(s, n) => CacheHolds(a, n)
      BY <3>1, <3>2, <3>3, ShowPageHolds
    <3> QED
      BY <1>1, <3>1, <3>4 DEF ResultsHold
  <2>2. CASE s.db # NoDatabase /\ s.job.latest /\ ~s.job.ok
    <3>1. /\ DOMAIN a = SearchFields /\ a.db = s.db /\ a.auto = s.auto /\ a.behind = s.behind
          /\ a.last = s.last /\ a.hash = s.hash /\ a.filter = s.filter /\ a.page = s.page
          /\ a.pending = s.pending /\ a.games = s.games /\ a.total = s.total /\ a.shown = s.shown
          /\ a.cache = s.cache
      BY <2>2 DEF ApplySearchQuery, SearchInv, SearchFields
    <3> HIDE DEF a
    <3> QED
      BY <3>1 DEF SearchInv, ResultsHold, CacheHolds, Shows
  <2>3. CASE s.db = NoDatabase \/ ~s.job.latest
    BY <2>3 DEF ApplySearchQuery, SearchInv
  <2> QED
    BY <2>1, <2>2, <2>3
<1> HIDE DEF a
<1>3. /\ DOMAIN q = SearchFields /\ q.db = s.db /\ q.auto = s.auto /\ q.behind = s.behind
      /\ q.last = s.last /\ q.hash = s.hash /\ q.filter = s.filter /\ q.page = a.page
      /\ q.games = a.games /\ q.total = a.total /\ q.shown = a.shown /\ q.cache = a.cache
      /\ q.job = s.pending /\ q.pending = NoJob
  BY <1>2 DEF DispatchPending, SearchFields, a
<1>4. SearchInv(q, n)
  BY <1>2, <1>3, NoJobShape, PendingIsJob DEF SearchInv, Of, Found
<1>5. ResultsHold(s, n) => ResultsHold(q, n)
  BY <1>2, <1>3 DEF ResultsHold, CacheHolds, Shows
<1> QED
  BY <1>3, <1>4, <1>5 DEF Follows
-----------------------------------------------------------------------------
(* ... and who may touch the database when. *)

AppStages == {"running", "runner", "search", "browser", "importer", "closed"}
Databases == {"file", "scratch"}

WsTypes == [stage : {"idle", "database", "config", "ready"},
            op : {"none", "create", "open", "scratch"}, ok : BOOLEAN]
ImportTypes == [state : {"idle", "running", "canceling", "canceled", "completed", "failed"},
                db : Databases \cup {NoDatabase},
                work : {"none", "start", "ingest", "rebuild", "returned", "error"},
                left : Int, stop : BOOLEAN, fault : BOOLEAN]

ControlTypes ==
  /\ rows \in [Databases -> Nat \cup {Missing}] /\ active \in Databases \cup {NoDatabase}
  /\ config \in BOOLEAN /\ saved \in BOOLEAN /\ indexed \in BOOLEAN
  /\ ws \in WsTypes
  /\ importer \in ImportTypes
  /\ ui \in [timer : BOOLEAN, import_active : BOOLEAN, publishing : BOOLEAN]
  /\ app \in AppStages
  /\ DOMAIN browser = BrowserFields /\ DOMAIN search = SearchFields
  /\ DOMAIN board = {"attached", "loaded", "ply"}

\* The panels refer to the active database, which exists, or to none; a workspace
\* operation and each destructor finds them detached.
AttachedInv ==
  /\ active # NoDatabase => rows[active] # Missing
  /\ browser.db \in {NoDatabase, active} /\ search.db \in {NoDatabase, active}
  /\ app = "running" => browser.db = search.db
  /\ board.attached => browser.db # NoDatabase /\ app = "running"
  /\ Running(browser) => browser.db # NoDatabase
  /\ Running(search) => search.db # NoDatabase
  /\ ws.stage # "idle" => browser.db = NoDatabase /\ search.db = NoDatabase
  /\ ws.stage \in {"database", "config"} => active = NoDatabase
  /\ ws.stage = "config" => rows["file"] # Missing
  /\ ws.stage = "ready" /\ ws.ok => active # NoDatabase
  /\ app \notin {"running", "runner"} => ws.stage = "idle"
  /\ app \in {"browser", "importer", "closed"} => search.db = NoDatabase
  /\ app \in {"importer", "closed"} => browser.db = NoDatabase

\* An import under way has the database to itself, and the window's timer set.
ImportInv ==
  /\ ImportActive <=> importer.work # "none"
  /\ importer.work # "none" =>
       /\ importer.db = active /\ active # NoDatabase /\ ws.stage = "idle"
       /\ browser.job = NoJob /\ search.job = NoJob
       /\ importer.stop <=> importer.state = "canceling"
       /\ app = "running" => ui.timer \/ ui.publishing
  /\ importer.work = "rebuild" => importer.left = 0 \/ importer.fault
  /\ importer.work = "returned" => importer.stop \/ ((importer.left = 0 \/ importer.fault) /\ indexed)
  /\ importer.work = "error" => importer.fault

RecentInv ==
  /\ config = saved
  /\ ws.stage # "config" => (config <=> rows["file"] # Missing)
  /\ ws.stage = "config" => ws.op \in {"create", "open"} /\ (config <=> ws.op = "open")

PanelsInv ==
  app = "running" =>
    /\ BrowserInv(browser, rows[active]) /\ SearchInv(search, rows[active])
    /\ Follows(search, browser.filter, Hash(board))
    /\ ~ui.timer /\ ~ui.publishing =>
         /\ browser.db # NoDatabase => ListHolds(browser, rows[active])
         /\ search.db # NoDatabase => ResultsHold(search, rows[active])

Inv == ControlTypes /\ AttachedInv /\ ImportInv /\ RecentInv /\ PanelsInv

\* A step that changes the panels only.
LEMMA PanelsStep ==
  ASSUME Inv, app = "running", importer.work = "none",
         UNCHANGED <<rows, indexed, active, config, saved, ws, importer, ui, app>>,
         browser'.db = browser.db, search'.db = search.db,
         DOMAIN board' = {"attached", "loaded", "ply"}, board'.attached => browser.db # NoDatabase,
         BrowserInv(browser', rows[active]), SearchInv(search', rows[active]),
         Follows(search', browser'.filter, Hash(board')),
         browser.db # NoDatabase /\ ListHolds(browser, rows[active]) => ListHolds(browser', rows[active]),
         search.db # NoDatabase /\ ResultsHold(search, rows[active]) => ResultsHold(search', rows[active])
  PROVE  Inv'
<1> USE DEF Inv
<1>1. /\ DOMAIN browser' = BrowserFields /\ DOMAIN search' = SearchFields
      /\ Running(browser)' => browser.db # NoDatabase
      /\ Running(search)' => search.db # NoDatabase
  BY NoJobShape DEF BrowserInv, SearchInv, Running
<1>2. ControlTypes'
  BY <1>1 DEF ControlTypes
<1>3. AttachedInv'
  BY <1>1 DEF AttachedInv
<1>4. ImportInv'
  BY DEF ImportInv, ImportActive
<1>5. RecentInv'
  BY DEF RecentInv
<1>6. PanelsInv'
  BY DEF PanelsInv
<1> QED
  BY <1>2, <1>3, <1>4, <1>5, <1>6
\* A callback that runs only while no worker is busy and no import active.
LEMMA InteractiveFacts ==
  ASSUME Inv, Interactive
  PROVE  /\ app = "running" /\ importer.work = "none" /\ ws.stage = "idle"
         /\ browser.job = NoJob /\ search.job = NoJob
         /\ browser.db \in {NoDatabase, active} /\ search.db = browser.db
         /\ BrowserInv(browser, rows[active]) /\ SearchInv(search, rows[active])
         /\ Follows(search, browser.filter, Hash(board))
         /\ DOMAIN board = {"attached", "loaded", "ply"} /\ (board.attached => browser.db # NoDatabase)
BY DEF Inv, Interactive, EventLoop, AnyBusy, Busy, ControlTypes, AttachedInv, ImportInv, PanelsInv

LEMMA PageInBounds ==
  ASSUME NEW b, NEW n, BrowserInv(b, n)
  PROVE  b.page + 1 \in Nat /\ (HasPrevious(b) => b.page - 1 \in Nat)
BY DEF BrowserInv, HasPrevious

LEMMA BrowserCallbacks ==
  ASSUME Inv, \/ \E filter \in Filters : FiltersChanged(filter)
              \/ PageRequested \/ SortRequested \/ GameSelected \/ MoveSelection \/ ActivateRequested
              \/ MatchActivated
  PROVE  Inv'
<1> DEFINE n == rows[active]
<1>0. Interactive /\ browser.db # NoDatabase
  BY InteractiveFacts DEF FiltersChanged, PageRequested, SortRequested, GameSelected, MoveSelection,
        ActivateRequested, MatchActivated, BrowserReady, BoardReady
<1>1. /\ app = "running" /\ importer.work = "none" /\ browser.job = NoJob /\ search.db = browser.db
      /\ BrowserInv(browser, n) /\ SearchInv(search, n)
      /\ Follows(search, browser.filter, Hash(board))
      /\ DOMAIN board = {"attached", "loaded", "ply"}
  BY <1>0, InteractiveFacts
<1>2. ASSUME NEW filter \in Filters, FiltersChanged(filter) PROVE Inv'
  <2>1. /\ BrowserInv(browser', n) /\ ListHolds(browser', n)
        /\ browser'.db = browser.db /\ browser'.filter = filter
    BY <1>0, <1>1, <1>2, FilterGamesInv DEF FiltersChanged
  <2>2. /\ SearchInv(search', n) /\ search'.db = search.db /\ Follows(search', browser'.filter, Hash(board))
        /\ CacheHolds(search, n) => ResultsHold(search', n)
    BY <1>0, <1>1, <1>2, RefreshIfAutoInv DEF FiltersChanged
  <2> QED
    BY <1>0, <1>1, <1>2, <2>1, <2>2, PanelsStep DEF FiltersChanged, workspace, ResultsHold
<1>3. ASSUME BrowserOnly, BrowserInv(browser', n), browser'.db = browser.db,
             browser'.filter = browser.filter, ListHolds(browser, n) => ListHolds(browser', n)
      PROVE  Inv'
  BY <1>0, <1>1, <1>3, PanelsStep DEF BrowserOnly, workspace
<1>4. CASE PageRequested
  <2>1. BrowserOnly /\ \E page \in Nat : browser' = MakeQuery(browser, page)
    BY <1>1, <1>4, PageInBounds DEF PageRequested
  <2> QED
    BY <1>0, <1>1, <1>3, <2>1, MakeQueryInv
<1>5. CASE SortRequested
  BY <1>0, <1>1, <1>3, <1>5, MakeQueryInv DEF SortRequested
<1>6. CASE GameSelected \/ MoveSelection
  <2>1. BrowserOnly /\ \E row : browser' = SelectGame(browser, row)
    BY <1>6 DEF GameSelected, MoveSelection
  <2> QED
    BY <1>1, <1>3, <2>1, SelectGameInv
<1>7. CASE ActivateRequested \/ MatchActivated
  <2>1. BrowserOnly /\ \E kind \in {"row", "match"} : \E game, ply : browser' = Activate(browser, kind, game, ply)
    BY <1>7 DEF ActivateRequested, MatchActivated
  <2> QED
    BY <1>0, <1>1, <1>3, <2>1, ActivateInv
<1> QED
  BY <1>2, <1>4, <1>5, <1>6, <1>7

LEMMA SearchCallbacks ==
  ASSUME Inv, BoardNavigated \/ SearchRequested \/ AutoSearchToggled \/ SearchPageRequested
  PROVE  Inv'
<1> DEFINE n == rows[active]
<1>0. Interactive /\ board.attached
  BY DEF BoardNavigated, SearchRequested, AutoSearchToggled, SearchPageRequested, BoardReady
<1>1. /\ app = "running" /\ importer.work = "none" /\ search.db = browser.db /\ browser.db # NoDatabase
      /\ BrowserInv(browser, n) /\ SearchInv(search, n)
      /\ Follows(search, browser.filter, Hash(board))
      /\ DOMAIN board = {"attached", "loaded", "ply"}
  BY <1>0, InteractiveFacts
<1>2. ASSUME UNCHANGED <<rows, indexed, active, config, saved, ws, browser, importer, ui, app>>,
             DOMAIN board' = {"attached", "loaded", "ply"},
             SearchInv(search', n), search'.db = search.db,
             Follows(search', browser.filter, Hash(board')), ResultsHold(search, n) => ResultsHold(search', n)
      PROVE  Inv'
  BY <1>0, <1>1, <1>2, PanelsStep
<1>3. CASE BoardNavigated
  <2>1. DOMAIN board' = {"attached", "loaded", "ply"}
    BY <1>1, <1>3 DEF BoardNavigated, NavigateTo
  <2>2. search' = SearchIfHashChanged(search, browser, board')
    BY <1>3 DEF BoardNavigated
  <2>3. /\ SearchInv(search', n) /\ search'.db = search.db /\ Follows(search', browser.filter, Hash(board'))
        /\ ResultsHold(search, n) => ResultsHold(search', n)
    BY <1>1, <2>2, SearchIfHashChangedInv DEF Follows
  <2> QED
    BY <1>2, <1>3, <2>1, <2>3 DEF BoardNavigated, workspace
<1>4. CASE SearchRequested
  BY <1>1, <1>2, <1>4, SearchHereInv DEF SearchRequested, SearchOnly, workspace, ResultsHold
<1>5. CASE AutoSearchToggled
  <2>1. CASE search.auto
    <3>1. search' = AutoOff(search)
      BY <1>5, <2>1 DEF AutoSearchToggled, AutoOff
    <3>2. /\ SearchInv(search', n) /\ search'.db = search.db /\ Follows(search', browser.filter, Hash(board))
          /\ ResultsHold(search, n) => ResultsHold(search', n)
      BY <1>1, <3>1, AutoSearchOffInv
    <3> QED
      BY <1>1, <1>2, <1>5, <3>2 DEF AutoSearchToggled, SearchOnly, workspace
  <2>2. CASE ~search.auto
    <3>1. search' = SearchIfHashChanged([search EXCEPT !.auto = TRUE], browser, board)
      BY <1>5, <2>2 DEF AutoSearchToggled
    <3>2. /\ SearchInv(search', n) /\ search'.db = search.db /\ Follows(search', browser.filter, Hash(board))
          /\ ResultsHold(search, n) => ResultsHold(search', n)
      BY <1>1, <2>2, <3>1, AutoSearchOnInv
    <3> QED
      BY <1>1, <1>2, <1>5, <3>2 DEF AutoSearchToggled, SearchOnly, workspace
  <2> QED
    BY <2>1, <2>2
<1>6. CASE SearchPageRequested
  <2>1. SearchOnly /\ \E page \in Nat : search' = SearchPage(search, page)
    BY <1>1, <1>6 DEF SearchPageRequested, SearchInv, HasPrevious
  <2> QED
    BY <1>1, <1>2, <2>1, SearchPageInv DEF SearchOnly, workspace, ResultsHold
<1> QED
  BY <1>3, <1>4, <1>5, <1>6
\* The workers' reads, also while main's locals are destroyed.
LEMMA BrowserReads == ASSUME Inv, BrowserRead PROVE Inv'
<1> DEFINE n == rows[active]
<1>1. /\ Running(browser) /\ browser.job # NoJob /\ importer.work = "none"
      /\ browser.db = active /\ browser.db # NoDatabase
      /\ UNCHANGED <<rows, indexed, active, config, saved, ws, board, search, importer, ui, app>>
  BY NoJobShape DEF Inv, AttachedInv, ImportInv, BrowserRead, Running, BrowserOnly, workspace
<1>2. PICK ok \in BOOLEAN : browser' = ReadBy(browser, n, ok)
  BY <1>1 DEF BrowserRead, ReadBy
<1>3. CASE app = "running"
  <2>1. /\ BrowserInv(browser, n) /\ SearchInv(search, n) /\ Follows(search, browser.filter, Hash(board))
        /\ DOMAIN board = {"attached", "loaded", "ply"}
    BY <1>3 DEF Inv, PanelsInv, ControlTypes
  <2>2. /\ BrowserInv(browser', n) /\ (ListHolds(browser, n) => ListHolds(browser', n))
        /\ browser'.db = browser.db /\ browser'.filter = browser.filter
    BY <1>1, <1>2, <2>1, BrowserReadInv
  <2> QED
    BY <1>1, <1>3, <2>1, <2>2, PanelsStep
<1>4. CASE app # "running"
  <2>1. DOMAIN browser' = BrowserFields /\ browser'.db = browser.db
    BY <1>2 DEF Inv, ControlTypes, BrowserFields, ReadBy
  <2>2. ControlTypes'
    BY <1>1, <2>1 DEF Inv, ControlTypes
  <2>3. AttachedInv'
    BY <1>1, <1>4, <2>1 DEF Inv, AttachedInv, Running
  <2> QED
    BY <1>1, <1>4, <2>2, <2>3 DEF Inv, ImportInv, ImportActive, RecentInv, PanelsInv
<1> QED
  BY <1>3, <1>4

LEMMA SearchReads == ASSUME Inv, SearchRead PROVE Inv'
<1> DEFINE n == rows[active]
<1>1. /\ Running(search) /\ search.job # NoJob /\ importer.work = "none"
      /\ search.db = active /\ search.db # NoDatabase
      /\ UNCHANGED <<rows, indexed, active, config, saved, ws, board, browser, importer, ui, app>>
  BY NoJobShape DEF Inv, AttachedInv, ImportInv, SearchRead, Running, SearchOnly, workspace
<1>2. PICK ok \in {FALSE} \cup {indexed} :
        search' = [search EXCEPT !.job.stage = "done", !.job.ok = ok,
                     !.job.found = IF ok THEN Answer(n, search.job.filter, search.job.page) ELSE @]
  BY <1>1 DEF SearchRead
<1>ok. ok \in BOOLEAN
  BY DEF Inv, ControlTypes
<1>3. CASE app = "running"
  <2>1. /\ BrowserInv(browser, n) /\ SearchInv(search, n) /\ Follows(search, browser.filter, Hash(board))
        /\ DOMAIN board = {"attached", "loaded", "ply"} /\ (board.attached => browser.db # NoDatabase)
    BY <1>3 DEF Inv, PanelsInv, ControlTypes, AttachedInv
  <2> DEFINE f == IF ok THEN Answer(n, search.job.filter, search.job.page) ELSE search.job.found
  <2>2. IsQuery(search.job)
    BY <1>1, <2>1 DEF SearchInv
  <2>3. search' = [search EXCEPT !.job = Answered(search.job, ok, f)]
    BY <1>2, <2>1, <2>2 DEF Answered, IsQuery, QueryFields, SearchInv, SearchFields
  <2>4. ok => f = Answer(n, search.job.filter, search.job.page)
    OBVIOUS
  <2> HIDE DEF f
  <2>5. /\ SearchInv(search', n) /\ search'.db = search.db
        /\ Follows(search', browser.filter, Hash(board))
        /\ ResultsHold(search, n) => ResultsHold(search', n)
    BY <1>1, <1>ok, <2>1, <2>3, <2>4, SearchReadInv
  <2> QED
    BY <1>1, <1>3, <2>1, <2>5, PanelsStep
<1>4. CASE app # "running"
  <2>1. DOMAIN search' = SearchFields /\ search'.db = search.db
    BY <1>2 DEF Inv, ControlTypes, SearchFields
  <2>2. ControlTypes'
    BY <1>1, <2>1 DEF Inv, ControlTypes
  <2>3. AttachedInv'
    BY <1>1, <1>4, <2>1 DEF Inv, AttachedInv, Running
  <2> QED
    BY <1>1, <1>4, <2>2, <2>3 DEF Inv, ImportInv, ImportActive, RecentInv, PanelsInv
<1> QED
  BY <1>3, <1>4

\* The completions of the browser and of the search.
LEMMA PanelCompletions ==
  ASSUME Inv, BrowserQueryDone \/ ActivationDone \/ SearchDone PROVE Inv'
<1> DEFINE n == rows[active]
<1>0. app = "running"
  BY DEF BrowserQueryDone, ActivationDone, SearchDone, EventLoop
<1>1. /\ BrowserInv(browser, n) /\ SearchInv(search, n) /\ Follows(search, browser.filter, Hash(board))
      /\ DOMAIN board = {"attached", "loaded", "ply"} /\ (board.attached => browser.db # NoDatabase)
      /\ search.db = browser.db
  BY <1>0 DEF Inv, PanelsInv, ControlTypes, AttachedInv
<1>2. importer.work = "none"
  BY NoJobShape DEF Inv, ImportInv, BrowserQueryDone, ActivationDone, SearchDone, Busy
<1>3. CASE BrowserQueryDone
  <2>1. /\ BrowserInv(browser', n) /\ (ListHolds(browser, n) => ListHolds(browser', n))
        /\ browser'.db = browser.db /\ browser'.filter = browser.filter
    BY <1>1, <1>3, QueryDoneInv DEF BrowserQueryDone, Running
  <2> QED
    BY <1>0, <1>1, <1>2, <1>3, <2>1, PanelsStep DEF BrowserQueryDone, BrowserOnly, workspace
<1>4. CASE SearchDone
  <2>1. /\ SearchInv(search', n) /\ search'.db = search.db
        /\ Follows(search', browser.filter, Hash(board))
        /\ ResultsHold(search, n) => ResultsHold(search', n)
    BY <1>1, <1>4, SearchDoneInv DEF SearchDone, Busy, Running
  <2> QED
    BY <1>0, <1>1, <1>2, <1>4, <2>1, PanelsStep DEF SearchDone, SearchOnly, workspace
<1>5. CASE ActivationDone
  <2>1. /\ BrowserInv(browser', n) /\ (ListHolds(browser, n) => ListHolds(browser', n))
        /\ browser'.db = browser.db /\ browser'.filter = browser.filter
    BY <1>1, <1>5, ActivationDoneInv DEF ActivationDone
  <2>2. /\ DOMAIN board' = {"attached", "loaded", "ply"}
        /\ board' = board \/ browser.db # NoDatabase
    BY <1>1, <1>5 DEF ActivationDone, ActivationApplies, ActivationFails, LoadedBoard, NavigateTo, ClearedBoard
  <2>3. /\ SearchInv(search', n) /\ search'.db = search.db
        /\ Follows(search', browser.filter, Hash(board'))
        /\ ResultsHold(search, n) => ResultsHold(search', n)
    <3>1. CASE ActivationApplies(browser, browser.job)
      <4>1. search' = SearchIfHashChanged(search, browser, board')
        BY <1>5, <3>1 DEF ActivationDone
      <4> QED
        BY <1>1, <4>1, SearchIfHashChangedInv DEF Follows
    <3>2. CASE ~ActivationApplies(browser, browser.job) /\ ActivationFails(browser, browser.job)
      <4>1. search' = [search EXCEPT !.behind = TRUE]
        BY <1>5, <3>2 DEF ActivationDone
      <4> QED
        BY <1>1, <4>1, BehindInv
    <3>3. CASE ~ActivationApplies(browser, browser.job) /\ ~ActivationFails(browser, browser.job)
      BY <1>1, <1>5, <3>3 DEF ActivationDone
    <3> QED
      BY <3>1, <3>2, <3>3
  <2>4. UNCHANGED <<rows, indexed, active, config, saved, ws, importer, ui, app>>
    BY <1>5 DEF ActivationDone, workspace
  <2> QED
    BY <1>0, <1>1, <1>2, <2>1, <2>2, <2>3, <2>4, PanelsStep
<1> QED
  BY <1>3, <1>4, <1>5
\* A panel without a job does not depend on what the database holds.
LEMMA IdlePanels ==
  ASSUME NEW b, NEW s, NEW n, NEW k, b.job = NoJob, s.job = NoJob, BrowserInv(b, n), SearchInv(s, n)
  PROVE  BrowserInv(b, k) /\ SearchInv(s, k)
BY NoJobShape DEF BrowserInv, SearchInv, Found

LEMMA RowsUpdate ==
  ASSUME NEW r \in [Databases -> Nat \cup {Missing}], NEW v \in Nat \cup {Missing}
  PROVE  /\ [r EXCEPT !.file = v] \in [Databases -> Nat \cup {Missing}]
         /\ [r EXCEPT !.file = v]["file"] = v /\ [r EXCEPT !.file = v]["scratch"] = r["scratch"]
         /\ [r EXCEPT !.scratch = v] \in [Databases -> Nat \cup {Missing}]
         /\ [r EXCEPT !.scratch = v]["scratch"] = v /\ [r EXCEPT !.scratch = v]["file"] = r["file"]
BY DEF Databases

\* A step of the workspace worker, which finds the panels detached.
LEMMA WorkspaceSteps ==
  ASSUME Inv, WorkspaceWorker PROVE Inv'
<1> USE DEF Inv
<1>1. /\ ws.stage \in {"database", "config"} /\ active = NoDatabase
      /\ browser.db = NoDatabase /\ search.db = NoDatabase /\ importer.work = "none"
      /\ UNCHANGED <<browser, board, search, importer, ui, app>>
  BY DEF WorkspaceWorker, CreateDatabase, OpenDatabase, ActivateScratch, PersistWorkspace, AttachedInv,
         ImportInv, panels
<1>2. /\ ~Running(browser) /\ ~Running(search)
  BY <1>1 DEF AttachedInv
<1>3. PanelsInv'
  <2> SUFFICES ASSUME app = "running" PROVE PanelsInv'
    BY <1>1 DEF PanelsInv
  <2>1. /\ BrowserInv(browser, rows[active]) /\ SearchInv(search, rows[active])
        /\ browser.job = NoJob /\ search.job = NoJob
    BY <1>1 DEF PanelsInv, BrowserInv, SearchInv
  <2>2. BrowserInv(browser, rows'[active']) /\ SearchInv(search, rows'[active'])
    BY <2>1, IdlePanels
  <2>3. Follows(search, browser.filter, Hash(board))
    BY <1>1 DEF Follows
  <2> QED
    BY <1>1, <2>2, <2>3 DEF PanelsInv
<1>4. ASSUME ws' \in WsTypes, rows' \in [Databases -> Nat \cup {Missing}], active' \in Databases \cup {NoDatabase},
             config' \in BOOLEAN, saved' = config', indexed' \in BOOLEAN,
             active' # NoDatabase => rows'[active'] # Missing,
             ws'.stage = "config" => active' = NoDatabase /\ rows'["file"] # Missing,
             ws'.stage = "config" => ws'.op \in {"create", "open"} /\ (config' <=> ws'.op = "open"),
             ws'.stage \in {"config", "ready"},
             ws'.stage = "ready" => (config' <=> rows'["file"] # Missing) /\ (ws'.ok => active' # NoDatabase)
      PROVE  Inv'
  <2>1. ControlTypes'
    BY <1>1, <1>4 DEF ControlTypes, WsTypes
  <2>2. AttachedInv'
    BY <1>1, <1>2, <1>4 DEF AttachedInv, Running
  <2>3. ImportInv'
    BY <1>1 DEF ImportInv, ImportActive
  <2>4. RecentInv'
    BY <1>4 DEF RecentInv
  <2> QED
    BY <1>3, <2>1, <2>2, <2>3, <2>4
<1>5. /\ ws \in WsTypes /\ rows \in [Databases -> Nat \cup {Missing}] /\ saved = config
      /\ config \in BOOLEAN /\ indexed \in BOOLEAN /\ 0 \in Nat \cup {Missing} /\ 0 # Missing
      /\ "file" # NoDatabase /\ "scratch" # NoDatabase /\ "file" \in Databases /\ "scratch" \in Databases
  BY DEF ControlTypes, WsTypes, RecentInv, Missing, NoDatabase, Databases
<1>6. WorkspaceFails => /\ ws' \in WsTypes /\ ws'.stage = "ready" /\ ~ws'.ok
                        /\ active' = NoDatabase /\ UNCHANGED <<indexed, config, saved>>
  BY <1>1, <1>5 DEF WorkspaceFails, WsTypes
<1>7. CASE CreateDatabase
  <2>1. ws.stage = "database" /\ ws.op = "create" /\ (config <=> rows["file"] # Missing)
    BY <1>7 DEF CreateDatabase, RecentInv
  <2>2. CASE WorkspaceFails /\ UNCHANGED rows
    BY <1>4, <1>5, <1>6, <2>1, <2>2
  <2>3. CASE ~(WorkspaceFails /\ UNCHANGED rows)
    <3>1. /\ rows["file"] = Missing /\ UNCHANGED <<indexed, active, config, saved>>
          /\ rows' = [rows EXCEPT !.file = 0] /\ ws' = [ws EXCEPT !.stage = "config"]
      BY <1>7, <2>3 DEF CreateDatabase
    <3>2. rows' \in [Databases -> Nat \cup {Missing}] /\ rows'["file"] = 0
      BY <1>5, <3>1, RowsUpdate
    <3>3. ws' \in WsTypes /\ ws'.stage = "config" /\ ws'.op = "create"
      BY <1>5, <2>1, <3>1 DEF WsTypes
    <3> QED
      BY <1>1, <1>4, <1>5, <2>1, <3>1, <3>2, <3>3
  <2> QED
    BY <2>2, <2>3
<1>8. CASE OpenDatabase
  <2>1. /\ ws.stage = "database" /\ ws.op = "open" /\ (config <=> rows["file"] # Missing)
        /\ rows' = rows
    BY <1>8 DEF OpenDatabase, RecentInv
  <2>2. CASE WorkspaceFails
    BY <1>4, <1>5, <1>6, <2>1, <2>2
  <2>3. CASE ~WorkspaceFails
    <3>1. /\ rows["file"] # Missing /\ UNCHANGED <<indexed, active, config, saved>>
          /\ ws' = [ws EXCEPT !.stage = "config"]
      BY <1>8, <2>3 DEF OpenDatabase
    <3>3. ws' \in WsTypes /\ ws'.stage = "config" /\ ws'.op = "open"
      BY <1>5, <2>1, <3>1 DEF WsTypes
    <3> QED
      BY <1>1, <1>4, <1>5, <2>1, <3>1, <3>3
  <2> QED
    BY <2>2, <2>3
<1>9. CASE ActivateScratch
  <2>1. ws.stage = "database" /\ (config <=> rows["file"] # Missing)
    BY <1>9 DEF ActivateScratch, RecentInv
  <2>2. CASE WorkspaceFails /\ UNCHANGED rows
    BY <1>4, <1>5, <1>6, <2>1, <2>2
  <2>3. CASE ~(WorkspaceFails /\ UNCHANGED rows)
    <3>1. /\ rows' = [rows EXCEPT !.scratch = 0] /\ indexed' = TRUE /\ UNCHANGED <<config, saved>>
          /\ active' = "scratch" /\ ws' = [ws EXCEPT !.stage = "ready", !.ok = TRUE]
      BY <1>9, <2>3 DEF ActivateScratch
    <3>2. rows' \in [Databases -> Nat \cup {Missing}] /\ rows'["scratch"] = 0 /\ rows'["file"] = rows["file"]
      BY <1>5, <3>1, RowsUpdate
    <3>3. ws' \in WsTypes /\ ws'.stage = "ready"
      BY <1>5, <3>1 DEF WsTypes
    <3> QED
      BY <1>4, <1>5, <2>1, <3>1, <3>2, <3>3
  <2> QED
    BY <2>2, <2>3
<1>10. CASE PersistWorkspace
  <2>1. /\ ws.stage = "config" /\ ws.op \in {"create", "open"} /\ (config <=> ws.op = "open")
        /\ rows["file"] # Missing
    BY <1>10 DEF PersistWorkspace, RecentInv, AttachedInv
  <2>2. CASE /\ WorkspaceFails
             /\ rows' = [rows EXCEPT !.file = IF ws.op = "create" THEN Missing ELSE @]
    <3>1. /\ rows' \in [Databases -> Nat \cup {Missing}]
          /\ rows'["file"] = IF ws.op = "create" THEN Missing ELSE rows["file"]
      BY <1>5, <2>2 DEF Databases
    <3> QED
      BY <1>4, <1>5, <1>6, <2>1, <2>2, <3>1
  <2>3. CASE ~(WorkspaceFails /\ rows' = [rows EXCEPT !.file = IF ws.op = "create" THEN Missing ELSE @])
    <3>1. /\ config' = TRUE /\ saved' = TRUE /\ active' = "file" /\ indexed' = TRUE
          /\ ws' = [ws EXCEPT !.stage = "ready", !.ok = TRUE] /\ rows' = rows
      BY <1>10, <2>3 DEF PersistWorkspace
    <3>2. ws' \in WsTypes /\ ws'.stage = "ready"
      BY <1>5, <3>1 DEF WsTypes
    <3> QED
      BY <1>4, <1>5, <2>1, <3>1, <3>2
  <2> QED
    BY <2>2, <2>3
<1> QED
  BY <1>7, <1>8, <1>9, <1>10 DEF WorkspaceWorker

LEMMA RequestWorkspaceStep ==
  ASSUME Inv, NEW op \in {"create", "open", "scratch"}, RequestWorkspace(op) PROVE Inv'
<1> USE DEF Inv, RequestWorkspace
<1>1. /\ app = "running" /\ importer.work = "none" /\ browser.db = NoDatabase /\ search.db = NoDatabase
      /\ ws.stage = "idle" /\ active = NoDatabase
      /\ UNCHANGED <<rows, indexed, active, config, saved, browser, board, search, importer, ui, app>>
  BY InteractiveFacts DEF panels
<1>2. ControlTypes'
  BY <1>1 DEF ControlTypes, WsTypes
<1>3. AttachedInv'
  BY <1>1 DEF AttachedInv, Running
<1>4. ImportInv' /\ RecentInv' /\ PanelsInv'
  BY <1>1 DEF ImportInv, ImportActive, RecentInv, PanelsInv
<1> QED
  BY <1>2, <1>3, <1>4

LEMMA WorkspaceDoneStep == ASSUME Inv, WorkspaceDone PROVE Inv'
<1> DEFINE n == rows[active]
<1> USE DEF Inv
<1>1. /\ app = "running" /\ ws.stage = "ready" /\ importer.work = "none"
      /\ browser.db = NoDatabase /\ search.db = NoDatabase
      /\ BrowserInv(browser, n) /\ SearchInv(search, n)
      /\ browser.job = NoJob /\ search.job = NoJob
      /\ UNCHANGED <<rows, indexed, active, config, saved, importer, ui, app>>
      /\ ws' = [stage |-> "idle", op |-> "none", ok |-> FALSE]
  BY DEF WorkspaceDone, EventLoop, AttachedInv, ImportInv, PanelsInv, BrowserInv, SearchInv
<1>2. RecentInv'
  BY <1>1 DEF RecentInv
<1>3. ImportInv'
  BY <1>1 DEF ImportInv, ImportActive
<1>4. CASE ws.ok
  <2> DEFINE a == AttachBrowser(browser, active)
             t == AttachSearch(search, active)
  <2>1. active # NoDatabase
    BY <1>1, <1>4 DEF AttachedInv
  <2>2. BrowserInv(a, n) /\ a.db = active
    BY <1>1, AttachBrowserInv
  <2>3. SearchInv(t, n) /\ ResultsHold(t, n) /\ t.db = active /\ t.last = NoHash
    BY <1>1, AttachSearchInv
  <2>4. browser' = LoadInitial(a) /\ board' = ClearedBoard /\ search' = SearchIfHashChanged(t, browser', board')
    BY <1>4 DEF WorkspaceDone
  <2> HIDE DEF a, t
  <2>5. BrowserInv(browser', n) /\ ListHolds(browser', n) /\ browser'.db = active
    BY <2>1, <2>2, <2>4, MakeQueryInv DEF LoadInitial
  <2>6. Hash(board') # NoHash /\ DOMAIN board' = {"attached", "loaded", "ply"}
    BY <2>4 DEF Hash, ClearedBoard, NoHash
  <2>7. /\ SearchInv(search', n) /\ search'.db = active /\ Follows(search', browser'.filter, Hash(board'))
        /\ ResultsHold(search', n)
    BY <2>3, <2>4, <2>6, SearchIfHashChangedInv
  <2>8. DOMAIN browser' = BrowserFields /\ DOMAIN search' = SearchFields
    BY <2>5, <2>7 DEF BrowserInv, SearchInv
  <2>9. ControlTypes'
    BY <1>1, <2>6, <2>8 DEF ControlTypes, WsTypes
  <2>10. AttachedInv'
    BY <1>1, <2>1, <2>5, <2>7 DEF AttachedInv
  <2>11. PanelsInv'
    BY <1>1, <2>5, <2>7 DEF PanelsInv
  <2> QED
    BY <1>2, <1>3, <2>9, <2>10, <2>11
<1>5. CASE ~ws.ok
  <2>1. UNCHANGED <<browser, board, search>>
    BY <1>5 DEF WorkspaceDone, panels
  <2>2. ControlTypes'
    BY <1>1, <2>1 DEF ControlTypes, WsTypes
  <2>3. AttachedInv'
    BY <1>1, <2>1 DEF AttachedInv, Running
  <2>4. PanelsInv'
    BY <1>1, <2>1 DEF PanelsInv
  <2> QED
    BY <1>2, <1>3, <2>2, <2>3, <2>4
<1> QED
  BY <1>4, <1>5

LEMMA CloseStep == ASSUME Inv, Close PROVE Inv'
<1> USE DEF Inv
<1>1. /\ app = "running" /\ importer.work = "none" /\ ws.stage = "idle" /\ browser.job = NoJob
      /\ UNCHANGED <<config, saved, ws, importer, ui, app>>
      /\ active' = NoDatabase /\ rows' = [rows EXCEPT !.scratch = Missing] /\ indexed' = FALSE
      /\ browser' = AttachBrowser(browser, NoDatabase) /\ board' = NoBoard /\ search' = DetachedSearch
  BY InteractiveFacts DEF Close
<1>2. /\ BrowserInv(browser', rows'[active']) /\ browser'.db = NoDatabase
      /\ SearchInv(search', rows'[active']) /\ search'.db = NoDatabase
  BY <1>1, AttachBrowserInv, DetachedSearchInv
<1>3. /\ DOMAIN browser' = BrowserFields /\ DOMAIN search' = SearchFields
      /\ browser'.job = NoJob /\ search'.job = NoJob
      /\ DOMAIN board' = {"attached", "loaded", "ply"} /\ ~board'.attached
  BY <1>1, <1>2 DEF BrowserInv, SearchInv, NoBoard
<1>r. rows' \in [Databases -> Nat \cup {Missing}] /\ rows'["file"] = rows["file"]
  BY <1>1, RowsUpdate DEF ControlTypes
<1>4. ControlTypes'
  BY <1>1, <1>3, <1>r DEF ControlTypes
<1>5. AttachedInv'
  BY <1>1, <1>2, <1>3, NoJobShape DEF AttachedInv, Running
<1>6. ImportInv'
  BY <1>1 DEF ImportInv, ImportActive
<1>7. RecentInv'
  BY <1>1, <1>r DEF RecentInv
<1>8. PanelsInv'
  BY <1>1, <1>2 DEF PanelsInv, Follows
<1> QED
  BY <1>4, <1>5, <1>6, <1>7, <1>8

LEMMA ToggleNotationStep == ASSUME Inv, ToggleNotation PROVE Inv'
<1>1. /\ UNCHANGED <<rows, indexed, active, config, ws, browser, board, search, importer, ui, app>>
      /\ saved' = saved
  BY DEF Inv, RecentInv, ToggleNotation, panels
<1> QED
  BY <1>1 DEF Inv, ControlTypes, AttachedInv, ImportInv, ImportActive, RecentInv, PanelsInv, Running
LEMMA ImportRequestedStep == ASSUME Inv, ImportRequested PROVE Inv'
<1> USE DEF Inv
<1>1. /\ app = "running" /\ ws.stage = "idle" /\ browser.job = NoJob /\ search.job = NoJob
      /\ active # NoDatabase /\ UNCHANGED <<rows, indexed, active, config, saved, ws, browser, board, search, app>>
      /\ ui' = [ui EXCEPT !.publishing = TRUE]
  BY DEF ImportRequested, EventLoop, AnyBusy, Busy, workspace, panels
<1>a. active \in Databases /\ MaxGames[active] - rows[active] \in Int
  BY <1>1, DesktopAssumption DEF ControlTypes, Databases, Missing
<1>2. PICK left \in 0..(MaxGames[active] - rows[active]) :
        importer' = [state |-> "running", db |-> active, work |-> "start", left |-> left, stop |-> FALSE,
                     fault |-> FALSE]
  BY DEF ImportRequested, NoImport
<1>c. left \in Int
  BY <1>a
<1>b. importer' \in ImportTypes /\ ui' \in [timer : BOOLEAN, import_active : BOOLEAN, publishing : BOOLEAN]
  BY <1>1, <1>a, <1>c, <1>2 DEF ControlTypes, ImportTypes
<1>3. ControlTypes'
  BY <1>1, <1>b DEF ControlTypes
<1>4. ui'.publishing
  BY <1>1 DEF ControlTypes
<1>5. AttachedInv'
  BY <1>1 DEF AttachedInv, Running
<1>6. ImportInv'
  BY <1>1, <1>2, <1>4 DEF ImportInv, ImportActive
<1>7. RecentInv'
  BY <1>1 DEF RecentInv
<1>8. PanelsInv'
  BY <1>1, <1>4 DEF PanelsInv
<1> QED
  BY <1>3, <1>5, <1>6, <1>7, <1>8

LEMMA ImportPublishedStep == ASSUME Inv, ImportPublished PROVE Inv'
<1> USE DEF Inv
<1>1. /\ app = "running" /\ ui.publishing
      /\ UNCHANGED <<rows, indexed, active, config, saved, ws, browser, board, search, importer, app>>
      /\ ui' = [timer |-> TRUE, import_active |-> ImportActive, publishing |-> FALSE]
  BY DEF ImportPublished, workspace, panels
<1>2. ImportActive \in BOOLEAN
  BY DEF ImportActive
<1>3. ControlTypes' /\ ui'.timer
  BY <1>1, <1>2 DEF ControlTypes
<1>4. AttachedInv' /\ RecentInv'
  BY <1>1 DEF AttachedInv, RecentInv, Running
<1>5. ImportInv'
  BY <1>1, <1>3 DEF ImportInv, ImportActive
<1>6. PanelsInv'
  BY <1>1, <1>3 DEF PanelsInv
<1> QED
  BY <1>3, <1>4, <1>5, <1>6

LEMMA NoImportType ==
  /\ NoImport \in ImportTypes /\ NoImport.work = "none" /\ NoImport.state = "idle"
  /\ \A st \in {"failed", "canceled", "completed"} :
       /\ [NoImport EXCEPT !.state = st] \in ImportTypes
       /\ [NoImport EXCEPT !.state = st].work = "none" /\ [NoImport EXCEPT !.state = st].state = st
<1>1. NoImport \in ImportTypes /\ NoImport.work = "none" /\ NoImport.state = "idle"
  BY DEF NoImport, ImportTypes
<1>2. ASSUME NEW i \in ImportTypes, NEW st \in {"failed", "canceled", "completed"}
      PROVE  /\ [i EXCEPT !.state = st] \in ImportTypes
             /\ [i EXCEPT !.state = st].work = i.work /\ [i EXCEPT !.state = st].state = st
  BY DEF ImportTypes
<1> QED
  BY <1>1, <1>2

\* A step of the import's thread that may add a game.
LEMMA ImportSteps == ASSUME Inv, ImportWorker PROVE Inv'
<1> USE DEF Inv
<1>1. /\ importer.work # "none" /\ UNCHANGED <<active, config, saved, ws, browser, board, search, ui, app>>
  BY DEF ImportWorker, ImportBegins, ImportGame, ImportIngested, ImportRebuilds, ImportFinishes, ImportOnly,
         workspace, panels
<1>2. /\ ImportActive /\ importer.db = active /\ active \in Databases /\ ws.stage = "idle"
      /\ browser.job = NoJob /\ search.job = NoJob /\ rows[active] \in Nat
      /\ importer.stop <=> importer.state = "canceling"
      /\ app = "running" => ui.timer \/ ui.publishing
  BY <1>1 DEF ImportInv, AttachedInv, ControlTypes, Databases
<1>3. ASSUME rows' \in [Databases -> Nat \cup {Missing}], indexed' \in BOOLEAN,
             rows'[active] # Missing, rows'["file"] # Missing <=> rows["file"] # Missing
      PROVE  AttachedInv' /\ RecentInv' /\ PanelsInv'
  <2>1. AttachedInv'
    BY <1>1, <1>2, <1>3 DEF AttachedInv, Running
  <2>2. RecentInv'
    BY <1>1, <1>2, <1>3 DEF RecentInv
  <2>3. PanelsInv'
    <3> SUFFICES ASSUME app = "running" PROVE PanelsInv'
      BY <1>1 DEF PanelsInv
    <3>1. BrowserInv(browser, rows[active]) /\ SearchInv(search, rows[active])
      BY DEF PanelsInv
    <3>2. BrowserInv(browser, rows'[active]) /\ SearchInv(search, rows'[active])
      BY <1>2, <3>1, IdlePanels
    <3> QED
      BY <1>1, <1>2, <3>2 DEF PanelsInv
  <2> QED
    BY <2>1, <2>2, <2>3
<1>4. /\ rows' \in [Databases -> Nat \cup {Missing}]
      /\ rows'[active] # Missing /\ (rows'["file"] # Missing <=> rows["file"] # Missing)
  <2>1. CASE rows' = rows
    BY <1>2, <2>1 DEF ControlTypes, Missing
  <2>2. CASE rows' # rows
    <3>1. rows' = [rows EXCEPT ![active] = @ + 1]
      BY <1>2, <2>2 DEF ImportWorker, ImportBegins, ImportGame, ImportIngested, ImportRebuilds, ImportFinishes
    <3>2. rows[active] + 1 \in Nat /\ rows[active] + 1 # Missing /\ rows[active] # Missing
      BY <1>2 DEF Missing
    <3> QED
      BY <1>2, <3>1, <3>2 DEF ControlTypes, Databases
  <2> QED
    BY <2>1, <2>2
<1>5. indexed' \in BOOLEAN
  BY DEF ControlTypes, ImportWorker, ImportBegins, ImportGame, ImportIngested, ImportRebuilds, ImportFinishes
<1>6. ASSUME importer' \in ImportTypes, importer'.work # "none", importer'.db = importer.db,
             importer'.state = importer.state, importer'.stop = importer.stop,
             importer'.work = "rebuild" => importer'.left = 0 \/ importer'.fault,
             importer'.work = "returned" =>
               importer'.stop \/ ((importer'.left = 0 \/ importer'.fault) /\ indexed'),
             importer'.work = "error" => importer'.fault
      PROVE  Inv'
  <2>1. ControlTypes'
    BY <1>1, <1>4, <1>5, <1>6 DEF ControlTypes, ImportTypes
  <2>2. ImportInv'
    BY <1>1, <1>2, <1>6 DEF ImportInv, ImportActive
  <2> QED
    BY <1>3, <1>4, <1>5, <2>1, <2>2
<1>7. importer \in ImportTypes
  BY DEF ControlTypes, ImportTypes
<1>8. CASE ImportBegins
  <2>1. \/ importer' = [importer EXCEPT !.work = "ingest"]
        \/ importer' = [importer EXCEPT !.work = "error", !.fault = TRUE]
    BY <1>8 DEF ImportBegins
  <2> QED
    BY <1>6, <1>7, <2>1 DEF ImportTypes
<1>9. CASE ImportGame
  <2>1. \/ importer' = [importer EXCEPT !.left = @ - 1]
        \/ importer' = [importer EXCEPT !.work = "error", !.fault = TRUE]
        \/ importer' = [importer EXCEPT !.work = IF importer.stop THEN "returned" ELSE "rebuild",
                                        !.fault = TRUE]
    BY <1>9 DEF ImportGame
  <2>2. CASE importer' = [importer EXCEPT !.left = @ - 1]
    <3>1. importer'.work = "ingest" /\ importer' \in ImportTypes
      BY <1>7, <1>9, <2>2 DEF ImportTypes, ImportGame
    <3> QED
      BY <1>6, <1>7, <2>2, <3>1 DEF ImportTypes
  <2>3. CASE importer' = [importer EXCEPT !.work = "error", !.fault = TRUE]
    BY <1>6, <1>7, <2>3 DEF ImportTypes
  <2>4. CASE importer' = [importer EXCEPT !.work = "returned", !.fault = TRUE] /\ importer.stop
    BY <1>6, <1>7, <2>4 DEF ImportTypes
  <2>5. CASE importer' = [importer EXCEPT !.work = "rebuild", !.fault = TRUE]
    BY <1>6, <1>7, <2>5 DEF ImportTypes
  <2> QED
    BY <2>1, <2>2, <2>3, <2>4, <2>5
<1>10. CASE ImportIngested
  <2>1. importer' = [importer EXCEPT !.work = IF importer.stop THEN "returned" ELSE "rebuild"]
    BY <1>10 DEF ImportIngested
  <2>2. importer.stop \/ importer.left = 0
    BY <1>10 DEF ImportIngested
  <2> QED
    BY <1>6, <1>7, <2>1, <2>2 DEF ImportTypes
<1>11. CASE ImportRebuilds
  <2>1. importer.left = 0 \/ importer.fault
    BY <1>11 DEF ImportRebuilds, ImportInv
  <2>2. CASE importer' = [importer EXCEPT !.work = "returned"] /\ indexed' = TRUE
    BY <1>6, <1>7, <2>1, <2>2 DEF ImportTypes
  <2>3. CASE importer' = [importer EXCEPT !.work = "error", !.fault = TRUE]
    BY <1>6, <1>7, <2>1, <2>3 DEF ImportTypes
  <2> QED
    BY <1>11, <2>2, <2>3 DEF ImportRebuilds
<1>12. CASE ImportFinishes
  <2>1. PICK st \in {"failed", "canceled", "completed"} : importer' = [NoImport EXCEPT !.state = st]
    BY <1>12 DEF ImportFinishes
  <2>2. importer' \in ImportTypes /\ importer'.work = "none" /\ importer'.state = st
    BY <2>1, NoImportType
  <2>3. ControlTypes'
    BY <1>1, <1>4, <1>5, <2>2 DEF ControlTypes, ImportTypes
  <2>4. ImportInv'
    BY <2>2 DEF ImportInv, ImportActive
  <2> QED
    BY <1>3, <1>4, <1>5, <2>3, <2>4
<1> QED
  BY <1>8, <1>9, <1>10, <1>11, <1>12 DEF ImportWorker

LEMMA RequestCancelType ==
  ASSUME Inv, NEW i, i = RequestCancel(importer)
  PROVE  /\ i \in ImportTypes /\ i.work = importer.work /\ i.db = importer.db /\ i.left = importer.left
         /\ i.fault = importer.fault
         /\ i.state \in {"running", "canceling"} <=> ImportActive
         /\ importer.work # "none" => i.stop /\ i.state = "canceling"
<1>1. importer \in ImportTypes /\ (ImportActive <=> importer.work # "none")
  BY DEF Inv, ControlTypes, ImportTypes, ImportInv
<1>2. CASE ImportActive
  <2>1. i = [importer EXCEPT !.state = "canceling", !.stop = TRUE]
    BY <1>2 DEF RequestCancel, ImportActive
  <2> QED
    BY <1>1, <1>2, <2>1 DEF ImportTypes
<1>3. CASE ~ImportActive
  BY <1>1, <1>3 DEF RequestCancel, ImportActive
<1> QED
  BY <1>2, <1>3

LEMMA CancelRequestedStep == ASSUME Inv, CancelRequested PROVE Inv'
<1> USE DEF Inv
<1>1. /\ importer' = RequestCancel(importer)
      /\ UNCHANGED <<rows, indexed, active, config, saved, ws, browser, board, search, ui, app>>
  BY DEF CancelRequested, workspace, panels
<1>2. /\ importer' \in ImportTypes /\ importer'.work = importer.work /\ importer'.db = importer.db
      /\ importer'.left = importer.left /\ importer'.fault = importer.fault
      /\ importer'.state \in {"running", "canceling"} <=> ImportActive
      /\ importer.work # "none" => importer'.stop /\ importer'.state = "canceling"
  BY <1>1, RequestCancelType
<1>3. ControlTypes'
  BY <1>1, <1>2 DEF ControlTypes, ImportTypes
<1>4. AttachedInv' /\ RecentInv' /\ PanelsInv'
  BY <1>1 DEF AttachedInv, RecentInv, PanelsInv, Running
<1>5. ImportInv'
  BY <1>1, <1>2 DEF ImportInv, ImportActive
<1> QED
  BY <1>3, <1>4, <1>5

LEMMA ImportTickStep == ASSUME Inv, ImportTick PROVE Inv'
<1> DEFINE n == rows[active]
<1> USE DEF Inv
<1>1. /\ app = "running" /\ importer.work = "none"
      /\ UNCHANGED <<rows, indexed, active, config, saved, ws, board, app>>
      /\ importer' = NoImport /\ ui' = [ui EXCEPT !.timer = FALSE, !.import_active = FALSE]
      /\ browser' = LoadInitial(browser) /\ search' = RefreshIfAuto(Invalidate(search), browser', board)
      /\ BrowserInv(browser, n) /\ SearchInv(search, n) /\ search.db = browser.db
  BY DEF ImportTick, EventLoop, ImportInv, PanelsInv, AttachedInv, workspace
<1>2. /\ BrowserInv(browser', n) /\ browser'.db = browser.db /\ browser'.filter = browser.filter
      /\ browser.db # NoDatabase => ListHolds(browser', n)
  <2>1. CASE browser.db # NoDatabase
    BY <1>1, <2>1, MakeQueryInv DEF LoadInitial
  <2>2. CASE browser.db = NoDatabase
    BY <1>1, <2>2 DEF LoadInitial, MakeQuery
  <2> QED
    BY <2>1, <2>2
<1> DEFINE t == Invalidate(search)
<1>3. SearchInv(t, n) /\ t.db = search.db /\ CacheHolds(t, n)
  BY <1>1, InvalidateInv
<1>4. search' = RefreshIfAuto(t, browser', board)
  BY <1>1
<1> HIDE DEF t
<1>5. /\ SearchInv(search', n) /\ search'.db = search.db /\ Follows(search', browser'.filter, Hash(board))
      /\ search.db # NoDatabase => ResultsHold(search', n)
  BY <1>3, <1>4, RefreshIfAutoInv
<1>6. /\ importer' \in ImportTypes /\ importer'.work = "none" /\ importer'.state = "idle"
      /\ ui' \in [timer : BOOLEAN, import_active : BOOLEAN, publishing : BOOLEAN]
      /\ DOMAIN browser' = BrowserFields /\ DOMAIN search' = SearchFields
  BY <1>1, <1>2, <1>5, NoImportType DEF ControlTypes, BrowserInv, SearchInv
<1>7. ControlTypes'
  BY <1>1, <1>6 DEF ControlTypes, ImportTypes
<1>8. AttachedInv'
  <2>1. /\ Running(browser)' => browser'.db # NoDatabase
        /\ Running(search)' => search'.db # NoDatabase
    BY <1>2, <1>5, NoJobShape DEF BrowserInv, SearchInv, Running
  <2> QED
    BY <1>1, <1>2, <1>5, <2>1 DEF AttachedInv
<1>9. ImportInv'
  BY <1>6 DEF ImportInv, ImportActive
<1>10. RecentInv'
  BY <1>1 DEF RecentInv
<1>11. PanelsInv'
  BY <1>1, <1>2, <1>5 DEF PanelsInv
<1> QED
  BY <1>7, <1>8, <1>9, <1>10, <1>11
\* Leaving the event loop, and the destructors in their order.
LEMMA QuitStep == ASSUME Inv, Quit PROVE Inv'
<1> USE DEF Inv
<1>1. /\ app = "running" /\ app' = "runner" /\ board' = NoBoard
      /\ UNCHANGED <<rows, indexed, active, config, saved, ws, importer>>
      /\ ui' = [ui EXCEPT !.timer = FALSE, !.import_active = FALSE]
      /\ browser' = [DetachedBrowser EXCEPT !.db = browser.db, !.job = browser.job]
      /\ search' = [DetachedSearch EXCEPT !.db = search.db, !.job = search.job]
  BY DEF Quit, EventLoop, workspace
<1>2. /\ DOMAIN browser' = BrowserFields /\ browser'.db = browser.db /\ browser'.job = browser.job
      /\ DOMAIN search' = SearchFields /\ search'.db = search.db /\ search'.job = search.job
      /\ DOMAIN board' = {"attached", "loaded", "ply"} /\ ~board'.attached
      /\ ui' \in [timer : BOOLEAN, import_active : BOOLEAN, publishing : BOOLEAN]
  BY <1>1 DEF DetachedBrowser, DetachedSearch, BrowserFields, SearchFields, NoBoard, ControlTypes
<1>3. ControlTypes'
  BY <1>1, <1>2 DEF ControlTypes, AppStages
<1>4. AttachedInv'
  BY <1>1, <1>2 DEF AttachedInv, Running
<1>5. ImportInv'
  BY <1>1, <1>2 DEF ImportInv, ImportActive
<1>6. RecentInv' /\ PanelsInv'
  BY <1>1 DEF RecentInv, PanelsInv
<1> QED
  BY <1>3, <1>4, <1>5, <1>6

LEMMA RunnerJoinedStep == ASSUME Inv, RunnerJoined PROVE Inv'
<1> USE DEF Inv
<1>1. /\ app = "runner" /\ app' = "search" /\ ws' = [ws EXCEPT !.stage = "idle"] /\ ws.stage \in {"idle", "ready"}
      /\ UNCHANGED <<rows, indexed, active, config, saved, browser, board, search, importer, ui>>
  BY DEF RunnerJoined, panels
<1>2. ws' \in WsTypes /\ ws'.stage = "idle"
  BY <1>1 DEF ControlTypes, WsTypes
<1>3. ControlTypes'
  BY <1>1, <1>2 DEF ControlTypes, AppStages
<1>4. AttachedInv'
  BY <1>1, <1>2 DEF AttachedInv, Running
<1>5. ImportInv'
  BY <1>1, <1>2 DEF ImportInv, ImportActive
<1>6. RecentInv' /\ PanelsInv'
  BY <1>1, <1>2 DEF RecentInv, PanelsInv
<1> QED
  BY <1>3, <1>4, <1>5, <1>6

LEMMA DetachedShape ==
  /\ DOMAIN DetachedBrowser = BrowserFields /\ DetachedBrowser.db = NoDatabase /\ DetachedBrowser.job = NoJob
  /\ DOMAIN DetachedSearch = SearchFields /\ DetachedSearch.db = NoDatabase /\ DetachedSearch.job = NoJob
BY DEF DetachedBrowser, BrowserFields, DetachedSearch, SearchFields

LEMMA SearchJoinedStep == ASSUME Inv, SearchJoined PROVE Inv'
<1> USE DEF Inv
<1>1. /\ app = "search" /\ app' = "browser" /\ search' = DetachedSearch
      /\ UNCHANGED <<rows, indexed, active, config, saved, ws, browser, board, importer, ui>>
  BY DEF SearchJoined, workspace
<1>2. DOMAIN search' = SearchFields /\ search'.db = NoDatabase /\ search'.job = NoJob
  BY <1>1, DetachedShape
<1>3. ControlTypes'
  BY <1>1, <1>2 DEF ControlTypes, AppStages
<1>4. AttachedInv'
  BY <1>1, <1>2, NoJobShape DEF AttachedInv, Running
<1>5. ImportInv'
  BY <1>1, <1>2 DEF ImportInv, ImportActive
<1>6. RecentInv' /\ PanelsInv'
  BY <1>1 DEF RecentInv, PanelsInv
<1> QED
  BY <1>3, <1>4, <1>5, <1>6

LEMMA BrowserJoinedStep == ASSUME Inv, BrowserJoined PROVE Inv'
<1> USE DEF Inv
<1>1. /\ app = "browser" /\ app' = "importer" /\ browser' = DetachedBrowser
      /\ importer' = RequestCancel(importer)
      /\ UNCHANGED <<rows, indexed, active, config, saved, ws, search, board, ui>>
  BY DEF BrowserJoined, workspace
<1>2. DOMAIN browser' = BrowserFields /\ browser'.db = NoDatabase /\ browser'.job = NoJob
  BY <1>1, DetachedShape
<1>3. /\ importer' \in ImportTypes /\ importer'.work = importer.work /\ importer'.db = importer.db
      /\ importer'.left = importer.left /\ importer'.fault = importer.fault
      /\ importer'.state \in {"running", "canceling"} <=> ImportActive
      /\ importer.work # "none" => importer'.stop /\ importer'.state = "canceling"
  BY <1>1, RequestCancelType
<1>4. ControlTypes'
  BY <1>1, <1>2, <1>3 DEF ControlTypes, AppStages
<1>5. AttachedInv'
  BY <1>1, <1>2, NoJobShape DEF AttachedInv, Running
<1>6. ImportInv'
  BY <1>1, <1>2, <1>3 DEF ImportInv, ImportActive
<1>7. RecentInv' /\ PanelsInv'
  BY <1>1 DEF RecentInv, PanelsInv
<1> QED
  BY <1>4, <1>5, <1>6, <1>7

LEMMA ImporterJoinedStep == ASSUME Inv, ImporterJoined PROVE Inv'
<1> USE DEF Inv
<1>1. /\ app = "importer" /\ app' = "closed" /\ active' = NoDatabase /\ indexed' = FALSE
      /\ importer.work = "none" /\ rows' = [rows EXCEPT !.scratch = Missing]
      /\ UNCHANGED <<config, saved, ws, browser, board, search, importer, ui>>
  BY DEF ImporterJoined, panels
<1>2. rows' \in [Databases -> Nat \cup {Missing}] /\ rows'["file"] = rows["file"]
  BY <1>1, RowsUpdate DEF ControlTypes
<1>3. ControlTypes'
  BY <1>1, <1>2 DEF ControlTypes, AppStages
<1>4. AttachedInv'
  BY <1>1, <1>2 DEF AttachedInv, Running
<1>5. ImportInv'
  BY <1>1 DEF ImportInv, ImportActive
<1>6. RecentInv' /\ PanelsInv'
  BY <1>1, <1>2 DEF RecentInv, PanelsInv
<1> QED
  BY <1>3, <1>4, <1>5, <1>6

LEMMA InitInv == Init => Inv
<1> SUFFICES ASSUME Init PROVE Inv
  OBVIOUS
<1>1. /\ ws \in WsTypes /\ ws.stage = "idle" /\ importer \in ImportTypes /\ importer.work = "none" /\ importer.state = "idle"
      /\ ui \in [timer : BOOLEAN, import_active : BOOLEAN, publishing : BOOLEAN]
      /\ rows \in [Databases -> Nat \cup {Missing}] /\ rows["file"] = Missing
      /\ DOMAIN board = {"attached", "loaded", "ply"} /\ ~board.attached
      /\ active = NoDatabase /\ app = "running" /\ config = FALSE /\ saved = FALSE /\ indexed = FALSE
  BY NoImportType DEF Init, WsTypes, Databases, NoBoard
<1>2. browser = DetachedBrowser /\ search = DetachedSearch
  BY DEF Init
<1>3. ControlTypes
  BY <1>1, <1>2, DetachedShape DEF ControlTypes, AppStages
<1>4. AttachedInv
  BY <1>1, <1>2, DetachedShape, NoJobShape DEF AttachedInv, Running
<1>5. ImportInv /\ RecentInv
  BY <1>1 DEF ImportInv, ImportActive, RecentInv
<1>6. PanelsInv
  BY <1>2, DetachedShape, DetachedBrowserInv, DetachedSearchInv DEF PanelsInv, Follows
<1> QED
  BY <1>3, <1>4, <1>5, <1>6 DEF Inv

LEMMA NextInv == Inv /\ [Next]_vars => Inv'
<1> SUFFICES ASSUME Inv, [Next]_vars PROVE Inv'
  OBVIOUS
<1>1. CASE UNCHANGED vars
  BY <1>1 DEF vars, workspace, panels, Inv, ControlTypes, AttachedInv, ImportInv, ImportActive, RecentInv,
              PanelsInv, Running
<1>2. CASE UserStep
  BY <1>2, RequestWorkspaceStep, CloseStep, ToggleNotationStep, BrowserCallbacks, SearchCallbacks,
     ImportRequestedStep, CancelRequestedStep, QuitStep DEF UserStep
<1>3. CASE Completion
  BY <1>3, WorkspaceDoneStep, PanelCompletions, ImportPublishedStep, ImportTickStep DEF Completion
<1>4. CASE Destructor
  BY <1>4, RunnerJoinedStep, SearchJoinedStep, BrowserJoinedStep, ImporterJoinedStep DEF Destructor
<1> QED
  BY <1>1, <1>2, <1>3, <1>4, WorkspaceSteps, BrowserReads, SearchReads, ImportSteps DEF Next

\* The inductive invariant of the desktop application.
THEOREM InvAlways == Spec => []Inv
  BY InitInv, NextInv, PTL DEF Spec

\* No worker ever touches a database that is not the active one, not while the
\* window closes either: the busy checks of the callbacks and the order in which
\* main's locals are destroyed are enough to keep the presenters' references alive.
THEOREM LiveDatabase == Spec => []WorkersUseLiveDatabase
<1>1. Inv => WorkersUseLiveDatabase
  BY DEF Inv, AttachedInv, ImportInv, WorkersUseLiveDatabase
<1> QED
  BY <1>1, InvAlways, PTL

\* No panel and no workspace operation runs while an import writes the database.
THEOREM ImportIsAlone == Spec => []QueriesExcludeImport
<1>1. Inv => QueriesExcludeImport
  BY NoJobShape DEF Inv, ImportInv, QueriesExcludeImport, Running
<1> QED
  BY <1>1, InvAlways, PTL

\* The game list, once its newest query has been applied, is the page of the
\* database's own games under the filter that is set.
THEOREM ListIsFresh == Spec => []ListFresh
<1>1. Inv => ListFresh
  BY DEF Inv, PanelsInv, BrowserInv, ListHolds, ListFresh, Settled
<1> QED
  BY <1>1, InvAlways, PTL

\* Under auto-search, results on show are of the board's position, the browser's
\* filter and the database as it is.
THEOREM SearchIsFresh == Spec => []SearchFresh
<1>1. Inv => SearchFresh
  BY DEF Inv, PanelsInv, Follows, ResultsHold, Shows, SearchFresh, Settled
<1> QED
  BY <1>1, InvAlways, PTL

\* The recent list, in memory and on disk, names the bundle exactly if it exists.
THEOREM RecentHolds == Spec => []RecentIsWhole
<1>1. Inv => RecentIsWhole
  BY DEF Inv, RecentInv, RecentIsWhole
<1> QED
  BY <1>1, InvAlways, PTL

\* Completed is only what nobody asked to stop, with its postings published again and
\* every game in unless an error of stage2 was replaced; canceled only what was asked
\* to stop; failed only what had a failing call.
THEOREM OutcomeIsTrue == Spec => ImportOutcome
<1> DEFINE A == importer.work # "none" /\ importer'.work = "none" =>
                  /\ importer'.state = "completed" =>
                       ~importer.stop /\ indexed /\ (importer.left = 0 \/ importer.fault)
                  /\ importer'.state = "canceled" => importer.stop
                  /\ importer'.state = "failed" => importer.fault
<1>1. Inv /\ [Next]_vars => [A]_vars
  <2> SUFFICES ASSUME Inv, Next, importer.work # "none", importer'.work = "none" PROVE A
    OBVIOUS
  <2>1. ImportActive /\ importer \in ImportTypes
    BY DEF Inv, ImportInv, ControlTypes
  <2>2. importer' # importer
    OBVIOUS
  <2>3. ImportFinishes \/ importer'.work = importer.work
    <3>1. CASE ImportWorker
      <4>1. CASE ImportBegins
        <5>1. \/ importer' = [importer EXCEPT !.work = "ingest"]
              \/ importer' = [importer EXCEPT !.work = "error", !.fault = TRUE]
          BY <4>1 DEF ImportBegins
        <5> QED
          BY <2>1, <5>1 DEF ImportTypes
      <4>2. CASE ImportGame
        BY <2>1, <4>2 DEF ImportGame, ImportTypes
      <4>3. CASE ImportIngested
        BY <2>1, <4>3 DEF ImportIngested, ImportTypes
      <4>4. CASE ImportRebuilds
        BY <2>1, <4>4 DEF ImportRebuilds, ImportTypes
      <4> QED
        BY <3>1, <4>1, <4>2, <4>3, <4>4 DEF ImportWorker
    <3>2. CASE CancelRequested \/ BrowserJoined
      <4>1. importer' = RequestCancel(importer)
        BY <3>2 DEF CancelRequested, BrowserJoined
      <4> QED
        BY <4>1, RequestCancelType
    <3>3. CASE ImportRequested \/ ImportTick
      BY <2>1, <3>3 DEF ImportRequested, ImportTick
    <3>4. CASE ~ImportWorker /\ ~CancelRequested /\ ~BrowserJoined /\ ~ImportRequested /\ ~ImportTick
      BY <3>4 DEF Next, UserStep, WorkspaceWorker, Completion, Destructor, RequestWorkspace, Close, ToggleNotation,
           FiltersChanged, PageRequested, SortRequested, GameSelected, MoveSelection, ActivateRequested,
           BoardNavigated, SearchRequested, AutoSearchToggled, SearchPageRequested, MatchActivated, Quit,
           CreateDatabase, OpenDatabase, ActivateScratch, PersistWorkspace, BrowserRead, SearchRead,
           WorkspaceDone, BrowserQueryDone, ActivationDone, SearchDone, ImportPublished,
           RunnerJoined, SearchJoined, ImporterJoined, BrowserOnly, SearchOnly
    <3> QED
      BY <3>1, <3>2, <3>3, <3>4
  <2>4. ImportFinishes
    BY <2>3
  <2>5. PICK st \in {"failed", "canceled", "completed"} :
          /\ importer' = [NoImport EXCEPT !.state = st]
          /\ st = "completed" => importer.work = "returned" /\ importer.state # "canceling"
          /\ st = "canceled" => importer.state = "canceling"
          /\ st = "failed" => importer.work = "error"
    BY <2>4 DEF ImportFinishes
  <2>6. importer'.state = st
    BY <2>5, NoImportType
  <2> QED
    BY <2>5, <2>6 DEF Inv, ImportInv
<1>2. Spec => [][A]_vars
  BY <1>1, InvAlways, PTL DEF Spec
<1> QED
  BY <1>2 DEF ImportOutcome
=============================================================================
