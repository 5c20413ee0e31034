------------------------ MODULE ImportPipelineProofs ------------------------
(***************************************************************************)
(* Proofs about ImportPipeline: games stay, the identity index comes back, *)
(* the checkpoint is behind the rows, a completed import has stored every  *)
(* readable game, and its summary adds up.                                 *)
(***************************************************************************)
EXTENDS ImportPipeline, FiniteSetTheorems, WellFoundedInduction, TLAPS

-----------------------------------------------------------------------------
(* The inductive invariants. *)

Running == {"ingest", "dedup", "finish", "rebuild", "delete"}

\* What a call may have returned.
Results ==
  [ok : {FALSE}, stopped : {FALSE}] \cup
  [ok : {TRUE}, stopped : BOOLEAN, source : Sources, attempted : Int, committed : Int, skipped : Int]

\* Every offset is within its file, and stage2 follows stage0.
PosInv ==
  /\ chk # None => chk.offset <= Len(Items[chk.source])
  /\ pc \in {"repair", "enter"} => start <= Len(Items[source])
  /\ pc \in Running => /\ start <= done /\ done <= pos /\ pos <= Len(Items[source])
                       /\ offset <= done
  /\ result # None => result \in Results /\ pc = "idle"
  /\ crashes \in Nat /\ failures \in Nat /\ runs \in Nat

\* A transaction is open exactly between a begin and a commit, and sees at least
\* the rows that are there; without raw mode it holds no game twice.
TxInv ==
  IF pc = "ingest" /\ stage2 \in {"insert", "commit"}
  THEN /\ tx \in Bags
       /\ \A g \in Games : tx[g] >= rows[g] /\ (~raw => tx[g] <= 1)
  ELSE tx = None

\* The identity index is away only in raw mode, and comes back unless the process
\* dies or deduplicate() fails.
IndexInv ==
  /\ index => \A g \in Games : rows[g] <= 1
  /\ pc = "ingest" => (raw <=> ~index)
  /\ pc = "dedup" => raw /\ ~index
  /\ pc \in {"finish", "rebuild", "delete"} => index
  /\ pc = "enter" /\ pre_committed # 0 => index
  /\ pc \in {"idle", "repair", "enter"} /\ crashes = 0 /\ "dedup" \notin Faults[lines] => index
  /\ result # None /\ result.ok => index

Inv == TypeOK /\ PosInv /\ TxInv /\ IndexInv

\* Whether every readable game among the first n items of s has a row in r.
Stored(s, n, r) == \A g \in Valid(s, n) : r[g] > 0

\* Who ended the pipeline, and why: with one line stage2 gives up only while
\* stage0 waits for it, so that its error stays on record.
EndInv == pc = "ingest" =>
  /\ lines = 1 /\ stage0 \in {"read", "end"} => done = pos /\ stage2 = "insert"
  /\ stage2 = "error" => lines = 1 /\ fatal_error = "io_failure"
  /\ stage2 = "stop" => stopped
  /\ eof_reached => stopped \/ stage2 = "error" \/ stage0 = "end"
  /\ stage0 = "end" =>
       stopped \/ stage2 = "error" \/ fatal_error = "io_failure" \/ pos = Len(Items[source])

\* Every game stage2 has passed is in the open transaction or committed, and the
\* checkpoint is behind what is committed.
StoredInv ==
  /\ chk # None => Stored(chk.source, chk.offset, rows)
  /\ pc \in {"repair", "enter"} => Stored(source, start, rows)
  /\ pc = "ingest" /\ stage2 \in {"insert", "commit"} => Stored(source, done, tx)
  /\ pc = "ingest" /\ stage2 \in {"checkpoint", "stop"} => Stored(source, done, rows)
  /\ pc \in Running \ {"ingest"} =>
       Stored(source, done, rows) /\ (~stopped => done = Len(Items[source]))
  /\ pc \in {"rebuild", "delete"} => ~stopped
  /\ result # None /\ result.ok /\ ~result.stopped =>
       Stored(result.source, Len(Items[result.source]), rows)

\* Every item taken counts once.
SumInv ==
  pc \in Running /\ (pc = "ingest" => stage2 # "error") =>
    committed - pre_committed + skipped = done - start

DataInv == EndInv /\ StoredInv /\ SumInv

\* What deduplicate() would remove of the rows r.
Surplus(r) == count_games(r) - count_games(Unique(r))

\* An import that does not begin on the raw rows of an interrupted one has committed
\* at least as many games as deduplicate() will remove, so that what it reports is
\* never negative.
CountInv ==
  /\ pc = "enter" /\ clean => \A g \in Games : rows[g] <= 1
  /\ pc = "ingest" /\ clean /\ stage2 \in {"insert", "commit"} =>
       Surplus(tx) <= committed - pre_committed
  /\ pc = "ingest" /\ clean /\ stage2 \in {"checkpoint", "stop"} =>
       Surplus(rows) <= committed - pre_committed
  /\ pc = "dedup" /\ clean => Surplus(rows) <= committed - pre_committed
  /\ pc \in {"finish", "rebuild", "delete"} /\ clean => 0 <= committed - pre_committed
  /\ SummaryAddsUp

-----------------------------------------------------------------------------
(* count_games() returns a number. *)

\* A set of numbers that is not empty has a least one.
LEMMA LeastNumber ==
  ASSUME NEW T, T \subseteq Nat, T # {}
  PROVE  \E x \in T : \A y \in T : x <= y
<1>1. PICK R : IsWellFoundedOn(R, Nat) /\ R = {p \in Nat \X Nat : p[1] < p[2]}
  BY NatLessThanWellFounded DEF OpToRel
<1>2. PICK x \in T : \A y \in T : <<y, x>> \notin R
  BY <1>1, WFMin, Zenon
<1>3. SUFFICES ASSUME NEW y \in T PROVE x <= y
  BY <1>3
<1>4. x \in Nat /\ y \in Nat
  OBVIOUS
<1>5. <<y, x>> \in R <=> y < x
  <2>1. <<y, x>> \in Nat \X Nat
    BY <1>4
  <2> QED BY <2>1, <1>1
<1>6. ~(y < x)
  BY <1>2, <1>5
<1> QED BY <1>4, <1>6

\* The game counted next, and one step of the count.
Pick(s) == CHOOSE x \in s : TRUE
SumStep(f, r, s) == IF s = {} THEN 0 ELSE r[Pick(s)] + f[s \ {Pick(s)}]

UpTo(n) == {s \in SUBSET Games : Cardinality(s) <= n}

\* f counts the rows of every set of games of domain D.
IsSum(f, r, D) == f = [s \in D |-> SumStep(f, r, s)]

\* A set of games loses one when its next game is counted.
LEMMA PickFacts ==
  ASSUME NEW s \in SUBSET Games
  PROVE  /\ IsFiniteSet(s) /\ Cardinality(s) \in Nat
         /\ s # {} => /\ Pick(s) \in s /\ s \ {Pick(s)} \in SUBSET Games
                      /\ Cardinality(s \ {Pick(s)}) = Cardinality(s) - 1
<1>1. IsFiniteSet(s) /\ Cardinality(s) \in Nat
  BY ImportAssumption, FS_Subset, FS_CardinalityType
<1>2. s # {} => Pick(s) \in s
  BY DEF Pick
<1>3. s # {} => Cardinality(s \ {Pick(s)}) = Cardinality(s) - 1
  BY <1>1, <1>2, FS_RemoveElement
<1> QED BY <1>1, <1>2, <1>3

\* The count exists for sets of every size (induction on the size).
LEMMA SumExists ==
  ASSUME NEW r, NEW k \in Nat
  PROVE  \E f : IsSum(f, r, UpTo(k))
<1> DEFINE B == {n \in Nat : ~\E f : IsSum(f, r, UpTo(n))}
<1>1. SUFFICES ASSUME B # {} PROVE FALSE
  OBVIOUS
<1>2. PICK n \in B : \A m \in B : n <= m
  <2>1. B \subseteq Nat
    OBVIOUS
  <2> HIDE DEF B
  <2> QED BY <2>1, <1>1, LeastNumber, Zenon
<1>3. n \in Nat /\ ~\E f : IsSum(f, r, UpTo(n))
  BY <1>2
<1>4. CASE n = 0
  <2>1. \A s \in UpTo(n) : s = {}
    <3> TAKE s \in UpTo(n)
    <3>1. s \in SUBSET Games /\ Cardinality(s) <= 0
      BY <1>4 DEF UpTo
    <3>2. IsFiniteSet(s) /\ Cardinality(s) \in Nat
      BY <3>1, PickFacts
    <3>3. Cardinality(s) = 0
      BY <3>1, <3>2
    <3> QED BY <3>2, <3>3, FS_EmptySet
  <2> DEFINE f == [s \in UpTo(n) |-> 0]
  <2>2. \A s \in UpTo(n) : SumStep(f, r, s) = 0
    BY <2>1 DEF SumStep
  <2>3. IsSum(f, r, UpTo(n))
    BY <2>2 DEF IsSum
  <2> QED BY <2>3, <1>3
<1>5. CASE n # 0
  <2>1. n - 1 \in Nat /\ n - 1 \notin B
    <3>1. n - 1 \in Nat /\ ~(n <= n - 1)
      BY <1>3, <1>5
    <3> HIDE DEF B
    <3> QED BY <1>2, <3>1
  <2>2. PICK f : IsSum(f, r, UpTo(n - 1))
    BY <2>1
  <2> DEFINE g == [s \in UpTo(n) |-> SumStep(f, r, s)]
  <2>3. \A s \in UpTo(n - 1) : s \in UpTo(n)
    <3> TAKE s \in UpTo(n - 1)
    <3>1. s \in SUBSET Games /\ Cardinality(s) \in Nat /\ Cardinality(s) <= n - 1
      BY PickFacts DEF UpTo
    <3> QED BY <1>3, <3>1 DEF UpTo
  <2>4. \A s \in UpTo(n - 1) : f[s] = SumStep(f, r, s)
    BY <2>2 DEF IsSum
  <2>5. \A s \in UpTo(n - 1) : g[s] = f[s]
    BY <2>3, <2>4
  <2>6. ASSUME NEW s \in UpTo(n) PROVE SumStep(f, r, s) = SumStep(g, r, s)
    <3>1. CASE s = {}
      BY <3>1 DEF SumStep
    <3>2. CASE s # {}
      <4>1. s \in SUBSET Games /\ Cardinality(s) <= n
        BY DEF UpTo
      <4>2. /\ Cardinality(s) \in Nat /\ s \ {Pick(s)} \in SUBSET Games
            /\ Cardinality(s \ {Pick(s)}) = Cardinality(s) - 1
        BY <3>2, <4>1, PickFacts
      <4>3. Cardinality(s \ {Pick(s)}) <= n - 1
        BY <1>3, <4>1, <4>2
      <4>4. s \ {Pick(s)} \in UpTo(n - 1)
        BY <4>2, <4>3 DEF UpTo
      <4>5. g[s \ {Pick(s)}] = f[s \ {Pick(s)}]
        <5> HIDE DEF g
        <5> QED BY <2>5, <4>4
      <4> HIDE DEF g
      <4> QED BY <4>5 DEF SumStep
    <3> QED BY <3>1, <3>2
  <2>7. g = [s \in UpTo(n) |-> SumStep(g, r, s)]
    <3>1. \A s \in UpTo(n) : SumStep(f, r, s) = SumStep(g, r, s)
      BY <2>6
    <3> DEFINE h == g
    <3>2. h = [s \in UpTo(n) |-> SumStep(f, r, s)] /\ \A s \in UpTo(n) : SumStep(f, r, s) = SumStep(h, r, s)
      BY <3>1
    <3>3. h = [s \in UpTo(n) |-> SumStep(h, r, s)]
      <4> HIDE DEF h
      <4> QED BY <3>2
    <3> QED BY <3>3
  <2>8. IsSum(g, r, UpTo(n))
    BY <2>7 DEF IsSum
  <2> HIDE DEF g
  <2> QED BY <2>8, <1>3
<1> QED BY <1>4, <1>5

\* count_games() adds up the rows one game after the other.
LEMMA CountFunction ==
  ASSUME NEW r
  PROVE  \E f : count_games(r) = f[Games] /\ \A s \in SUBSET Games : f[s] = SumStep(f, r, s)
<1> DEFINE P(f) == f = [s \in SUBSET Games |-> SumStep(f, r, s)]
<1>1. count_games(r) = (CHOOSE f : P(f))[Games]
  BY DEF count_games, MapThenSumSet, MapThenFoldSet, SumStep, Pick
<1>2. \E f : P(f)
  <2>1. Cardinality(Games) \in Nat
    BY PickFacts
  <2>2. UpTo(Cardinality(Games)) = SUBSET Games
    BY ImportAssumption, FS_Subset DEF UpTo
  <2>3. PICK f : IsSum(f, r, UpTo(Cardinality(Games)))
    BY <2>1, SumExists
  <2>4. P(f)
    BY <2>2, <2>3 DEF IsSum
  <2> QED BY <2>4
<1> DEFINE f == CHOOSE f : P(f)
<1>3. P(f)
  <2> HIDE DEF P
  <2> QED BY <1>2, Zenon
<1>4. count_games(r) = f[Games]
  BY <1>1
<1> HIDE DEF f
<1>5. \A s \in SUBSET Games : f[s] = SumStep(f, r, s)
  BY <1>3
<1> QED BY <1>4, <1>5

\* A set of games grows from the empty set.
LEMMA GamesWellFounded == IsWellFoundedOn(StrictSubsetOrdering(Games), SUBSET Games)
<1>1. IsFiniteSet(Games)
  BY ImportAssumption
<1>2. FiniteSubsetsOf(Games) = SUBSET Games
  BY <1>1, FS_FiniteSubsetsOfFinite
<1> QED BY <1>1, <1>2, FS_StrictSubsetOrderingWellFounded

\* A family of sets of games that is not empty has a member that stays outside it
\* when its next game is taken away (induction on the set of games).
LEMMA SmallestSet ==
  ASSUME NEW T, T \subseteq SUBSET Games, T # {}
  PROVE  \E s \in T : s # {} => s \ {Pick(s)} \notin T
<1>1. PICK s \in T : \A t \in T : <<t, s>> \notin StrictSubsetOrdering(Games)
  BY GamesWellFounded, WFMin, Zenon
<1> DEFINE t == s \ {Pick(s)}
<1>2. s \in SUBSET Games
  OBVIOUS
<1>3. ASSUME s # {} PROVE t \notin T
  <2>1. Pick(s) \in s /\ t \in SUBSET Games /\ t # s
    BY <1>2, <1>3, PickFacts
  <2>2. <<t, s>> \in StrictSubsetOrdering(Games)
    <3>1. <<t, s>> \in (SUBSET Games) \X (SUBSET Games) /\ t \subseteq s
      BY <1>2, <2>1
    <3> HIDE DEF t
    <3> QED BY <2>1, <3>1 DEF StrictSubsetOrdering
  <2> HIDE DEF t
  <2> QED BY <1>1, <2>2
<1> QED BY <1>3

\* The number of rows is a number, and fewer rows of each game are fewer rows.
LEMMA CountFacts ==
  ASSUME NEW r \in Bags, NEW q \in Bags, \A g \in Games : q[g] <= r[g]
  PROVE  count_games(r) \in Nat /\ count_games(q) \in Nat /\ count_games(q) <= count_games(r)
<1>1. PICK f : count_games(r) = f[Games] /\ \A s \in SUBSET Games : f[s] = SumStep(f, r, s)
  BY CountFunction
<1>2. PICK h : count_games(q) = h[Games] /\ \A s \in SUBSET Games : h[s] = SumStep(h, q, s)
  BY CountFunction
<1> DEFINE Good(s) == f[s] \in Nat /\ h[s] \in Nat /\ h[s] <= f[s]
<1> DEFINE T == {s \in SUBSET Games : ~Good(s)}
<1>3. T = {}
  <2> SUFFICES ASSUME T # {} PROVE FALSE
    OBVIOUS
  <2>1. PICK s \in T : s # {} => s \ {Pick(s)} \notin T
    <3>1. T \subseteq SUBSET Games
      OBVIOUS
    <3> HIDE DEF T
    <3> QED BY <3>1, SmallestSet
  <2>2. s \in SUBSET Games /\ ~Good(s)
    BY <2>1
  <2>3. ASSUME s = {} PROVE FALSE
    <3>1. f[s] = 0 /\ h[s] = 0
      BY <1>1, <1>2, <2>2, <2>3 DEF SumStep
    <3> QED BY <3>1, <2>2
  <2> DEFINE t == s \ {Pick(s)}
  <2>4. Pick(s) \in s /\ t \in SUBSET Games
    BY <2>2, <2>3, PickFacts
  <2>5. Good(t)
    BY <2>1, <2>3, <2>4
  <2>6. f[s] = r[Pick(s)] + f[t] /\ h[s] = q[Pick(s)] + h[t]
    BY <1>1, <1>2, <2>2, <2>3 DEF SumStep
  <2>7. r[Pick(s)] \in Nat /\ q[Pick(s)] \in Nat /\ q[Pick(s)] <= r[Pick(s)]
    BY <2>2, <2>4 DEF Bags
  <2> HIDE DEF t
  <2> QED BY <2>2, <2>5, <2>6, <2>7
<1>4. Good(Games)
  <2>1. Games \in SUBSET Games
    OBVIOUS
  <2> HIDE DEF Good
  <2> QED BY <1>3, <2>1
<1> QED BY <1>1, <1>2, <1>4

-----------------------------------------------------------------------------
(* The writer's calls. *)

\* What a step may never do to the rows.
Grows == \A g \in Games : rows[g] > 0 => rows'[g] > 0

\* dedup_delete_sql leaves exactly one row of every game that has one.
LEMMA UniqueFacts ==
  ASSUME NEW r \in Bags
  PROVE  /\ Unique(r) \in Bags
         /\ \A g \in Games : /\ Unique(r)[g] <= 1 /\ Unique(r)[g] <= r[g]
                             /\ r[g] > 0 => Unique(r)[g] > 0
<1>1. \A g \in Games : r[g] \in Nat /\ Unique(r)[g] = IF r[g] > 0 THEN 1 ELSE 0
  BY DEF Bags, Unique
<1>2. Unique(r) \in Bags
  BY DEF Bags, Unique
<1> QED BY <1>1, <1>2

\* deduplicate() either works, or fails and changes nothing.
LEMMA DeduplicateFacts ==
  ASSUME rows \in Bags, index \in BOOLEAN, failures \in Nat, deduplicate
  PROVE  /\ rows' \in Bags /\ index' \in BOOLEAN /\ failures' \in Nat /\ Grows
         /\ \A g \in Games : rows'[g] <= rows[g]
         /\ \/ index' /\ \A g \in Games : rows'[g] <= 1
            \/ rows' = rows /\ index' = index /\ "dedup" \in Faults[lines]
<1>1. CASE rows' = Unique(rows) /\ index' = TRUE /\ UNCHANGED failures
  BY <1>1, UniqueFacts DEF Grows
<1>2. CASE Fails("dedup") /\ UNCHANGED <<rows, index>>
  <2>1. \A g \in Games : rows[g] \in Nat
    BY DEF Bags
  <2> QED BY <1>2, <2>1 DEF Fails, Grows
<1> QED BY <1>1, <1>2 DEF deduplicate

\* restore_identity_index() does so in raw mode, and leaves everything alone otherwise.
LEMMA RestoreFacts ==
  ASSUME rows \in Bags, index \in BOOLEAN, raw \in BOOLEAN, failures \in Nat, NEW lost \in Nat,
         restore_identity_index(lost)
  PROVE  /\ rows' \in Bags /\ index' \in BOOLEAN /\ failures' \in Nat /\ Grows
         /\ \/ index' /\ \A g \in Games : rows'[g] <= 1
            \/ rows' = rows /\ index' = index /\ (~raw \/ "dedup" \in Faults[lines])
<1>1. CASE rows' = Unique(rows) /\ index' = TRUE /\ failures' = failures + lost
  <2>1. index' \in BOOLEAN /\ failures' \in Nat
    BY <1>1
  <2> QED BY <1>1, <2>1, UniqueFacts DEF Grows
<1>2. CASE /\ failures' = failures + lost + 1 \/ failures' = failures + lost
           /\ UNCHANGED <<rows, index>> /\ (~raw \/ "dedup" \in Faults[lines])
  BY <1>2 DEF Grows
<1>3. \/ rows' = Unique(rows) /\ index' = TRUE /\ failures' = failures + lost
      \/ /\ failures' = failures + lost + 1 \/ failures' = failures + lost
         /\ UNCHANGED <<rows, index>> /\ (~raw \/ "dedup" \in Faults[lines])
  BY DEF restore_identity_index
<1> QED BY <1>1, <1>2, <1>3

\* What run() returns is a result.
LEMMA FailedType == Failed \in Results
<1>1. Failed \in [ok : {FALSE}, stopped : {FALSE}]
  BY DEF Failed
<1> QED BY <1>1 DEF Results

\* The summary of the work done so far is a result.
LEMMA SummaryType ==
  ASSUME TypeOK, NEW halt \in BOOLEAN
  PROVE  Summary(halt) \in Results
<1>1. /\ done - start \in Int /\ Size(committed - pre_committed) \in Int /\ skipped \in Int
      /\ source \in Sources
  BY ImportAssumption DEF TypeOK, Size
<1>2. Summary(halt) \in [ok : {TRUE}, stopped : BOOLEAN, source : Sources, attempted : Int,
                         committed : Int, skipped : Int]
  BY <1>1 DEF Summary
<1> QED BY <1>2 DEF Results

-----------------------------------------------------------------------------
(* What every step keeps. *)

\* A new bundle holds no row, no checkpoint and the identity index.
LEMMA InitInv == Init => Inv
<1> SUFFICES ASSUME Init PROVE Inv
  OBVIOUS
<1>1. /\ rows \in Bags /\ \A g \in Games : rows[g] = 0
  BY DEF Init, Bags
<1>2. TypeOK
  <2>1. index \in BOOLEAN /\ raw \in BOOLEAN /\ eof_reached \in BOOLEAN
    BY DEF Init
  <2>2. stopped \in BOOLEAN /\ stop \in BOOLEAN
    BY DEF Init
  <2> QED BY <1>1, <2>1, <2>2 DEF Init, TypeOK
<1>3. PosInv
  BY DEF Init, PosInv, Running
<1>4. TxInv
  BY DEF Init, TxInv
<1>5. IndexInv
  BY <1>1 DEF Init, IndexInv
<1> QED BY <1>2, <1>3, <1>4, <1>5 DEF Inv

\* run() and resume(): a checkpoint taken up is within its file.
LEMMA RunInv ==
  ASSUME Inv, NEW s \in Sources, Run(s)
  PROVE  Inv' /\ Grows
<1> DEFINE resumes == chk # None /\ chk.source = s
<1>1. /\ rows' = rows /\ index' = index /\ chk' = chk /\ lines' = lines /\ tx' = tx /\ raw' = raw
      /\ eof_reached' = eof_reached /\ stopped' = stopped /\ fatal_error' = fatal_error
      /\ offset' = offset /\ committed' = committed /\ pending' = pending /\ skipped' = skipped
      /\ pos' = pos /\ done' = done /\ stage0' = stage0 /\ stage2' = stage2
      /\ failures' = failures /\ crashes' = crashes
      /\ source' = s /\ stop' = FALSE /\ result' = None /\ runs' = runs + 1
      /\ pc = "idle" /\ pc' = IF resumes /\ ~index THEN "repair" ELSE "enter"
      /\ start' = IF resumes THEN chk.offset ELSE 0
      /\ pre_committed' = IF resumes THEN chk.committed ELSE 0
  BY DEF Run, storage, flags, progress, stages
<1>2. resumes => /\ chk.offset \in Nat /\ chk.offset <= Len(Items[s]) /\ chk.committed \in Int
  BY DEF Inv, TypeOK, PosInv
<1>3. Len(Items[s]) \in Nat
  BY ImportAssumption
<1>4. start' \in Nat /\ start' <= Len(Items[s]) /\ pre_committed' \in Int
  <2> HIDE DEF resumes
  <2>1. CASE resumes
    BY <1>1, <1>2, <2>1
  <2>2. CASE ~resumes
    BY <1>1, <1>3, <2>2
  <2> QED BY <2>1, <2>2
<1>5. pc' = "repair" \/ (pc' = "enter" /\ (pre_committed' # 0 => index))
  BY <1>1
<1> HIDE DEF resumes
<1>6. TypeOK'
  <2>1. stop' \in BOOLEAN
    BY <1>1
  <2> QED BY <1>1, <1>4, <1>5, <2>1 DEF Inv, TypeOK
<1>7. PosInv'
  BY <1>1, <1>4, <1>5 DEF Inv, PosInv, Running
<1>8. TxInv'
  BY <1>1, <1>5 DEF Inv, TxInv
<1>9. IndexInv'
  BY <1>1, <1>5 DEF Inv, IndexInv
<1>10. Grows
  BY <1>1 DEF Grows
<1> QED BY <1>6, <1>7, <1>8, <1>9, <1>10 DEF Inv

\* resume_from_checkpoint(): the repair ends with the index, or fails.
LEMMA RepairInv ==
  ASSUME Inv, Repair
  PROVE  Inv' /\ Grows
<1>1. /\ chk' = chk /\ lines' = lines /\ raw' = raw /\ source' = source /\ start' = start
      /\ eof_reached' = eof_reached /\ stopped' = stopped /\ fatal_error' = fatal_error
      /\ offset' = offset /\ committed' = committed /\ pending' = pending /\ skipped' = skipped
      /\ pos' = pos /\ done' = done /\ stage0' = stage0 /\ stage2' = stage2
      /\ stop' = stop /\ runs' = runs /\ crashes' = crashes
      /\ pc = "repair" /\ deduplicate
  BY DEF Repair, flags, progress, stages
<1>2. /\ rows \in Bags /\ index \in BOOLEAN /\ failures \in Nat /\ tx = None
      /\ start <= Len(Items[source]) /\ result = None
  BY <1>1 DEF Inv, TypeOK, PosInv, TxInv
<1>3. /\ rows' \in Bags /\ index' \in BOOLEAN /\ failures' \in Nat /\ Grows
      /\ \/ index' /\ \A g \in Games : rows'[g] <= 1
         \/ rows' = rows /\ index' = index /\ "dedup" \in Faults[lines]
  BY <1>1, <1>2, DeduplicateFacts
<1>4. \/ index' /\ pre_committed' = count_games(rows') /\ pc' = "enter" /\ tx' = None /\ result' = None
      \/ /\ ~index' /\ pre_committed' = pre_committed /\ pc' = "idle" /\ tx' = None
         /\ result' = [ok |-> FALSE, stopped |-> FALSE]
  BY <1>2, <1>3 DEF Repair, Returns, Failed
<1>5. count_games(rows') \in Nat
  <2>1. \A g \in Games : rows'[g] <= rows'[g]
    BY <1>3 DEF Bags
  <2> QED BY <1>3, <2>1, CountFacts
<1>6. TypeOK'
  BY <1>1, <1>3, <1>4, <1>5 DEF Inv, TypeOK
<1>7. PosInv'
  <2>1. result' # None => result' \in Results /\ pc' = "idle"
    BY <1>4, FailedType DEF Failed
  <2> QED BY <1>1, <1>2, <1>3, <1>4, <2>1 DEF Inv, PosInv, Running
<1>8. TxInv'
  BY <1>4 DEF TxInv
<1>9. IndexInv'
  BY <1>1, <1>3, <1>4 DEF Inv, IndexInv
<1> QED BY <1>3, <1>6, <1>7, <1>8, <1>9 DEF Inv

\* run_from() up to the pipeline: raw mode exactly when nothing was committed before.
LEMMA EnterInv ==
  ASSUME Inv, Enter
  PROVE  Inv' /\ Grows
<1>1. /\ chk' = chk /\ lines' = lines /\ source' = source /\ start' = start
      /\ pre_committed' = pre_committed /\ stop' = stop /\ runs' = runs /\ crashes' = crashes
      /\ pos' = start /\ done' = start /\ stage0' = "check" /\ stage2' = "insert"
      /\ fatal_error' = "none" /\ offset' = start /\ committed' = pre_committed
      /\ pending' = 0 /\ skipped' = 0 /\ pc = "enter"
  BY DEF Enter
<1>2. /\ rows \in Bags /\ index \in BOOLEAN /\ failures \in Nat /\ tx = None
      /\ start <= Len(Items[source]) /\ result = None /\ start \in Nat
      /\ \A g \in Games : rows[g] \in Nat
  BY <1>1 DEF Inv, TypeOK, PosInv, TxInv, Bags
<1>3. eof_reached' \in BOOLEAN /\ stopped' \in BOOLEAN /\ raw' \in BOOLEAN
  BY DEF Enter
<1>4. raw' <=> pre_committed = 0
  BY DEF Enter
<1>5. CASE /\ pc' = "idle" /\ tx' = None /\ result' = Failed /\ failures' \in Nat
           /\ rows' \in Bags /\ index' \in BOOLEAN /\ Grows
           /\ \/ index' /\ \A g \in Games : rows'[g] <= 1
              \/ rows' = rows /\ index' = index
              \/ ~index' /\ "dedup" \in Faults[lines]
  <2>1. TypeOK'
    BY <1>1, <1>2, <1>3, <1>5 DEF Inv, TypeOK
  <2>2. PosInv'
    <3>1. result' \in Results
      BY <1>5, FailedType
    <3> QED BY <1>1, <1>2, <1>5, <3>1 DEF Inv, PosInv, Running
  <2>3. TxInv'
    BY <1>5 DEF TxInv
  <2>4. IndexInv'
    <3>1. ~result'.ok
      BY <1>5 DEF Failed
    <3> QED BY <1>1, <1>2, <1>5, <3>1 DEF Inv, IndexInv
  <2> QED BY <1>5, <2>1, <2>2, <2>3, <2>4 DEF Inv
<1>6. CASE /\ tx' = rows /\ pc' = "ingest" /\ rows' = rows /\ failures' = failures /\ result' = result
           /\ index' \in BOOLEAN /\ (index' <=> index /\ pre_committed # 0)
  <2>1. TypeOK'
    BY <1>1, <1>2, <1>3, <1>6 DEF Inv, TypeOK
  <2>2. PosInv'
    BY <1>1, <1>2, <1>6 DEF Inv, PosInv, Running
  <2>3. index' => \A g \in Games : rows'[g] <= 1
    BY <1>6 DEF Inv, IndexInv
  <2>4. raw' <=> ~index'
    BY <1>1, <1>4, <1>6 DEF Inv, IndexInv
  <2>5. TxInv'
    BY <1>1, <1>2, <1>6, <2>3, <2>4 DEF TxInv
  <2>6. IndexInv'
    BY <1>2, <1>6, <2>3, <2>4 DEF IndexInv
  <2>7. Grows
    BY <1>6 DEF Grows
  <2> QED BY <2>1, <2>2, <2>5, <2>6, <2>7 DEF Inv
<1>7. CASE /\ failures' = failures + 1
           /\ Returns(Failed) /\ UNCHANGED <<rows, index>>
  BY <1>2, <1>5, <1>7 DEF Returns, Grows
<1>8. CASE /\ failures' = failures + 1 /\ Returns(Failed) /\ rows' = Unique(rows) /\ index' = TRUE
  <2>1. index' \in BOOLEAN /\ failures' \in Nat
    BY <1>2, <1>8
  <2>2. rows' \in Bags /\ Grows /\ \A g \in Games : rows'[g] <= 1
    BY <1>2, <1>8, UniqueFacts DEF Grows
  <2> QED BY <1>5, <1>8, <2>1, <2>2 DEF Returns
<1>9. CASE /\ failures' = failures + 1 /\ Returns(Failed) /\ rows' = rows /\ index' = FALSE
           /\ "dedup" \in Faults[lines]
  <2>1. index' \in BOOLEAN
    BY <1>9
  <2>2. failures' \in Nat
    BY <1>2, <1>9
  <2> QED BY <1>2, <1>5, <1>9, <2>1, <2>2 DEF Returns, Grows
<1>10. CASE /\ index' = (index /\ pre_committed # 0)
            /\ tx' = rows /\ pc' = "ingest" /\ UNCHANGED <<rows, failures, result>>
  <2>1. index' \in BOOLEAN /\ (index' <=> index /\ pre_committed # 0)
    BY <1>10
  <2> QED BY <1>6, <1>10, <2>1
<1> QED BY <1>7, <1>8, <1>9, <1>10 DEF Enter, Fails

\* stage0 looks at the flags: it touches nothing but them.
LEMMA Stage0CheckInv ==
  ASSUME Inv, Stage0Check
  PROVE  Inv' /\ Grows
<1>1. /\ rows' = rows /\ index' = index /\ chk' = chk /\ pc' = pc
      /\ source' = source /\ lines' = lines /\ raw' = raw /\ start' = start
      /\ pre_committed' = pre_committed /\ tx' = tx /\ fatal_error' = fatal_error
      /\ offset' = offset /\ committed' = committed /\ pending' = pending /\ skipped' = skipped
      /\ pos' = pos /\ done' = done /\ stage2' = stage2 /\ stop' = stop /\ result' = result
      /\ runs' = runs /\ failures' = failures /\ crashes' = crashes
  BY DEF Stage0Check, storage, input, progress, budget
<1>2. stopped' \in BOOLEAN /\ eof_reached' \in BOOLEAN
  <2>1. CASE stop
    <3>1. stopped' = TRUE /\ eof_reached' = TRUE
      BY <2>1 DEF Stage0Check
    <3> QED BY <3>1
  <2>2. CASE ~stop
    BY <2>2 DEF Stage0Check, Inv, TypeOK
  <2> QED BY <2>1, <2>2
<1>3. stage0' \in {"check", "read", "end"}
  BY DEF Stage0Check
<1>4. TypeOK'
  BY <1>1, <1>2, <1>3 DEF Inv, TypeOK
<1>5. PosInv'
  BY <1>1 DEF Inv, PosInv, Running
<1>6. TxInv'
  BY <1>1 DEF Inv, TxInv
<1>7. IndexInv'
  BY <1>1 DEF Inv, IndexInv
<1> QED BY <1>1, <1>4, <1>5, <1>6, <1>7 DEF Inv, Grows

\* stage0 reads: never past the end of the file.
LEMMA Stage0ReadInv ==
  ASSUME Inv, Stage0Read
  PROVE  Inv' /\ Grows
<1>1. /\ rows' = rows /\ index' = index /\ chk' = chk /\ pc' = pc /\ pc = "ingest"
      /\ source' = source /\ lines' = lines /\ raw' = raw /\ start' = start
      /\ pre_committed' = pre_committed /\ tx' = tx /\ stopped' = stopped
      /\ offset' = offset /\ committed' = committed /\ pending' = pending /\ skipped' = skipped
      /\ done' = done /\ stage2' = stage2 /\ stop' = stop /\ result' = result
      /\ runs' = runs /\ crashes' = crashes
  BY DEF Stage0Read, storage, input, progress
<1>2. pos \in Nat /\ done \in Nat /\ failures \in Nat /\ done <= pos /\ Len(Items[source]) \in Nat
  BY <1>1, ImportAssumption DEF Inv, TypeOK, PosInv, Running
<1>3. /\ pos' \in Nat /\ done <= pos' /\ pos' <= Len(Items[source]) /\ failures' \in Nat
      /\ stage0' \in {"check", "read", "end"} /\ fatal_error' \in {"none", "eof", "io_failure"}
  BY <1>1, <1>2 DEF Stage0Read, Fails, Inv, TypeOK, PosInv, Running
<1>4. eof_reached' \in BOOLEAN
  <2>1. eof_reached' = eof_reached \/ eof_reached' = TRUE
    BY DEF Stage0Read
  <2> QED BY <2>1 DEF Inv, TypeOK
<1>5. TypeOK'
  BY <1>1, <1>3, <1>4 DEF Inv, TypeOK
<1>6. PosInv'
  BY <1>1, <1>3 DEF Inv, PosInv, Running
<1>7. TxInv'
  BY <1>1 DEF Inv, TxInv
<1>8. IndexInv'
  BY <1>1 DEF Inv, IndexInv
<1> QED BY <1>1, <1>5, <1>6, <1>7, <1>8 DEF Inv, Grows

\* The transaction after stage2 inserted the next game.
LEMMA InsertFacts ==
  ASSUME Inv, pc = "ingest", stage2 = "insert", done < pos
  PROVE  /\ done + 1 \in 1..Len(Items[source]) /\ Item \in Games \cup {Bad}
         /\ tx \in Bags /\ \A g \in Games : tx[g] \in Nat /\ rows[g] \in Nat /\ tx[g] >= rows[g]
         /\ Item # Bad =>
              /\ [tx EXCEPT ![Item] = @ + 1] \in Bags
              /\ \A g \in Games :
                   [tx EXCEPT ![Item] = @ + 1][g] = IF g = Item THEN tx[g] + 1 ELSE tx[g]
<1>1. /\ pos \in Nat /\ done \in Nat /\ pos <= Len(Items[source])
      /\ Items[source] \in Seq(Games \cup {Bad})
  BY ImportAssumption DEF Inv, TypeOK, PosInv, Running
<1>2. done + 1 \in 1..Len(Items[source]) /\ Len(Items[source]) \in Nat
  BY <1>1
<1>3. Item \in Games \cup {Bad}
  BY <1>1, <1>2 DEF Item
<1>4. tx \in Bags /\ \A g \in Games : tx[g] \in Nat /\ rows[g] \in Nat /\ tx[g] >= rows[g]
  BY DEF Inv, TxInv, TypeOK, Bags
<1>5. ASSUME Item # Bad
      PROVE  /\ [tx EXCEPT ![Item] = @ + 1] \in Bags
             /\ \A g \in Games :
                   [tx EXCEPT ![Item] = @ + 1][g] = IF g = Item THEN tx[g] + 1 ELSE tx[g]
  BY <1>3, <1>4, <1>5 DEF Bags
<1> QED BY <1>2, <1>3, <1>4, <1>5

\* stage2 inserts: outside raw mode no game twice.
LEMMA Stage2InsertInv ==
  ASSUME Inv, Stage2Insert
  PROVE  Inv' /\ Grows
<1>1. /\ rows' = rows /\ index' = index /\ chk' = chk /\ pc' = pc /\ pc = "ingest"
      /\ source' = source /\ lines' = lines /\ raw' = raw /\ start' = start
      /\ pre_committed' = pre_committed /\ stopped' = stopped /\ stage2 = "insert"
      /\ pos' = pos /\ stage0' = stage0 /\ stop' = stop /\ result' = result
      /\ runs' = runs /\ crashes' = crashes /\ done' = done + 1 /\ done < pos
  BY DEF Stage2Insert, storage, input
<1>2. /\ done \in Nat /\ start <= done' /\ done' \in Nat /\ done' <= pos /\ done <= done'
      /\ offset <= done' /\ pos \in Nat /\ start \in Nat /\ offset \in Nat
  BY <1>1 DEF Inv, TypeOK, PosInv, Running
<1>3. /\ failures' \in Nat /\ skipped' \in Nat /\ offset' \in Nat /\ offset' <= done'
      /\ committed' \in Int /\ pending' \in Nat
      /\ stage2' \in {"insert", "commit", "checkpoint", "stop", "error"}
      /\ fatal_error' \in {"none", "eof", "io_failure"}
  <2>1. /\ failures \in Nat /\ skipped \in Nat /\ committed \in Int /\ pending \in Nat
        /\ fatal_error \in {"none", "eof", "io_failure"}
    BY DEF Inv, TypeOK, PosInv
  <2>2. CASE skipped' = skipped + 1 /\ UNCHANGED <<tx, offset, committed, pending, stage2, fatal_error, failures>>
    BY <1>1, <1>2, <2>1, <2>2
  <2>3. CASE /\ offset' = done' /\ committed' = committed + 1 /\ pending' = pending + 1
             /\ stage2' = IF pending' >= BatchSize THEN "commit" ELSE "insert"
             /\ UNCHANGED <<skipped, fatal_error, failures>>
    BY <1>1, <1>2, <2>1, <2>3
  <2>4. CASE Fails("insert") /\ Abort /\ UNCHANGED <<skipped, offset, committed, pending>>
    BY <1>1, <1>2, <2>1, <2>4 DEF Fails, Abort
  <2> QED BY <2>2, <2>3, <2>4 DEF Stage2Insert
<1>4. eof_reached' \in BOOLEAN
  <2>1. eof_reached' = eof_reached \/ eof_reached' = TRUE
    BY DEF Stage2Insert, Abort
  <2> QED BY <2>1 DEF Inv, TypeOK
<1>5. /\ tx \in Bags /\ \A g \in Games : tx[g] \in Nat /\ rows[g] \in Nat /\ tx[g] >= rows[g]
      /\ Item \in Games \cup {Bad}
  BY <1>1, InsertFacts
<1>6. /\ tx' \in Bags \cup {None} /\ TxInv'
  <2>1. CASE UNCHANGED <<tx, stage2>>
    BY <1>1, <1>5, <2>1 DEF Inv, TxInv
  <2>2. CASE /\ Item # Bad /\ ~Duplicate /\ tx' = [tx EXCEPT ![Item] = @ + 1]
             /\ stage2' \in {"commit", "insert"}
    <3>1. /\ tx' \in Bags
          /\ \A g \in Games : tx'[g] = IF g = Item THEN tx[g] + 1 ELSE tx[g]
      BY <1>1, <2>2, InsertFacts
    <3>2. ~raw => tx[Item] <= 0
      BY <1>5, <2>2 DEF Duplicate
    <3>3. \A g \in Games : tx'[g] >= rows[g] /\ (~raw => tx'[g] <= 1)
      BY <1>1, <1>5, <3>1, <3>2 DEF Inv, TxInv
    <3> QED BY <1>1, <2>2, <3>1, <3>3 DEF TxInv
  <2>3. CASE tx' = None /\ stage2' = "error"
    BY <2>3 DEF TxInv
  <2> QED BY <2>1, <2>2, <2>3 DEF Stage2Insert, Abort
<1>7. TypeOK'
  BY <1>1, <1>2, <1>3, <1>4, <1>6 DEF Inv, TypeOK
<1>8. PosInv'
  BY <1>1, <1>2, <1>3 DEF Inv, PosInv, Running
<1>9. IndexInv'
  BY <1>1 DEF Inv, IndexInv
<1> QED BY <1>1, <1>6, <1>7, <1>8, <1>9 DEF Inv, Grows

\* stage2 commits what the transaction sees, or rolls back.
LEMMA Stage2CommitInv ==
  ASSUME Inv, Stage2Commit
  PROVE  Inv' /\ Grows
<1>1. /\ index' = index /\ chk' = chk /\ pc' = pc /\ pc = "ingest" /\ stage2 = "commit"
      /\ source' = source /\ lines' = lines /\ raw' = raw /\ start' = start
      /\ pre_committed' = pre_committed /\ stopped' = stopped
      /\ offset' = offset /\ committed' = committed /\ pending' = pending /\ skipped' = skipped
      /\ pos' = pos /\ done' = done /\ stage0' = stage0 /\ stop' = stop /\ result' = result
      /\ runs' = runs /\ crashes' = crashes /\ tx' = None
  BY DEF Stage2Commit, input, progress, Abort
<1>2. tx \in Bags /\ \A g \in Games : tx[g] \in Nat /\ rows[g] \in Nat /\ tx[g] >= rows[g] /\ (~raw => tx[g] <= 1)
  BY <1>1 DEF Inv, TypeOK, TxInv, Bags
<1>3. /\ rows' = rows \/ rows' = tx
      /\ stage2' \in {"checkpoint", "error"}
      /\ fatal_error' \in {"none", "eof", "io_failure"} /\ failures' \in Nat
  BY DEF Stage2Commit, Abort, Fails, Inv, TypeOK, PosInv
<1>4. eof_reached' \in BOOLEAN
  <2>1. eof_reached' = eof_reached \/ eof_reached' = TRUE
    BY DEF Stage2Commit, Abort
  <2> QED BY <2>1 DEF Inv, TypeOK
<1>5. rows' \in Bags
  BY <1>2, <1>3 DEF Inv, TypeOK
<1>6. TypeOK'
  BY <1>1, <1>3, <1>4, <1>5 DEF Inv, TypeOK
<1>7. PosInv'
  BY <1>1, <1>3 DEF Inv, PosInv, Running
<1>8. TxInv'
  BY <1>1, <1>3 DEF TxInv
<1>9. IndexInv'
  <2>1. index => \A g \in Games : rows'[g] <= 1
    BY <1>1, <1>2, <1>3 DEF Inv, IndexInv
  <2> QED BY <1>1, <2>1 DEF Inv, IndexInv
<1>10. Grows
  BY <1>2, <1>3 DEF Grows
<1> QED BY <1>6, <1>7, <1>8, <1>9, <1>10 DEF Inv

\* The checkpoint that stage2 and a stopped import write.
LEMMA CheckpointType ==
  ASSUME TypeOK
  PROVE  [source |-> source, offset |-> offset, committed |-> committed]
           \in [source : Sources, offset : Nat, committed : Int]
<1>1. source \in Sources /\ offset \in Nat /\ committed \in Int
  BY DEF TypeOK
<1> QED BY <1>1

\* The checkpoint is within its file, written or not.
LEMMA CheckpointFacts ==
  ASSUME Inv, pc \in Running, write_checkpoint \/ (chk' = [source |-> source, offset |-> offset, committed |-> committed])
  PROVE  /\ chk' = None \/ chk' \in [source : Sources, offset : Nat, committed : Int]
         /\ chk' # None => chk'.offset <= Len(Items[chk'.source])
<1>1. /\ offset \in Nat /\ offset <= done /\ done <= pos /\ pos <= Len(Items[source]) /\ TypeOK
      /\ done \in Nat /\ pos \in Nat /\ Len(Items[source]) \in Nat
  BY ImportAssumption DEF Inv, TypeOK, PosInv
<1>2. CASE chk' = [source |-> source, offset |-> offset, committed |-> committed]
  <2>1. chk'.source = source /\ chk'.offset = offset
    BY <1>2
  <2>2. offset <= Len(Items[source])
    BY <1>1
  <2> QED BY <1>1, <1>2, <2>1, <2>2, CheckpointType
<1>3. CASE chk' = chk
  BY <1>3 DEF Inv, TypeOK, PosInv
<1> QED BY <1>2, <1>3 DEF write_checkpoint

\* stage2 writes the checkpoint and begins the next batch, or gives up.
LEMMA Stage2CheckpointInv ==
  ASSUME Inv, Stage2Checkpoint
  PROVE  Inv' /\ Grows
<1>1. /\ rows' = rows /\ index' = index /\ pc' = pc /\ pc = "ingest" /\ stage2 = "checkpoint"
      /\ source' = source /\ lines' = lines /\ raw' = raw /\ start' = start
      /\ pre_committed' = pre_committed
      /\ offset' = offset /\ committed' = committed /\ pending' = 0 /\ skipped' = skipped
      /\ pos' = pos /\ done' = done /\ stage0' = stage0 /\ stop' = stop /\ result' = result
      /\ runs' = runs /\ crashes' = crashes
  BY DEF Stage2Checkpoint, input
<1>2. \/ write_checkpoint \/ chk' = [source |-> source, offset |-> offset, committed |-> committed]
  BY DEF Stage2Checkpoint
<1>3. /\ chk' = None \/ chk' \in [source : Sources, offset : Nat, committed : Int]
      /\ chk' # None => chk'.offset <= Len(Items[chk'.source])
  BY <1>1, <1>2, CheckpointFacts DEF Running
<1>4. failures' \in Nat
  BY DEF Stage2Checkpoint, write_checkpoint, Fails, Inv, PosInv
<1>5. /\ \/ tx' = rows /\ stage2' = "insert"
         \/ tx' = None /\ stage2' \in {"stop", "error"}
      /\ fatal_error' \in {"none", "eof", "io_failure"}
  BY <1>1 DEF Stage2Checkpoint, Abort, flags, Inv, TxInv, TypeOK
<1>6. eof_reached' \in BOOLEAN /\ stopped' \in BOOLEAN
  <2>1. (eof_reached' = eof_reached \/ eof_reached' = TRUE) /\ (stopped' = stopped \/ stopped' = TRUE)
    BY DEF Stage2Checkpoint, Abort, flags
  <2> QED BY <2>1 DEF Inv, TypeOK
<1>7. TypeOK'
  BY <1>1, <1>3, <1>5, <1>6 DEF Inv, TypeOK
<1>8. PosInv'
  BY <1>1, <1>3, <1>4 DEF Inv, PosInv, Running
<1>9. TxInv'
  <2>1. \A g \in Games : rows[g] \in Nat
    BY DEF Inv, TypeOK, Bags
  <2>2. ~raw => \A g \in Games : rows[g] <= 1
    BY <1>1 DEF Inv, IndexInv
  <2>3. rows \in Bags
    BY DEF Inv, TypeOK
  <2> QED BY <1>1, <1>5, <2>1, <2>2, <2>3 DEF TxInv
<1>10. IndexInv'
  BY <1>1 DEF Inv, IndexInv
<1> QED BY <1>1, <1>7, <1>8, <1>9, <1>10 DEF Inv, Grows

\* The last batch is committed, or the identity index restored on the way out.
LEMMA IngestEndInv ==
  ASSUME Inv, IngestEnd
  PROVE  Inv' /\ Grows
<1>1. /\ chk' = chk /\ pc = "ingest" /\ tx' = None
      /\ source' = source /\ lines' = lines /\ raw' = raw /\ start' = start
      /\ pre_committed' = pre_committed /\ eof_reached' = eof_reached /\ stopped' = stopped
      /\ fatal_error' = fatal_error
      /\ offset' = offset /\ committed' = committed /\ pending' = pending /\ skipped' = skipped
      /\ pos' = pos /\ done' = done /\ stage0' = stage0 /\ stage2' = stage2 /\ stop' = stop
      /\ runs' = runs /\ crashes' = crashes
  BY DEF IngestEnd, input, flags, progress, stages, Returns
<1>2. /\ rows \in Bags /\ index \in BOOLEAN /\ raw \in BOOLEAN /\ failures \in Nat /\ result = None
      /\ \A g \in Games : rows[g] \in Nat
  BY <1>1 DEF Inv, TypeOK, PosInv, Bags
<1>3. tx # None => tx \in Bags /\ \A g \in Games : tx[g] \in Nat /\ tx[g] >= rows[g] /\ (~raw => tx[g] <= 1)
  BY <1>1 DEF Inv, TxInv, Bags
<1>4. TxInv'
  <2>1. pc' # "ingest"
    BY DEF IngestEnd, Returns
  <2> QED BY <1>1, <2>1 DEF TxInv
<1>5. CASE /\ rows' = (IF tx = None THEN rows ELSE tx)
           /\ pc' = (IF raw THEN "dedup" ELSE "finish")
           /\ UNCHANGED <<index, failures, result>>
  <2>1. rows' \in Bags /\ Grows /\ (~raw => \A g \in Games : rows'[g] <= 1)
    <3>1. CASE tx = None
      <4>1. ~raw => \A g \in Games : rows[g] <= 1
        BY <1>1 DEF Inv, IndexInv
      <4> QED BY <1>2, <1>5, <3>1, <4>1 DEF Grows
    <3>2. CASE tx # None
      BY <1>2, <1>3, <1>5, <3>2 DEF Grows
    <3> QED BY <3>1, <3>2
  <2>2. TypeOK'
    BY <1>1, <1>5, <2>1 DEF Inv, TypeOK
  <2>3. PosInv'
    BY <1>1, <1>2, <1>5 DEF Inv, PosInv, Running
  <2>4. IndexInv'
    BY <1>1, <1>2, <1>5, <2>1 DEF Inv, IndexInv
  <2> QED BY <1>4, <2>1, <2>2, <2>3, <2>4 DEF Inv
<1>6. CASE /\ restore_identity_index(0) \/ restore_identity_index(1)
           /\ pc' = "idle" /\ result' = Failed
  <2>1. /\ rows' \in Bags /\ index' \in BOOLEAN /\ failures' \in Nat /\ Grows
        /\ \/ index' /\ \A g \in Games : rows'[g] <= 1
           \/ rows' = rows /\ index' = index /\ (~raw \/ "dedup" \in Faults[lines])
    BY <1>2, <1>6, RestoreFacts
  <2>2. TypeOK'
    BY <1>1, <1>6, <2>1 DEF Inv, TypeOK
  <2>3. PosInv'
    <3>1. result' \in Results
      BY <1>6, FailedType
    <3> QED BY <1>1, <1>2, <1>6, <2>1, <3>1 DEF Inv, PosInv, Running
  <2>4. IndexInv'
    <3>1. ~result'.ok
      BY <1>6 DEF Failed
    <3> QED BY <1>1, <1>2, <1>6, <2>1, <3>1 DEF Inv, IndexInv
  <2> QED BY <1>4, <2>1, <2>2, <2>3, <2>4 DEF Inv
<1> QED BY <1>5, <1>6 DEF IngestEnd, Returns

\* deduplicate() brings the identity index back.
LEMMA DeduplicateInv ==
  ASSUME Inv, Deduplicate
  PROVE  Inv' /\ Grows
<1>1. /\ chk' = chk /\ pc = "dedup" /\ deduplicate
      /\ source' = source /\ lines' = lines /\ raw' = raw /\ start' = start
      /\ pre_committed' = pre_committed /\ eof_reached' = eof_reached /\ stopped' = stopped
      /\ fatal_error' = fatal_error /\ offset' = offset /\ pending' = pending
      /\ pos' = pos /\ done' = done /\ stage0' = stage0 /\ stage2' = stage2 /\ stop' = stop
      /\ runs' = runs /\ crashes' = crashes
  BY DEF Deduplicate, input, flags, stages
<1>2. /\ rows \in Bags /\ index \in BOOLEAN /\ failures \in Nat /\ tx = None
      /\ result = None /\ committed \in Int /\ skipped \in Nat
  BY <1>1 DEF Inv, TypeOK, PosInv, TxInv
<1>3. /\ rows' \in Bags /\ index' \in BOOLEAN /\ failures' \in Nat /\ Grows
      /\ \A g \in Games : rows'[g] <= rows[g]
      /\ \/ index' /\ \A g \in Games : rows'[g] <= 1
         \/ rows' = rows /\ index' = index /\ "dedup" \in Faults[lines]
  BY <1>1, <1>2, DeduplicateFacts
<1>4. Removed(rows, rows') \in Nat
  BY <1>2, <1>3, CountFacts DEF Removed
<1>5. \/ /\ index' /\ committed' = committed - Removed(rows, rows')
         /\ skipped' = skipped + Removed(rows, rows')
         /\ pc' = "finish" /\ tx' = None /\ result' = None
      \/ /\ ~index' /\ committed' = committed /\ skipped' = skipped
         /\ pc' = "idle" /\ tx' = None /\ result' = Failed
  BY <1>2, <1>3 DEF Deduplicate, Returns
<1>6. committed' \in Int /\ skipped' \in Nat
  BY <1>2, <1>4, <1>5
<1>7. TypeOK'
  BY <1>1, <1>3, <1>5, <1>6 DEF Inv, TypeOK
<1>8. PosInv'
  <2>1. result' # None => result' \in Results /\ pc' = "idle"
    BY <1>5, FailedType
  <2> QED BY <1>1, <1>2, <1>3, <1>5, <2>1 DEF Inv, PosInv, Running
<1>9. TxInv'
  BY <1>5 DEF TxInv
<1>10. IndexInv'
  <2>1. result' # None => ~result'.ok
    BY <1>5 DEF Failed
  <2>2. ~index
    BY <1>1 DEF Inv, IndexInv
  <2> QED BY <1>1, <1>3, <1>5, <2>1, <2>2 DEF IndexInv
<1> QED BY <1>3, <1>7, <1>8, <1>9, <1>10 DEF Inv

\* The steps after deduplicate(), and a crash: no row changes any more.
LEMMA TailInv ==
  ASSUME Inv, UNCHANGED <<rows, index, input, flags, progress, stages>>,
         stop' \in BOOLEAN, runs' \in Nat, failures' \in Nat, crashes' \in Nat,
         chk' = None \/ chk' \in [source : Sources, offset : Nat, committed : Int],
         chk' # None => chk'.offset <= Len(Items[chk'.source]),
         \/ /\ pc \in {"finish", "rebuild"} /\ pc' \in {"rebuild", "delete"}
            /\ tx' = tx /\ result' = result
         \/ /\ pc \in {"finish", "rebuild", "delete"} /\ pc' = "idle" /\ tx' = None
            /\ result' \in Results
         \/ /\ pc' = "idle" /\ tx' = None /\ result' = None /\ crashes' # 0
  PROVE  Inv' /\ Grows
<1>1. /\ rows' = rows /\ index' = index /\ source' = source /\ lines' = lines /\ raw' = raw
      /\ start' = start /\ pre_committed' = pre_committed /\ eof_reached' = eof_reached
      /\ stopped' = stopped /\ fatal_error' = fatal_error /\ offset' = offset
      /\ committed' = committed /\ pending' = pending /\ skipped' = skipped
      /\ pos' = pos /\ done' = done /\ stage0' = stage0 /\ stage2' = stage2
  BY DEF input, flags, progress, stages
<1>2. \/ /\ pc \in {"finish", "rebuild"} /\ pc' \in {"rebuild", "delete"} /\ index
         /\ tx' = None /\ result' = None
      \/ pc \in {"finish", "rebuild", "delete"} /\ pc' = "idle" /\ tx' = None /\ result' \in Results /\ index
      \/ pc' = "idle" /\ tx' = None /\ result' = None /\ crashes' # 0
  BY DEF Inv, TxInv, PosInv, IndexInv
<1>3. TypeOK'
  BY <1>1, <1>2 DEF Inv, TypeOK
<1>4. PosInv'
  BY <1>1, <1>2 DEF Inv, PosInv, Running
<1>5. TxInv'
  BY <1>2 DEF TxInv
<1>6. IndexInv'
  BY <1>1, <1>2 DEF Inv, IndexInv
<1> QED BY <1>1, <1>3, <1>4, <1>5, <1>6 DEF Inv, Grows

\* A stopped import returns; another goes on to the rebuild.
LEMMA FinishInv ==
  ASSUME Inv, Finish
  PROVE  Inv' /\ Grows
<1>1. /\ UNCHANGED <<rows, index, input, flags, progress, stages>> /\ pc = "finish"
      /\ stop' = stop /\ runs' = runs /\ crashes' = crashes
  BY DEF Finish
<1>2. stop' \in BOOLEAN /\ runs' \in Nat /\ failures \in Nat /\ crashes' \in Nat
  BY <1>1 DEF Inv, TypeOK, PosInv
<1>3. CASE write_checkpoint /\ Returns(Summary(TRUE))
  <2>1. failures' \in Nat
    BY <1>2, <1>3 DEF write_checkpoint, Fails
  <2>2. /\ chk' = None \/ chk' \in [source : Sources, offset : Nat, committed : Int]
        /\ chk' # None => chk'.offset <= Len(Items[chk'.source])
    BY <1>1, <1>3, CheckpointFacts DEF Running
  <2>3. pc' = "idle" /\ tx' = None /\ result' \in Results
    BY <1>3, SummaryType DEF Returns, Inv
  <2> QED BY <1>1, <1>2, <2>1, <2>2, <2>3, TailInv
<1>4. CASE pc' = "rebuild" /\ UNCHANGED <<chk, failures, tx, result>>
  <2>1. /\ chk' = None \/ chk' \in [source : Sources, offset : Nat, committed : Int]
        /\ chk' # None => chk'.offset <= Len(Items[chk'.source])
    BY <1>4 DEF Inv, TypeOK, PosInv
  <2> QED BY <1>1, <1>2, <1>4, <2>1, TailInv
<1> QED BY <1>3, <1>4 DEF Finish

\* The rebuild touches no row.
LEMMA RebuildInv ==
  ASSUME Inv, Rebuild
  PROVE  Inv' /\ Grows
<1>1. /\ UNCHANGED <<rows, index, input, flags, progress, stages>> /\ pc = "rebuild"
      /\ stop' = stop /\ runs' = runs /\ crashes' = crashes /\ chk' = chk
  BY DEF Rebuild, storage
<1>2. stop' \in BOOLEAN /\ runs' \in Nat /\ failures' \in Nat /\ crashes' \in Nat
  BY <1>1 DEF Rebuild, Fails, Inv, TypeOK, PosInv
<1>3. /\ chk' = None \/ chk' \in [source : Sources, offset : Nat, committed : Int]
      /\ chk' # None => chk'.offset <= Len(Items[chk'.source])
  BY <1>1 DEF Inv, TypeOK, PosInv
<1>4. \/ pc' = "delete" /\ tx' = tx /\ result' = result
      \/ pc' = "idle" /\ tx' = None /\ result' \in Results
  BY FailedType DEF Rebuild, Returns
<1> QED BY <1>1, <1>2, <1>3, <1>4, TailInv

\* The checkpoint of a finished import goes.
LEMMA DeleteCheckpointInv ==
  ASSUME Inv, DeleteCheckpoint
  PROVE  Inv' /\ Grows
<1>1. /\ UNCHANGED <<rows, index, input, flags, progress, stages>> /\ pc = "delete"
      /\ stop' = stop /\ runs' = runs /\ crashes' = crashes /\ chk' = None /\ failures' = failures
  BY DEF DeleteCheckpoint, budget
<1>2. stop' \in BOOLEAN /\ runs' \in Nat /\ failures' \in Nat /\ crashes' \in Nat
  BY <1>1 DEF Inv, TypeOK, PosInv
<1>3. pc' = "idle" /\ tx' = None /\ result' \in Results
  BY SummaryType DEF DeleteCheckpoint, Returns, Inv
<1> QED BY <1>1, <1>2, <1>3, TailInv

\* The process dies: the open transaction is lost, the rows are not.
LEMMA CrashInv ==
  ASSUME Inv, Crash
  PROVE  Inv' /\ Grows
<1>1. /\ UNCHANGED <<rows, index, input, flags, progress, stages>> /\ chk' = chk
      /\ stop' = stop /\ runs' = runs /\ failures' = failures /\ crashes' = crashes + 1
      /\ pc' = "idle" /\ tx' = None /\ result' = None
  BY DEF Crash, Returns, storage
<1>2. /\ stop' \in BOOLEAN /\ runs' \in Nat /\ failures' \in Nat
      /\ crashes' \in Nat /\ crashes' # 0
  BY <1>1 DEF Inv, TypeOK, PosInv
<1>3. /\ chk' = None \/ chk' \in [source : Sources, offset : Nat, committed : Int]
      /\ chk' # None => chk'.offset <= Len(Items[chk'.source])
  BY <1>1 DEF Inv, TypeOK, PosInv
<1> QED BY <1>1, <1>2, <1>3, TailInv

\* Of a request to stop, and of no step at all.
LEMMA QuietInv ==
  ASSUME Inv, RequestStop \/ UNCHANGED vars
  PROVE  Inv' /\ Grows
<1>1. /\ rows' = rows /\ index' = index /\ source' = source /\ lines' = lines /\ raw' = raw
      /\ start' = start /\ pre_committed' = pre_committed /\ eof_reached' = eof_reached
      /\ stopped' = stopped /\ fatal_error' = fatal_error /\ offset' = offset
      /\ committed' = committed /\ pending' = pending /\ skipped' = skipped
      /\ pos' = pos /\ done' = done /\ stage0' = stage0 /\ stage2' = stage2
      /\ chk' = chk /\ pc' = pc /\ tx' = tx /\ result' = result
      /\ runs' = runs /\ failures' = failures /\ crashes' = crashes
  BY DEF RequestStop, vars, storage, input, flags, progress, stages, budget
<1>2. stop' \in BOOLEAN
  <2>1. stop' = stop \/ stop' = TRUE
    BY DEF RequestStop, vars
  <2> QED BY <2>1 DEF Inv, TypeOK
<1>3. TypeOK'
  BY <1>1, <1>2 DEF Inv, TypeOK
<1>4. PosInv'
  BY <1>1 DEF Inv, PosInv, Running
<1>5. TxInv'
  BY <1>1 DEF Inv, TxInv
<1>6. IndexInv'
  BY <1>1 DEF Inv, IndexInv
<1> QED BY <1>1, <1>3, <1>4, <1>5, <1>6 DEF Inv, Grows

\* Every step keeps the invariant and takes the last row of no game.
LEMMA NextInv ==
  ASSUME Inv, [Next]_vars
  PROVE  Inv' /\ Grows
<1> QED BY RunInv, RepairInv, EnterInv, Stage0CheckInv, Stage0ReadInv, Stage2InsertInv,
           Stage2CommitInv, Stage2CheckpointInv, IngestEndInv, DeduplicateInv, FinishInv,
           RebuildInv, DeleteCheckpointInv, QuietInv, CrashInv DEF Next, Step

\* In every state of every import the variables have their types, the offsets are
\* in order, an open transaction sees at least the committed rows, and the identity
\* index is where the phase says it is.
THEOREM InvAlways == Spec => []Inv
<1>1. Inv /\ [Next]_vars => Inv'
  BY NextInv
<1> QED BY InitInv, <1>1, PTL DEF Spec

\* No step of an import, no rollback, repair or crash takes the last row of a game.
THEOREM RowsStay == Spec => GamesStay
<1>1. Inv /\ [Next]_vars => [\A g \in Games : rows[g] > 0 => rows'[g] > 0]_rows
  BY NextInv DEF Grows
<1> QED BY InvAlways, <1>1, PTL DEF Spec, GamesStay

\* A call that returned leaves each game once and the identity index in place.
THEOREM IdentityHolds == Spec => []IdentityRestored
<1>1. Inv => IdentityRestored
  <2> SUFFICES ASSUME Inv, result # None,
                      result.ok \/ (crashes = 0 /\ "dedup" \notin Faults[lines])
               PROVE  index /\ \A g \in Games : rows[g] <= 1
    BY DEF IdentityRestored
  <2>1. index
    BY DEF Inv, IndexInv, PosInv
  <2> QED BY <2>1 DEF Inv, IndexInv
<1> QED BY InvAlways, <1>1, PTL

-----------------------------------------------------------------------------
(* The games and the counts.  stage0 and stage2 write fatal_error without    *)
(* synchronisation; with more than one line stage0 may overwrite what stage2 *)
(* reported.  What follows holds where that cannot happen: with one line, or *)
(* when the calls whose failure stage2 reports do not fail.                  *)

ErrorsKept == \A n \in NumLines : n # 1 => Faults[n] \cap {"begin", "insert", "commit"} = {}

\* One item more: a readable game needs a row.
LEMMA StoredStep ==
  ASSUME NEW s, NEW n \in Nat, NEW r
  PROVE  Stored(s, n + 1, r) <=> /\ Stored(s, n, r)
                                 /\ Items[s][n + 1] # Bad => r[Items[s][n + 1]] > 0
<1>1. 1..(n + 1) = 1..n \cup {n + 1}
  OBVIOUS
<1>2. Valid(s, n + 1) = Valid(s, n) \cup ({Items[s][n + 1]} \ {Bad})
  BY <1>1 DEF Valid
<1> QED BY <1>2 DEF Stored

\* Nothing is missing of no items, nor of fewer items.
LEMMA StoredLess ==
  ASSUME NEW s, NEW r
  PROVE  /\ Stored(s, 0, r)
         /\ \A m, n \in Nat : m <= n /\ Stored(s, n, r) => Stored(s, m, r)
<1>1. Valid(s, 0) = {}
  BY DEF Valid
<1>2. ASSUME NEW m \in Nat, NEW n \in Nat, m <= n PROVE Valid(s, m) \subseteq Valid(s, n)
  <2>1. 1..m \subseteq 1..n
    BY <1>2
  <2> QED BY <2>1 DEF Valid
<1> QED BY <1>1, <1>2 DEF Stored

\* More rows hold the same games.
LEMMA StoredMore ==
  ASSUME NEW s \in Sources, NEW n \in Nat, n <= Len(Items[s]), NEW r, NEW q,
         \A g \in Games : r[g] > 0 => q[g] > 0, Stored(s, n, r)
  PROVE  Stored(s, n, q)
<1>1. Items[s] \in Seq(Games \cup {Bad})
  BY ImportAssumption
<1>2. \A i \in 1..n : i \in 1..Len(Items[s])
  BY <1>1
<1>3. \A i \in 1..n : Items[s][i] \in Games \cup {Bad}
  BY <1>1, <1>2
<1>4. Valid(s, n) \subseteq Games
  BY <1>3 DEF Valid
<1> QED BY <1>4 DEF Stored

\* The checkpoint stays behind rows that only grow.
LEMMA CheckpointStored ==
  ASSUME Inv, DataInv, Grows, chk' = chk, chk # None
  PROVE  Stored(chk.source, chk.offset, rows')
<1>1. chk.source \in Sources /\ chk.offset \in Nat /\ chk.offset <= Len(Items[chk.source])
  BY DEF Inv, TypeOK, PosInv
<1>2. Stored(chk.source, chk.offset, rows)
  BY DEF DataInv, StoredInv
<1> QED BY <1>1, <1>2, StoredMore DEF Grows

\* A call that ends without a summary.
LEMMA FailedData ==
  ASSUME Inv, DataInv, Grows, chk' = chk, pc' = "idle", result' = None \/ result' = Failed
  PROVE  DataInv'
<1>1. EndInv'
  BY DEF EndInv
<1>2. result' # None => ~result'.ok
  BY DEF Failed
<1>3. chk' # None => Stored(chk'.source, chk'.offset, rows')
  BY CheckpointStored
<1>4. StoredInv'
  BY <1>2, <1>3 DEF StoredInv, Running
<1>5. SumInv'
  BY <1>2 DEF SumInv, Running
<1> QED BY <1>1, <1>4, <1>5 DEF DataInv

\* Nothing has been read and nothing counted.
LEMMA InitData == Init => DataInv
BY DEF Init, DataInv, EndInv, StoredInv, SumInv, Running

\* A resumed import starts behind the rows, since its checkpoint was.
LEMMA RunData ==
  ASSUME Inv, DataInv, NEW s \in Sources, Run(s)
  PROVE  DataInv'
<1> DEFINE resumes == chk # None /\ chk.source = s
<1>1. /\ rows' = rows /\ chk' = chk /\ source' = s /\ result' = None
      /\ pc' \in {"repair", "enter"} /\ start' = IF resumes THEN chk.offset ELSE 0
  BY DEF Run, storage
<1>2. chk # None => Stored(chk.source, chk.offset, rows)
  BY DEF DataInv, StoredInv
<1>3. Stored(s, start', rows)
  <2>1. CASE resumes
    BY <1>1, <1>2, <2>1
  <2>2. CASE ~resumes
    BY <1>1, <2>2, StoredLess
  <2> QED BY <2>1, <2>2
<1> HIDE DEF resumes
<1>4. StoredInv'
  BY <1>1, <1>2, <1>3 DEF StoredInv, Running
<1> QED BY <1>1, <1>4 DEF DataInv, EndInv, SumInv, Running

\* The repair keeps one row of each game.
LEMMA RepairData ==
  ASSUME Inv, DataInv, Repair
  PROVE  DataInv'
<1>1. Grows
  BY RepairInv
<1>2. /\ pc = "repair" /\ chk' = chk /\ source' = source /\ start' = start
      /\ \/ pc' = "enter" /\ result' = result
         \/ pc' = "idle" /\ result' = Failed
  BY DEF Repair, Returns
<1>3. CASE pc' = "enter" /\ result' = result
  <2>1. /\ source \in Sources /\ start \in Nat /\ start <= Len(Items[source]) /\ result = None
        /\ Stored(source, start, rows)
    BY <1>2 DEF Inv, TypeOK, PosInv, DataInv, StoredInv
  <2>2. Stored(source, start, rows')
    BY <1>1, <2>1, StoredMore DEF Grows
  <2>3. chk' # None => Stored(chk'.source, chk'.offset, rows')
    BY <1>1, <1>2, CheckpointStored
  <2>4. StoredInv'
    BY <1>2, <1>3, <2>1, <2>2, <2>3 DEF StoredInv, Running
  <2> QED BY <1>3, <2>1, <2>4 DEF DataInv, EndInv, SumInv, Running
<1>4. CASE pc' = "idle" /\ result' = Failed
  BY <1>1, <1>2, <1>4, FailedData
<1> QED BY <1>2, <1>3, <1>4

\* The first transaction sees the games before the start.
LEMMA EnterData ==
  ASSUME Inv, DataInv, Enter
  PROVE  DataInv'
<1>1. Grows
  BY EnterInv
<1>2. /\ pc = "enter" /\ chk' = chk /\ source' = source /\ start' = start
      /\ pre_committed' = pre_committed /\ pos' = start /\ done' = start
      /\ stage0' = "check" /\ stage2' = "insert" /\ eof_reached' = FALSE
      /\ committed' = pre_committed /\ skipped' = 0
      /\ \/ pc' = "ingest" /\ result' = result /\ rows' = rows /\ tx' = rows
         \/ pc' = "idle" /\ result' = Failed
  BY DEF Enter, Returns
<1>3. CASE pc' = "ingest" /\ result' = result /\ rows' = rows /\ tx' = rows
  <2>1. /\ start \in Nat /\ result = None /\ Stored(source, start, rows) /\ pre_committed \in Int
        /\ chk # None => Stored(chk.source, chk.offset, rows)
    BY <1>2 DEF Inv, TypeOK, PosInv, DataInv, StoredInv
  <2>2. EndInv'
    BY <1>2 DEF EndInv
  <2>3. StoredInv'
    BY <1>2, <1>3, <2>1 DEF StoredInv, Running
  <2>4. SumInv'
    BY <1>2, <2>1, <1>3 DEF SumInv
  <2> QED BY <2>2, <2>3, <2>4 DEF DataInv
<1>4. CASE pc' = "idle" /\ result' = Failed
  BY <1>1, <1>2, <1>4, FailedData
<1> QED BY <1>2, <1>3, <1>4

\* stage0 looks only when a line is free: with one line, when stage2 is idle.
LEMMA LineFree ==
  ASSUME Inv, pc = "ingest", TakenLines < lines, lines = 1
  PROVE  done = pos /\ stage2 = "insert"
<1>1. done \in Nat /\ pos \in Nat /\ done <= pos
  BY DEF Inv, TypeOK, PosInv, Running
<1>2. CASE stage2 = "insert"
  BY <1>1, <1>2 DEF TakenLines
<1>3. CASE stage2 # "insert"
  BY <1>1, <1>3 DEF TakenLines
<1> QED BY <1>2, <1>3

\* stage0 ends only by a stop, by an error of stage2 or at the end of the file.
LEMMA Stage0CheckData ==
  ASSUME Inv, DataInv, Stage0Check
  PROVE  DataInv'
<1>1. /\ rows' = rows /\ chk' = chk /\ pc' = pc /\ pc = "ingest"
      /\ source' = source /\ lines' = lines /\ start' = start
      /\ pre_committed' = pre_committed /\ tx' = tx /\ fatal_error' = fatal_error
      /\ committed' = committed /\ skipped' = skipped
      /\ pos' = pos /\ done' = done /\ stage2' = stage2 /\ result' = result
      /\ stage0 = "check" /\ TakenLines < lines
  BY DEF Stage0Check, storage, input, progress, budget
<1>2. result = None
  BY <1>1 DEF Inv, PosInv
<1>3. \/ stopped' /\ eof_reached' /\ stage0' = "end"
      \/ /\ stopped' = stopped /\ eof_reached' = eof_reached
         /\ \/ eof_reached /\ stage0' = "end"
            \/ ~eof_reached /\ stage0' = "read"
  BY DEF Stage0Check
<1>4. lines = 1 => done = pos /\ stage2 = "insert"
  BY <1>1, LineFree
<1>5. EndInv'
  BY <1>1, <1>3, <1>4 DEF DataInv, EndInv
<1>6. StoredInv'
  BY <1>1, <1>2 DEF DataInv, StoredInv, Running
<1>7. SumInv'
  BY <1>1, <1>2 DEF DataInv, SumInv
<1> QED BY <1>5, <1>6, <1>7 DEF DataInv

\* What stage0 writes to fatal_error hides no error of stage2.
LEMMA Stage0ReadData ==
  ASSUME Inv, DataInv, Stage0Read
  PROVE  DataInv'
<1>1. /\ rows' = rows /\ chk' = chk /\ pc' = pc /\ pc = "ingest" /\ stage0 = "read"
      /\ source' = source /\ lines' = lines /\ start' = start
      /\ pre_committed' = pre_committed /\ tx' = tx /\ stopped' = stopped
      /\ committed' = committed /\ skipped' = skipped
      /\ done' = done /\ stage2' = stage2 /\ result' = result
  BY DEF Stage0Read, storage, input, progress
<1>2. result = None
  BY <1>1 DEF Inv, PosInv
<1>3. \/ stage0' = "check" /\ eof_reached' = eof_reached /\ fatal_error' = fatal_error
      \/ /\ stage0' = "end" /\ pos' = pos
         /\ \/ fatal_error' = "eof" /\ pos = Len(Items[source])
            \/ fatal_error' = "io_failure"
  BY DEF Stage0Read
<1>4. stage2 # "error"
  BY <1>1 DEF DataInv, EndInv
<1>5. EndInv'
  BY <1>1, <1>3, <1>4 DEF DataInv, EndInv
<1>6. StoredInv'
  BY <1>1, <1>2 DEF DataInv, StoredInv, Running
<1>7. SumInv'
  BY <1>1, <1>2 DEF DataInv, SumInv
<1> QED BY <1>5, <1>6, <1>7 DEF DataInv

\* stage2 gives up only with one line, and then stage0 waits to look at the flags.
LEMMA AbortData ==
  ASSUME Inv, Inv', DataInv, ErrorsKept, Abort, rows' = rows, pc = "ingest", pc' = pc, result' = result,
         lines' = lines, source' = source, stage0' = stage0, pos' = pos, stopped' = stopped,
         NEW f \in {"begin", "insert", "commit"}, f \in Faults[lines],
         stage2 # "insert" \/ done # pos,
         chk' # None => Stored(chk'.source, chk'.offset, rows')
  PROVE  DataInv'
<1>1. lines = 1
  BY DEF ErrorsKept, Inv, TypeOK
<1>2. stage0 = "check"
  BY <1>1 DEF Inv, TypeOK, DataInv, EndInv
<1>3. stage2' = "error" /\ fatal_error' = "io_failure" /\ eof_reached'
  BY DEF Abort
<1>4. result = None
  BY DEF Inv, PosInv
<1>5. EndInv'
  BY <1>1, <1>2, <1>3 DEF EndInv
<1>6. StoredInv'
  BY <1>3, <1>4 DEF StoredInv, Running
<1>7. SumInv'
  BY <1>3, <1>4 DEF SumInv
<1> QED BY <1>5, <1>6, <1>7 DEF DataInv

\* The item taken is in the transaction, or unreadable, and counts once.
LEMMA Stage2InsertData ==
  ASSUME Inv, DataInv, ErrorsKept, Stage2Insert
  PROVE  DataInv'
<1>1. /\ rows' = rows /\ chk' = chk /\ pc' = pc /\ pc = "ingest"
      /\ source' = source /\ lines' = lines /\ start' = start
      /\ pre_committed' = pre_committed /\ stopped' = stopped /\ stage2 = "insert"
      /\ pos' = pos /\ stage0' = stage0 /\ result' = result /\ done' = done + 1 /\ done < pos
  BY DEF Stage2Insert, storage, input
<1>2. /\ done \in Nat /\ pos \in Nat /\ start \in Nat /\ result = None /\ committed \in Int
      /\ pre_committed \in Int /\ skipped \in Nat
      /\ chk # None => Stored(chk.source, chk.offset, rows)
  BY <1>1 DEF Inv, TypeOK, PosInv, DataInv, StoredInv
<1>3. CASE Item # Bad /\ Fails("insert") /\ Abort
  <2>1. Inv' /\ "insert" \in Faults[lines] /\ done # pos
    BY <1>1, <1>2, <1>3, Stage2InsertInv DEF Fails
  <2> QED BY <1>1, <1>2, <1>3, <2>1, AbortData
<1>4. CASE \/ /\ Item = Bad \/ Duplicate
              /\ skipped' = skipped + 1
              /\ UNCHANGED <<tx, committed, stage2, eof_reached, fatal_error>>
           \/ /\ Item # Bad /\ ~Duplicate
              /\ tx' = [tx EXCEPT ![Item] = @ + 1] /\ committed' = committed + 1
              /\ stage2' \in {"insert", "commit"}
              /\ UNCHANGED <<skipped, eof_reached, fatal_error>>
  <2>1. stage2' \in {"insert", "commit"} /\ eof_reached' = eof_reached /\ fatal_error' = fatal_error
    BY <1>1, <1>4
  <2>2. lines = 1 => stage0 \notin {"read", "end"}
    BY <1>1, <1>2 DEF DataInv, EndInv
  <2>3. EndInv'
    BY <1>1, <2>1, <2>2 DEF DataInv, EndInv
  <2>4. Stored(source, done, tx)
    BY <1>1 DEF DataInv, StoredInv
  <2>5. /\ done + 1 \in 1..Len(Items[source]) /\ Item \in Games \cup {Bad}
        /\ tx \in Bags /\ \A g \in Games : tx[g] \in Nat
        /\ Item # Bad =>
              \A g \in Games :
                 [tx EXCEPT ![Item] = @ + 1][g] = IF g = Item THEN tx[g] + 1 ELSE tx[g]
    BY <1>1, InsertFacts
  <2>6. /\ \A g \in Games : tx[g] > 0 => tx'[g] > 0
        /\ Item # Bad => tx'[Item] > 0
    <3>1. CASE Item = Bad \/ Duplicate
      BY <1>4, <3>1, <2>5 DEF Duplicate
    <3>2. CASE Item # Bad /\ ~Duplicate
      <4>1. \A g \in Games : tx'[g] = IF g = Item THEN tx[g] + 1 ELSE tx[g]
        BY <1>4, <2>5, <3>2
      <4> QED BY <2>5, <3>2, <4>1
    <3> QED BY <3>1, <3>2
  <2>7. source \in Sources /\ done <= Len(Items[source])
    BY <1>1, <1>2, <2>5 DEF Inv, TypeOK
  <2>8. Stored(source, done, tx')
    BY <1>2, <2>4, <2>6, <2>7, StoredMore
  <2>9. Stored(source, done + 1, tx')
    BY <1>2, <2>6, <2>8, StoredStep DEF Item
  <2>10. StoredInv'
    BY <1>1, <1>2, <2>1, <2>9 DEF StoredInv, Running
  <2>11. committed' - pre_committed + skipped' = done' - start
    <3>1. committed - pre_committed + skipped = done - start
      BY <1>1 DEF DataInv, SumInv, Running
    <3> QED BY <1>1, <1>2, <1>4, <3>1
  <2>12. SumInv'
    BY <1>1, <1>2, <2>11 DEF SumInv
  <2> QED BY <2>3, <2>10, <2>12 DEF DataInv
<1> QED BY <1>1, <1>3, <1>4 DEF Stage2Insert

\* What was in the transaction is now committed.
LEMMA Stage2CommitData ==
  ASSUME Inv, DataInv, ErrorsKept, Stage2Commit
  PROVE  DataInv'
<1>1. /\ chk' = chk /\ pc' = pc /\ pc = "ingest" /\ stage2 = "commit"
      /\ source' = source /\ lines' = lines /\ start' = start
      /\ pre_committed' = pre_committed /\ stopped' = stopped
      /\ committed' = committed /\ skipped' = skipped
      /\ pos' = pos /\ done' = done /\ stage0' = stage0 /\ result' = result
  BY DEF Stage2Commit, input, progress
<1>2. result = None /\ Grows /\ Inv'
  BY <1>1, Stage2CommitInv DEF Inv, PosInv
<1>3. chk' # None => Stored(chk'.source, chk'.offset, rows')
  BY <1>1, <1>2, CheckpointStored
<1>4. CASE rows' = tx /\ stage2' = "checkpoint" /\ UNCHANGED <<eof_reached, fatal_error>>
  <2>1. lines = 1 => stage0 \notin {"read", "end"}
    BY <1>1 DEF DataInv, EndInv
  <2>2. EndInv'
    BY <1>1, <1>4, <2>1 DEF DataInv, EndInv
  <2>3. Stored(source, done, rows')
    BY <1>1, <1>4 DEF DataInv, StoredInv
  <2>4. StoredInv'
    BY <1>1, <1>2, <1>3, <1>4, <2>3 DEF StoredInv, Running
  <2>5. SumInv'
    BY <1>1, <1>2, <1>4 DEF DataInv, SumInv
  <2> QED BY <2>2, <2>4, <2>5 DEF DataInv
<1>5. CASE Fails("commit") /\ Abort /\ UNCHANGED rows
  <2>1. "commit" \in Faults[lines]
    BY <1>5 DEF Fails
  <2> QED BY <1>1, <1>2, <1>3, <1>5, <2>1, AbortData
<1> QED BY <1>4, <1>5 DEF Stage2Commit

\* A checkpoint written now is behind the rows: its offset is not past what stage2 has taken.
LEMMA WrittenStored ==
  ASSUME Inv, DataInv, pc \in Running, Stored(source, done, rows), rows' = rows,
         write_checkpoint \/ chk' = [source |-> source, offset |-> offset, committed |-> committed]
  PROVE  chk' # None => Stored(chk'.source, chk'.offset, rows')
<1>1. CASE chk' = [source |-> source, offset |-> offset, committed |-> committed]
  <2>1. chk'.source = source /\ chk'.offset = offset
    BY <1>1
  <2>2. offset \in Nat /\ done \in Nat /\ offset <= done
    BY DEF Inv, TypeOK, PosInv
  <2>3. Stored(source, offset, rows)
    BY <2>2, StoredLess
  <2> QED BY <2>1, <2>3
<1>2. CASE chk' = chk
  BY <1>2 DEF DataInv, StoredInv
<1> QED BY <1>1, <1>2 DEF write_checkpoint

\* The checkpoint covers only what the commit before it stored.
LEMMA Stage2CheckpointData ==
  ASSUME Inv, DataInv, ErrorsKept, Stage2Checkpoint
  PROVE  DataInv'
<1>1. /\ rows' = rows /\ pc' = pc /\ pc = "ingest" /\ stage2 = "checkpoint"
      /\ source' = source /\ lines' = lines /\ start' = start
      /\ pre_committed' = pre_committed /\ committed' = committed /\ skipped' = skipped
      /\ pos' = pos /\ done' = done /\ stage0' = stage0 /\ result' = result
  BY DEF Stage2Checkpoint, input
<1>2. result = None /\ Inv' /\ Stored(source, done, rows)
  BY <1>1, Stage2CheckpointInv DEF Inv, PosInv, DataInv, StoredInv
<1>3. chk' # None => Stored(chk'.source, chk'.offset, rows')
  <2>1. write_checkpoint \/ chk' = [source |-> source, offset |-> offset, committed |-> committed]
    BY DEF Stage2Checkpoint
  <2> QED BY <1>1, <1>2, <2>1, WrittenStored DEF Running
<1>4. CASE \/ stopped' = TRUE /\ stage2' = "stop" /\ UNCHANGED fatal_error
           \/ tx' = rows /\ stage2' = "insert" /\ UNCHANGED flags
  <2>1. lines = 1 => stage0 \notin {"read", "end"}
    BY <1>1 DEF DataInv, EndInv
  <2>2. EndInv'
    BY <1>1, <1>4, <2>1 DEF DataInv, EndInv, flags
  <2>3. StoredInv'
    BY <1>1, <1>2, <1>3, <1>4 DEF StoredInv, Running
  <2>4. SumInv'
    BY <1>1, <1>2, <1>4 DEF DataInv, SumInv
  <2> QED BY <2>2, <2>3, <2>4 DEF DataInv
<1>5. CASE Fails("begin") /\ Abort /\ UNCHANGED stopped
  <2>1. "begin" \in Faults[lines]
    BY <1>5 DEF Fails
  <2> QED BY <1>1, <1>2, <1>3, <1>5, <2>1, AbortData
<1> QED BY <1>4, <1>5 DEF Stage2Checkpoint

\* The pipeline ran dry: everything read is stored, or the import failed.
LEMMA IngestEndData ==
  ASSUME Inv, DataInv, IngestEnd
  PROVE  DataInv'
<1>1. /\ chk' = chk /\ pc = "ingest" /\ source' = source /\ lines' = lines /\ start' = start
      /\ pre_committed' = pre_committed /\ stopped' = stopped
      /\ committed' = committed /\ skipped' = skipped /\ done' = done
  BY DEF IngestEnd, input, flags, progress, stages
<1>2. result = None /\ Grows
  BY <1>1, IngestEndInv DEF Inv, PosInv
<1>3. chk' # None => Stored(chk'.source, chk'.offset, rows')
  BY <1>1, <1>2, CheckpointStored
<1>4. CASE /\ fatal_error # "io_failure"
           /\ rows' = IF tx = None THEN rows ELSE tx
           /\ pc' = IF raw THEN "dedup" ELSE "finish"
           /\ result' = result
  <2>1. stage2 # "error"
    BY <1>1, <1>4 DEF DataInv, EndInv
  <2>2. Stored(source, done, rows')
    <3>1. CASE stage2 = "stop"
      <4>1. tx = None /\ Stored(source, done, rows)
        BY <1>1, <3>1 DEF Inv, TxInv, DataInv, StoredInv
      <4> QED BY <1>4, <4>1
    <3>2. CASE stage2 = "insert"
      <4>1. tx \in Bags /\ Stored(source, done, tx)
        BY <1>1, <3>2 DEF Inv, TxInv, DataInv, StoredInv
      <4>2. tx # None
        BY <4>1, ImportAssumption DEF Bags
      <4> QED BY <1>4, <4>1, <4>2
    <3> QED BY <2>1, <3>1, <3>2 DEF IngestEnd, Drained, Halted
  <2>3. ~stopped => done = Len(Items[source])
    BY <1>1, <1>4, <2>1 DEF IngestEnd, Drained, Halted, DataInv, EndInv
  <2>4. pc' \in {"dedup", "finish"}
    BY <1>4
  <2>5. StoredInv'
    BY <1>1, <1>2, <1>3, <1>4, <2>2, <2>3, <2>4 DEF StoredInv, Running
  <2>6. SumInv'
    BY <1>1, <1>2, <1>4, <2>1, <2>4 DEF DataInv, SumInv, Running
  <2>7. EndInv'
    BY <2>4 DEF EndInv
  <2> QED BY <2>5, <2>6, <2>7 DEF DataInv
<1>5. CASE pc' = "idle" /\ result' = Failed
  BY <1>1, <1>2, <1>5, FailedData
<1> QED BY <1>4, <1>5 DEF IngestEnd, Returns

\* deduplicate() moves the rows it removes from committed to skipped.
LEMMA DeduplicateData ==
  ASSUME Inv, DataInv, Deduplicate
  PROVE  DataInv'
<1>1. /\ chk' = chk /\ pc = "dedup" /\ deduplicate
      /\ source' = source /\ start' = start
      /\ pre_committed' = pre_committed /\ stopped' = stopped /\ done' = done
  BY DEF Deduplicate, input, flags, stages
<1>2. Grows
  BY DeduplicateInv
<1>3. /\ rows \in Bags /\ index \in BOOLEAN /\ failures \in Nat /\ result = None
      /\ committed \in Int /\ skipped \in Nat /\ pre_committed \in Int /\ start \in Nat
      /\ done \in Nat /\ done <= Len(Items[source]) /\ source \in Sources
      /\ Stored(source, done, rows) /\ (~stopped => done = Len(Items[source]))
      /\ committed - pre_committed + skipped = done - start
  <2>1. Len(Items[source]) \in Nat
    BY ImportAssumption DEF Inv, TypeOK
  <2> QED BY <1>1, <2>1 DEF Inv, TypeOK, PosInv, Running, DataInv, StoredInv, SumInv
<1>4. CASE /\ committed' = committed - Removed(rows, rows')
           /\ skipped' = skipped + Removed(rows, rows')
           /\ pc' = "finish" /\ result' = result
  <2>1. Removed(rows, rows') \in Nat
    <3>1. rows' \in Bags /\ \A g \in Games : rows'[g] <= rows[g]
      BY <1>1, <1>3, DeduplicateFacts
    <3> QED BY <1>3, <3>1, CountFacts DEF Removed
  <2>2. Stored(source, done, rows')
    BY <1>2, <1>3, StoredMore DEF Grows
  <2>3. chk' # None => Stored(chk'.source, chk'.offset, rows')
    BY <1>1, <1>2, CheckpointStored
  <2>4. StoredInv'
    BY <1>1, <1>3, <1>4, <2>2, <2>3 DEF StoredInv, Running
  <2>5. committed' - pre_committed + skipped' = done - start
    <3>1. \E n \in Nat : committed' = committed - n /\ skipped' = skipped + n
      BY <1>4, <2>1
    <3> QED BY <1>3, <3>1
  <2>6. SumInv'
    BY <1>1, <1>3, <1>4, <2>5 DEF SumInv, Running
  <2> QED BY <1>4, <2>4, <2>6 DEF DataInv, EndInv
<1>5. CASE pc' = "idle" /\ result' = Failed
  BY <1>1, <1>2, <1>5, FailedData
<1> QED BY <1>4, <1>5 DEF Deduplicate, Returns

\* A stopped import leaves its checkpoint behind the rows.
LEMMA FinishData ==
  ASSUME Inv, DataInv, Finish
  PROVE  DataInv'
<1>1. /\ rows' = rows /\ pc = "finish" /\ source' = source /\ start' = start
      /\ pre_committed' = pre_committed /\ stopped' = stopped
      /\ committed' = committed /\ skipped' = skipped /\ done' = done
  BY DEF Finish, input, flags, progress, stages
<1>2. /\ result = None /\ Stored(source, done, rows) /\ (~stopped => done = Len(Items[source]))
      /\ committed - pre_committed + skipped = done - start
      /\ chk # None => Stored(chk.source, chk.offset, rows)
  BY <1>1 DEF Inv, PosInv, DataInv, StoredInv, SumInv, Running
<1>3. CASE write_checkpoint /\ Returns(Summary(TRUE))
  <2>1. chk' # None => Stored(chk'.source, chk'.offset, rows')
    BY <1>1, <1>2, <1>3, WrittenStored DEF Running
  <2>2. pc' = "idle" /\ result'.stopped
    BY <1>3 DEF Returns, Summary
  <2>3. StoredInv'
    BY <2>1, <2>2 DEF StoredInv, Running
  <2>4. SumInv'
    BY <1>2, <2>2 DEF SumInv, Running
  <2> QED BY <2>2, <2>3, <2>4 DEF DataInv, EndInv
<1>4. CASE ~stopped /\ pc' = "rebuild" /\ UNCHANGED <<chk, result>>
  <2>1. StoredInv'
    BY <1>1, <1>2, <1>4 DEF StoredInv, Running
  <2>2. SumInv'
    BY <1>1, <1>2, <1>4 DEF SumInv, Running
  <2> QED BY <1>4, <2>1, <2>2 DEF DataInv, EndInv
<1> QED BY <1>3, <1>4 DEF Finish

\* The rebuild changes neither rows nor counts.
LEMMA RebuildData ==
  ASSUME Inv, DataInv, Rebuild
  PROVE  DataInv'
<1>1. /\ rows' = rows /\ chk' = chk /\ pc = "rebuild" /\ source' = source /\ start' = start
      /\ pre_committed' = pre_committed /\ stopped' = stopped
      /\ committed' = committed /\ skipped' = skipped /\ done' = done
  BY DEF Rebuild, storage, input, flags, progress, stages
<1>2. result = None /\ Grows
  BY <1>1 DEF Inv, PosInv, Grows
<1>3. CASE pc' = "delete" /\ result' = result
  <2>1. StoredInv'
    BY <1>1, <1>2, <1>3 DEF DataInv, StoredInv, Running
  <2>2. SumInv'
    BY <1>1, <1>2, <1>3 DEF DataInv, SumInv, Running
  <2> QED BY <1>3, <2>1, <2>2 DEF DataInv, EndInv
<1>4. CASE pc' = "idle" /\ result' = Failed
  BY <1>1, <1>2, <1>4, FailedData
<1> QED BY <1>3, <1>4 DEF Rebuild, Returns

\* The summary of a completed import covers the whole file.
LEMMA DeleteCheckpointData ==
  ASSUME Inv, DataInv, DeleteCheckpoint
  PROVE  DataInv'
<1>1. rows' = rows /\ chk' = None /\ pc = "delete" /\ pc' = "idle" /\ result' = Summary(FALSE)
  BY DEF DeleteCheckpoint, Returns
<1>2. result'.source = source
  BY <1>1 DEF Summary
<1>3. Stored(source, Len(Items[source]), rows) /\ committed - pre_committed + skipped = done - start
  BY <1>1 DEF DataInv, StoredInv, SumInv, Running
<1>4. StoredInv'
  BY <1>1, <1>2, <1>3 DEF StoredInv, Running
<1>5. SumInv'
  BY <1>1, <1>2, <1>3 DEF SumInv, Running
<1> QED BY <1>1, <1>4, <1>5 DEF DataInv, EndInv

\* A crash leaves the checkpoint behind the rows.
LEMMA CrashData ==
  ASSUME Inv, DataInv, Crash
  PROVE  DataInv'
<1>1. rows' = rows /\ chk' = chk /\ pc' = "idle" /\ result' = None
  BY DEF Crash, Returns, storage
<1> QED BY <1>1, FailedData DEF Grows

\* Of a request to stop, and of no step at all.
LEMMA QuietData ==
  ASSUME Inv, DataInv, RequestStop \/ UNCHANGED vars
  PROVE  DataInv'
<1>1. /\ rows' = rows /\ source' = source /\ lines' = lines
      /\ start' = start /\ pre_committed' = pre_committed /\ eof_reached' = eof_reached
      /\ stopped' = stopped /\ fatal_error' = fatal_error
      /\ committed' = committed /\ skipped' = skipped
      /\ pos' = pos /\ done' = done /\ stage0' = stage0 /\ stage2' = stage2
      /\ chk' = chk /\ pc' = pc /\ tx' = tx /\ result' = result
  BY DEF RequestStop, vars, storage, input, flags, progress, stages, budget
<1>2. EndInv'
  BY <1>1 DEF DataInv, EndInv
<1>3. StoredInv'
  BY <1>1 DEF DataInv, StoredInv, Running
<1>4. SumInv'
  BY <1>1 DEF DataInv, SumInv, Running
<1> QED BY <1>2, <1>3, <1>4 DEF DataInv

\* Every step keeps the games and the counts, where errors stay on record.
LEMMA NextData ==
  ASSUME ErrorsKept, Inv, DataInv, [Next]_vars
  PROVE  DataInv'
<1> QED BY RunData, RepairData, EnterData, Stage0CheckData, Stage0ReadData, Stage2InsertData,
           Stage2CommitData, Stage2CheckpointData, IngestEndData, DeduplicateData, FinishData,
           RebuildData, DeleteCheckpointData, QuietData, CrashData DEF Next, Step

\* Where stage2's errors stay on record, every readable game that stage2 has passed
\* is in the open transaction or committed, and every item taken counts once.
THEOREM DataAlways == ErrorsKept => (Spec => [](Inv /\ DataInv))
<1> SUFFICES ASSUME ErrorsKept PROVE Spec => [](Inv /\ DataInv)
  OBVIOUS
<1>1. Init => Inv /\ DataInv
  BY InitInv, InitData
<1>2. (Inv /\ DataInv) /\ [Next]_vars => (Inv /\ DataInv)'
  BY NextInv, NextData
<1> QED BY <1>1, <1>2, PTL DEF Spec

\* The checkpoint is never ahead of what SQLite has committed: every readable game
\* before its offset has a row.
THEOREM CheckpointHolds == ErrorsKept => (Spec => []CheckpointBehindRows)
<1>1. Inv /\ DataInv => CheckpointBehindRows
  BY DEF DataInv, StoredInv, Stored, CheckpointBehindRows
<1> QED BY DataAlways, <1>1, PTL

\* An import that returns a summary without having been stopped has stored every
\* readable game of its PGN, for any files, batch size and sequence of imports,
\* stops, failures and crashes.
THEOREM ImportIsComplete == ErrorsKept => (Spec => []CompletedImportHoldsEveryGame)
<1>1. Inv /\ DataInv => CompletedImportHoldsEveryGame
  BY DEF DataInv, StoredInv, Stored, CompletedImportHoldsEveryGame
<1> QED BY DataAlways, <1>1, PTL

-----------------------------------------------------------------------------
(* The summary. *)

\* One row more counts for at most one.
LEMMA AddRow ==
  ASSUME NEW r \in Bags, NEW g \in Games, NEW q, q = [r EXCEPT ![g] = @ + 1]
  PROVE  q \in Bags /\ Surplus(r) \in Nat /\ Surplus(q) \in Nat /\ Surplus(q) <= Surplus(r) + 1
<1>0. /\ q \in Bags /\ \A x \in Games : r[x] \in Nat /\ q[x] = IF x = g THEN r[x] + 1 ELSE r[x]
  BY DEF Bags
<1>1. PICK f : count_games(r) = f[Games] /\ \A s \in SUBSET Games : f[s] = SumStep(f, r, s)
  BY CountFunction
<1>2. PICK h : count_games(q) = h[Games] /\ \A s \in SUBSET Games : h[s] = SumStep(h, q, s)
  BY CountFunction
<1> DEFINE Good(s) == /\ f[s] \in Nat /\ h[s] \in Nat
                      /\ h[s] <= f[s] + IF g \in s THEN 1 ELSE 0
<1> DEFINE T == {s \in SUBSET Games : ~Good(s)}
<1>3. T = {}
  <2> SUFFICES ASSUME T # {} PROVE FALSE
    OBVIOUS
  <2>1. PICK s \in T : s # {} => s \ {Pick(s)} \notin T
    <3>1. T \subseteq SUBSET Games
      OBVIOUS
    <3> HIDE DEF T
    <3> QED BY <3>1, SmallestSet
  <2>2. s \in SUBSET Games /\ ~Good(s)
    BY <2>1
  <2>3. ASSUME s = {} PROVE FALSE
    <3>1. f[s] = 0 /\ h[s] = 0
      BY <1>1, <1>2, <2>2, <2>3 DEF SumStep
    <3> QED BY <3>1, <2>2, <2>3
  <2> DEFINE t == s \ {Pick(s)}
  <2>4. Pick(s) \in s /\ t \in SUBSET Games
    BY <2>2, <2>3, PickFacts
  <2>5. Good(t)
    BY <2>1, <2>3, <2>4
  <2>6. f[s] = r[Pick(s)] + f[t] /\ h[s] = q[Pick(s)] + h[t]
    BY <1>1, <1>2, <2>2, <2>3 DEF SumStep
  <2>7. /\ r[Pick(s)] \in Nat
        /\ q[Pick(s)] = IF Pick(s) = g THEN r[Pick(s)] + 1 ELSE r[Pick(s)]
    BY <1>0, <2>2, <2>4
  <2>8. g \in s <=> g \in t \/ Pick(s) = g
    BY <2>4
  <2>9. g \in t => Pick(s) # g
    OBVIOUS
  <2> HIDE DEF t
  <2> QED BY <2>2, <2>5, <2>6, <2>7, <2>8, <2>9
<1>4. Good(Games)
  <2>1. Games \in SUBSET Games
    OBVIOUS
  <2> HIDE DEF Good
  <2> QED BY <1>3, <2>1
<1>5. count_games(r) \in Nat /\ count_games(q) \in Nat /\ count_games(q) <= count_games(r) + 1
  BY <1>1, <1>2, <1>4
<1>6. /\ Unique(r) \in Bags /\ Unique(q) \in Bags
      /\ \A x \in Games : /\ Unique(r)[x] <= r[x] /\ Unique(q)[x] <= q[x]
                          /\ Unique(r)[x] <= Unique(q)[x]
  <2>1. \A x \in Games : /\ Unique(r)[x] = IF r[x] > 0 THEN 1 ELSE 0
                         /\ Unique(q)[x] = IF q[x] > 0 THEN 1 ELSE 0
    BY DEF Unique
  <2>2. Unique(r) \in Bags /\ Unique(q) \in Bags
    BY <1>0, UniqueFacts
  <2>3. ASSUME NEW x \in Games
        PROVE  /\ Unique(r)[x] <= r[x] /\ Unique(q)[x] <= q[x]
               /\ Unique(r)[x] <= Unique(q)[x]
    <3>1. r[x] \in Nat /\ q[x] = IF x = g THEN r[x] + 1 ELSE r[x]
      BY <1>0
    <3>2. r[x] \in Nat /\ q[x] \in Nat /\ r[x] <= q[x]
      BY <3>1
    <3>3. /\ Unique(r)[x] = IF r[x] > 0 THEN 1 ELSE 0
          /\ Unique(q)[x] = IF q[x] > 0 THEN 1 ELSE 0
      BY <2>1
    <3> QED BY <3>2, <3>3
  <2> QED BY <2>2, <2>3
<1>7. /\ count_games(Unique(r)) \in Nat /\ count_games(Unique(q)) \in Nat
      /\ count_games(Unique(r)) <= count_games(r) /\ count_games(Unique(q)) <= count_games(q)
      /\ count_games(Unique(r)) <= count_games(Unique(q))
  BY <1>0, <1>6, CountFacts
<1> QED BY <1>0, <1>5, <1>7 DEF Surplus

\* deduplicate() removes nothing where every game is there at most once.
LEMMA SurplusFacts ==
  ASSUME NEW r \in Bags
  PROVE  Surplus(r) \in Nat /\ ((\A g \in Games : r[g] <= 1) => Surplus(r) = 0)
<1>1. /\ Unique(r) \in Bags /\ \A g \in Games : Unique(r)[g] <= r[g]
  BY UniqueFacts
<1>2. /\ count_games(r) \in Nat /\ count_games(Unique(r)) \in Nat
      /\ count_games(Unique(r)) <= count_games(r)
  BY <1>1, CountFacts
<1>3. ASSUME \A g \in Games : r[g] <= 1 PROVE count_games(r) <= count_games(Unique(r))
  <2>1. \A g \in Games : r[g] <= Unique(r)[g]
    BY <1>3 DEF Bags, Unique
  <2> QED BY <1>1, <2>1, CountFacts
<1> QED BY <1>2, <1>3 DEF Surplus

\* A small number survives the cast to std::size_t.
LEMMA SizeOfSmall ==
  ASSUME NEW n \in Nat, n < SizeModulus
  PROVE  Size(n) = n
BY ImportAssumption DEF Size

\* A call that ends without a summary.
LEMMA FailedCount ==
  ASSUME pc' = "idle", result' = None \/ result' = Failed
  PROVE  CountInv'
<1>1. result' # None => ~result'.ok
  BY DEF Failed
<1> QED BY <1>1 DEF CountInv, SummaryAddsUp

\* What is reported is what was attempted, as long as nothing negative is cast.
LEMMA SummaryCount ==
  ASSUME Inv, DataInv, pc \in Running \ {"ingest"}, clean => 0 <= committed - pre_committed,
         NEW halt, result' = Summary(halt), clean' = clean, pc' = "idle"
  PROVE  CountInv'
<1>1. /\ committed - pre_committed + skipped = done - start
      /\ done \in Nat /\ start \in Nat /\ committed \in Int /\ pre_committed \in Int /\ skipped \in Nat
      /\ start <= done /\ done <= pos /\ pos <= Len(Items[source]) /\ pos \in Nat
      /\ source \in Sources
  BY DEF Inv, TypeOK, PosInv, DataInv, SumInv, Running
<1>2. Len(Items[source]) < SizeModulus /\ Len(Items[source]) \in Nat /\ SizeModulus \in Nat
  BY <1>1, ImportAssumption
<1>3. ASSUME clean PROVE Size(committed - pre_committed) + skipped = done - start
  <2>1. committed - pre_committed \in Nat /\ committed - pre_committed < SizeModulus
    BY <1>1, <1>2, <1>3
  <2> QED BY <1>1, <2>1, SizeOfSmall
<1>4. /\ result'.committed = Size(committed - pre_committed)
      /\ result'.skipped = skipped /\ result'.attempted = done - start
  BY DEF Summary
<1> QED BY <1>3, <1>4 DEF CountInv, SummaryAddsUp

\* A new bundle has no row too many.
LEMMA InitCount == Init => CountInv
BY DEF Init, CountInv, SummaryAddsUp

\* An import is clean when the index is there, or is put there by the repair.
LEMMA RunCount ==
  ASSUME Inv, NEW s \in Sources, Run(s)
  PROVE  CountInv'
<1>1. /\ rows' = rows /\ result' = None
      /\ pc' = "repair" \/ (pc' = "enter" /\ (clean' => index))
  BY DEF Run, storage
<1>2. index => \A g \in Games : rows[g] <= 1
  BY DEF Inv, IndexInv
<1> QED BY <1>1, <1>2 DEF CountInv, SummaryAddsUp

\* The repair leaves each game once.
LEMMA RepairCount ==
  ASSUME Inv, Repair
  PROVE  CountInv'
<1>1. rows \in Bags /\ index \in BOOLEAN /\ failures \in Nat /\ (pc = "repair" => result = None)
  BY DEF Inv, TypeOK, PosInv
<1>2. CASE index' /\ pc' = "enter" /\ result' = result
  <2>1. index => \A g \in Games : rows[g] <= 1
    BY DEF Inv, IndexInv
  <2>2. \A g \in Games : rows'[g] <= 1
    BY <1>1, <1>2, <2>1, DeduplicateFacts DEF Repair
  <2>3. result' = None
    BY <1>1, <1>2 DEF Repair
  <2> QED BY <1>2, <2>2, <2>3 DEF CountInv, SummaryAddsUp
<1>3. CASE pc' = "idle" /\ result' = Failed
  BY <1>3, FailedCount
<1> QED BY <1>2, <1>3 DEF Repair, Returns

\* Nothing is inserted yet, and nothing is there twice.
LEMMA EnterCount ==
  ASSUME Inv, CountInv, Enter
  PROVE  CountInv'
<1>1. /\ pc = "enter" /\ result = None /\ rows \in Bags /\ clean' = clean
      /\ committed' = pre_committed /\ pre_committed' = pre_committed /\ pre_committed \in Int
      /\ stage2' = "insert"
  BY DEF Enter, Inv, TypeOK, PosInv
<1>2. CASE pc' = "ingest" /\ tx' = rows /\ result' = result
  <2>1. clean => Surplus(rows) = 0
    BY <1>1, SurplusFacts DEF CountInv
  <2>2. clean' => Surplus(tx') <= committed' - pre_committed'
    BY <1>1, <1>2, <2>1
  <2> QED BY <1>1, <1>2, <2>2 DEF CountInv, SummaryAddsUp
<1>3. CASE pc' = "idle" /\ result' = Failed
  BY <1>3, FailedCount
<1> QED BY <1>2, <1>3 DEF Enter, Returns

\* Steps that leave the counts and the rows alone.
LEMMA QuietCount ==
  ASSUME Inv, CountInv, Stage0Check \/ Stage0Read \/ RequestStop \/ UNCHANGED vars
  PROVE  CountInv'
<1>1. /\ rows' = rows /\ pc' = pc /\ tx' = tx /\ result' = result /\ clean' = clean
      /\ committed' = committed /\ pre_committed' = pre_committed /\ stage2' = stage2
  BY DEF Stage0Check, Stage0Read, RequestStop, vars, storage, input, progress, stages
<1> QED BY <1>1 DEF CountInv, SummaryAddsUp

\* A row more is a game committed more.
LEMMA Stage2InsertCount ==
  ASSUME Inv, CountInv, Stage2Insert
  PROVE  CountInv'
<1>1. /\ pc = "ingest" /\ pc' = pc /\ result' = result /\ clean' = clean /\ stage2 = "insert"
      /\ pre_committed' = pre_committed /\ result = None /\ done < pos
      /\ committed \in Int /\ pre_committed \in Int /\ source \in Sources
      /\ done \in Nat /\ pos \in Nat /\ pos <= Len(Items[source])
  BY DEF Stage2Insert, input, Inv, TypeOK, PosInv, Running
<1>2. tx \in Bags /\ (clean => Surplus(tx) <= committed - pre_committed)
  BY <1>1 DEF Inv, TxInv, CountInv
<1>3. CASE UNCHANGED <<tx, committed, stage2>>
  BY <1>1, <1>2, <1>3 DEF CountInv, SummaryAddsUp
<1>4. CASE Item # Bad /\ tx' = [tx EXCEPT ![Item] = @ + 1] /\ committed' = committed + 1
           /\ stage2' \in {"commit", "insert"}
  <2>1. Item \in Games
    <3>1. Items[source] \in Seq(Games \cup {Bad}) /\ done + 1 \in 1..Len(Items[source])
      BY <1>1, ImportAssumption
    <3> QED BY <1>4, <3>1 DEF Item
  <2>2. /\ Surplus(tx) \in Nat /\ Surplus(tx') \in Nat /\ Surplus(tx') <= Surplus(tx) + 1
    BY <1>2, <1>4, <2>1, AddRow
  <2>3. clean' => Surplus(tx') <= committed' - pre_committed'
    BY <1>1, <1>2, <1>4, <2>2
  <2> QED BY <1>1, <1>4, <2>3 DEF CountInv, SummaryAddsUp
<1>5. CASE stage2' = "error"
  BY <1>1, <1>5 DEF CountInv, SummaryAddsUp
<1> QED BY <1>3, <1>4, <1>5 DEF Stage2Insert, Abort

\* A commit moves the rows, and counts nothing.
LEMMA Stage2CommitCount ==
  ASSUME Inv, CountInv, Stage2Commit
  PROVE  CountInv'
<1>1. /\ pc = "ingest" /\ pc' = pc /\ result' = result /\ clean' = clean /\ stage2 = "commit"
      /\ pre_committed' = pre_committed /\ committed' = committed /\ result = None
  BY DEF Stage2Commit, input, progress, Inv, PosInv
<1>2. \/ rows' = tx /\ stage2' = "checkpoint"
      \/ stage2' = "error"
  BY DEF Stage2Commit, Abort
<1> QED BY <1>1, <1>2 DEF CountInv, SummaryAddsUp

\* The next batch begins with the committed rows.
LEMMA Stage2CheckpointCount ==
  ASSUME Inv, CountInv, Stage2Checkpoint
  PROVE  CountInv'
<1>1. /\ pc = "ingest" /\ pc' = pc /\ result' = result /\ clean' = clean /\ stage2 = "checkpoint"
      /\ pre_committed' = pre_committed /\ committed' = committed /\ result = None /\ rows' = rows
  BY DEF Stage2Checkpoint, input, Inv, PosInv
<1>2. \/ stage2' = "stop"
      \/ tx' = rows /\ stage2' = "insert"
      \/ stage2' = "error"
  BY DEF Stage2Checkpoint, Abort
<1> QED BY <1>1, <1>2 DEF CountInv, SummaryAddsUp

\* The last batch is committed; an error of stage2 is on record.
LEMMA IngestEndCount ==
  ASSUME Inv, DataInv, CountInv, IngestEnd
  PROVE  CountInv'
<1>1. /\ pc = "ingest" /\ clean' = clean /\ result = None
      /\ pre_committed' = pre_committed /\ committed' = committed
      /\ committed \in Int /\ pre_committed \in Int /\ rows \in Bags
  BY DEF IngestEnd, input, progress, Inv, PosInv, TypeOK
<1>2. CASE /\ fatal_error # "io_failure" /\ rows' = IF tx = None THEN rows ELSE tx
           /\ pc' \in {"dedup", "finish"} /\ result' = result
  <2>1. stage2 # "error" /\ stage2 \in {"insert", "commit", "checkpoint", "stop", "error"}
    BY <1>1, <1>2 DEF Inv, TypeOK, DataInv, EndInv
  <2>2. rows' \in Bags /\ (clean => Surplus(rows') <= committed - pre_committed)
    <3>1. CASE stage2 \in {"insert", "commit"}
      <4>1. tx \in Bags /\ tx # None
        BY <1>1, <3>1, ImportAssumption DEF Inv, TxInv, Bags
      <4> QED BY <1>1, <1>2, <3>1, <4>1 DEF CountInv
    <3>2. CASE stage2 \in {"checkpoint", "stop"}
      <4>1. tx = None
        BY <1>1, <3>2 DEF Inv, TxInv
      <4> QED BY <1>1, <1>2, <3>2, <4>1 DEF CountInv
    <3> QED BY <2>1, <3>1, <3>2
  <2>3. Surplus(rows') \in Nat
    BY <2>2, SurplusFacts
  <2>4. clean' => Surplus(rows') <= committed' - pre_committed' /\ 0 <= committed' - pre_committed'
    BY <1>1, <2>2, <2>3
  <2> QED BY <1>1, <1>2, <2>4 DEF CountInv, SummaryAddsUp
<1>3. CASE pc' = "idle" /\ result' = Failed
  BY <1>3, FailedCount
<1> QED BY <1>2, <1>3 DEF IngestEnd, Returns

\* What deduplicate() removes was committed by this import.
LEMMA DeduplicateCount ==
  ASSUME Inv, CountInv, Deduplicate
  PROVE  CountInv'
<1>1. /\ pc = "dedup" /\ clean' = clean /\ result = None /\ pre_committed' = pre_committed
      /\ committed \in Int /\ pre_committed \in Int /\ rows \in Bags /\ ~index
  BY DEF Deduplicate, input, Inv, PosInv, TypeOK, IndexInv
<1>2. CASE index' /\ committed' = committed - Removed(rows, rows') /\ pc' = "finish" /\ result' = result
  <2>1. rows' = Unique(rows)
    BY <1>1, <1>2 DEF Deduplicate, deduplicate
  <2>2. committed' = committed - Surplus(rows)
    BY <1>2, <2>1 DEF Removed, Surplus
  <2>3. Surplus(rows) \in Nat /\ (clean => Surplus(rows) <= committed - pre_committed)
    BY <1>1, SurplusFacts DEF CountInv
  <2>4. clean' => 0 <= committed' - pre_committed'
    BY <1>1, <2>2, <2>3
  <2> QED BY <1>1, <1>2, <2>4 DEF CountInv, SummaryAddsUp
<1>3. CASE pc' = "idle" /\ result' = Failed
  BY <1>3, FailedCount
<1> QED BY <1>2, <1>3 DEF Deduplicate, Returns

\* The last steps report the counts.
LEMMA EndCount ==
  ASSUME Inv, DataInv, CountInv, Finish \/ Rebuild \/ DeleteCheckpoint
  PROVE  CountInv'
<1>1. /\ pc \in {"finish", "rebuild", "delete"} /\ clean' = clean /\ result = None
      /\ pre_committed' = pre_committed /\ committed' = committed
      /\ clean => 0 <= committed - pre_committed
  BY DEF Finish, Rebuild, DeleteCheckpoint, input, progress, Inv, PosInv, CountInv
<1>2. CASE pc' \in {"rebuild", "delete"} /\ result' = result
  BY <1>1, <1>2 DEF CountInv, SummaryAddsUp
<1>3. CASE pc' = "idle" /\ result' = Failed
  BY <1>3, FailedCount
<1>4. CASE pc' = "idle" /\ \E halt \in BOOLEAN : result' = Summary(halt)
  BY <1>1, <1>4, SummaryCount DEF Running
<1> QED BY <1>2, <1>3, <1>4 DEF Finish, Rebuild, DeleteCheckpoint, Returns

\* Every step of an import keeps the counts within what was attempted.
LEMMA NextCount ==
  ASSUME Inv, DataInv, CountInv, [Next]_vars
  PROVE  CountInv'
<1>1. CASE Crash
  <2>1. pc' = "idle" /\ result' = None
    BY <1>1 DEF Crash, Returns
  <2> QED BY <2>1, FailedCount
<1> QED BY <1>1, RunCount, RepairCount, EnterCount, QuietCount, Stage2InsertCount, Stage2CommitCount,
           Stage2CheckpointCount, IngestEndCount, DeduplicateCount, EndCount DEF Next, Step

\* committed + skipped = total_attempted, with no count wrapped by std::size_t, in
\* every summary of an import that did not begin on another one's raw rows.
THEOREM SummaryIsExact == ErrorsKept => (Spec => []SummaryAddsUp)
<1> SUFFICES ASSUME ErrorsKept PROVE Spec => []SummaryAddsUp
  OBVIOUS
<1>1. Init => CountInv
  BY InitCount
<1>2. Inv /\ DataInv /\ CountInv /\ [Next]_vars => CountInv'
  BY NextCount
<1>3. CountInv => SummaryAddsUp
  BY DEF CountInv
<1>4. Spec => [](Inv /\ DataInv)
  BY DataAlways
<1> QED BY <1>1, <1>2, <1>3, <1>4, PTL DEF Spec
=============================================================================
