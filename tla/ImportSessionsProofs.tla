------------------------ MODULE ImportSessionsProofs ------------------------
(***************************************************************************)
(* Proofs about ImportSessions: one import at a time, the outcome a        *)
(* progress stream reports, the bound on the sessions kept, no thread      *)
(* behind the server, and cancellations that hold.                         *)
(***************************************************************************)
EXTENDS ImportSessions, FiniteSetTheorems, SequenceTheorems, WellFoundedInduction, TLAPS

-----------------------------------------------------------------------------
(* The inductive invariant. *)

\* The values each variable takes.
TypeOK ==
  /\ server \in {"up", "stopping", "down"} /\ issued \in 0..MaxImports
  /\ handler \in [Handlers -> [at : {"idle", "write", "start", "register"}, id : 0..MaxImports]]
  /\ sessions \subseteq 1..issued
  /\ import_workers \in Seq(Ids) /\ completed_session_ids \in Seq(Ids)
  /\ upload \subseteq Ids /\ temp_files \subseteq Ids
  /\ worker \in [Ids -> {"none", "wait", "ingest", "finish", "stored", "cleaned", "done", "exited"}]
  /\ database_mutex \in 0..MaxImports
  /\ stop_requested \in [Ids -> BOOLEAN] /\ summary \in [Ids -> {"none", "stopped", "whole"}]
  /\ failed \in [Ids -> BOOLEAN] /\ done \in [Ids -> BOOLEAN]
  /\ stream \in [at : {"none", "open", "timeout", "complete", "error"}, id : 0..MaxImports]

\* A handler that has entered a session has it to itself, in the map, and knows
\* whether its worker runs.
HandlerInv ==
  /\ \A h \in Handlers : handler[h].at = "idle" <=> handler[h].id = 0
  /\ \A h \in Handlers : handler[h].at # "idle" =>
       /\ handler[h].id \in sessions
       /\ handler[h].id \notin ToSet(import_workers) \cup ToSet(completed_session_ids)
       /\ handler[h].at = "register" <=> worker[handler[h].id] # "none"
  /\ \A g, h \in Handlers : handler[g].id = handler[h].id /\ handler[g].id # 0 => g = h
  /\ server # "up" => \A h \in Handlers : handler[h].at = "idle"

\* A worker that has not returned is in a handler's hand or registered, and its
\* session is in the map; a session that is not in the map's hands is done.
WorkerInv ==
  /\ \A i \in Ids : done[i] <=> worker[i] \in {"done", "exited"}
  /\ \A i \in Ids : i > issued => worker[i] = "none"
  /\ \A i \in Ids : worker[i] \notin {"none", "exited"} => i \in Held \cup ToSet(import_workers)
  /\ \A i \in ToSet(import_workers) :
       i \in sessions /\ worker[i] # "none" /\ i \notin ToSet(completed_session_ids)
  /\ \A i \in ToSet(completed_session_ids) : worker[i] = "exited"
  /\ server = "down" => \A i \in Ids : worker[i] \in {"none", "exited"}

\* At most one session of the map is not done.
LiveInv == \A i, j \in sessions : ~done[i] /\ ~done[j] => i = j

\* The outcome is recorded from "stored" on, once.
OutcomeInv ==
  /\ \A i \in Ids : worker[i] \in {"none", "wait", "ingest", "finish"} =>
       ~failed[i] /\ summary[i] = "none"
  /\ \A i \in Ids : worker[i] \in {"stored", "cleaned", "done", "exited"} =>
       (failed[i] <=> summary[i] = "none")
  /\ stream.at = "open" => stream.id \in Ids
  /\ stream.at \in {"complete", "error"} =>
       /\ stream.id \in Ids /\ done[stream.id]
       /\ stream.at = "error" <=> failed[stream.id]

\* What the cap leaves in the map.
BoundInv == server # "down" =>
  /\ sessions \subseteq Held \cup ToSet(import_workers) \cup ToSet(completed_session_ids)
  /\ Len(completed_session_ids) <= MaxCompletedSessions
  /\ Cardinality(Held \cup ToSet(import_workers)) <= Cardinality(Handlers)

Inv == TypeOK /\ HandlerInv /\ WorkerInv /\ LiveInv /\ OutcomeInv /\ BoundInv

-----------------------------------------------------------------------------
(* What Kept returns. *)

\* A set of numbers that is not empty has a least one: the induction used below.
LEMMA LeastNumber ==
  ASSUME NEW T, T \subseteq Nat, T # {}
  PROVE  \E x \in T : \A y \in T : x <= y
<1>1. PICK R : IsWellFoundedOn(R, Nat) /\ R = {p \in Nat \X Nat : p[1] < p[2]}
  BY NatLessThanWellFounded DEF OpToRel
<1>2. PICK x \in T : \A y \in T : <<y, x>> \notin R
  BY <1>1, WFMin, Zenon
<1>3. SUFFICES ASSUME NEW y \in T PROVE x <= y
  BY <1>3
<1>4. x \in Nat /\ y \in Nat
  OBVIOUS
<1>5. <<y, x>> \in R <=> y < x
  <2>1. <<y, x>> \in Nat \X Nat
    BY <1>4
  <2> QED BY <2>1, <1>1
<1>6. ~(y < x)
  BY <1>2, <1>5
<1> QED BY <1>4, <1>6

\* f computes Kept up to n.
IsPick(f, s, T, n) ==
  f = [i \in 0..n |-> IF i = 0 THEN <<>> ELSE IF s[i] \in T THEN Append(f[i-1], s[i]) ELSE f[i-1]]

\* The loop of prune_completed() has a value at every step (induction on its length).
LEMMA PickExists ==
  ASSUME NEW S, NEW s \in Seq(S), NEW T
  PROVE  \E f : IsPick(f, s, T, Len(s))
<1> DEFINE B == {n \in 0..Len(s) : ~\E f : IsPick(f, s, T, n)}
<1>0. Len(s) \in Nat /\ Len(s) \in 0..Len(s)
  OBVIOUS
<1>1. SUFFICES ASSUME B # {} PROVE FALSE
  BY <1>0, <1>1
<1>2. PICK n \in B : \A m \in B : n <= m
  <2>1. B \subseteq Nat
    BY <1>0
  <2> HIDE DEF B
  <2> QED BY <2>1, <1>1, LeastNumber, Zenon
<1>3. n \in 0..Len(s) /\ ~\E f : IsPick(f, s, T, n)
  BY <1>2
<1>4. CASE n = 0
  <2>1. IsPick([i \in 0..0 |-> <<>>], s, T, 0) BY DEF IsPick
  <2> QED BY <2>1, <1>3, <1>4
<1>5. CASE n # 0
  <2>1. n - 1 \in 0..Len(s) /\ n - 1 \notin B BY <1>2, <1>3, <1>5
  <2>2. PICK f : IsPick(f, s, T, n - 1) BY <2>1
  <2> DEFINE g == [i \in 0..n |-> IF i < n THEN f[i] ELSE IF s[n] \in T THEN Append(f[n-1], s[n]) ELSE f[n-1]]
  <2>3. \A i \in 0..(n-1) : g[i] = IF i = 0 THEN <<>> ELSE IF s[i] \in T THEN Append(g[i-1], s[i]) ELSE g[i-1]
    <3> TAKE i \in 0..(n - 1)
    <3>1. f[i] = IF i = 0 THEN <<>> ELSE IF s[i] \in T THEN Append(f[i-1], s[i]) ELSE f[i-1]
      BY <2>2 DEF IsPick
    <3>2. n \in Nat /\ i \in Nat /\ i < n /\ i \in 0..n
      BY <1>0, <1>3, <1>5
    <3>3. g[i] = f[i]
      BY <3>2
    <3>4. i # 0 => g[i - 1] = f[i - 1]
      BY <3>2
    <3> HIDE DEF g
    <3> QED BY <3>1, <3>3, <3>4
  <2>4. g[n] = IF n = 0 THEN <<>> ELSE IF s[n] \in T THEN Append(g[n-1], s[n]) ELSE g[n-1]
    BY <1>3, <1>5 
  <2>5. IsPick(g, s, T, n)
    <3> DEFINE Step(i) == IF i = 0 THEN <<>> ELSE IF s[i] \in T THEN Append(g[i-1], s[i]) ELSE g[i-1]
    <3>1. g = [i \in 0..n |-> g[i]]
      OBVIOUS
    <3>2. \A i \in 0..n : g[i] = Step(i)
      <4> HIDE DEF g, Step
      <4>1. \A i \in 0..n : i = n \/ i \in 0..(n - 1)
        BY <1>0, <1>3
      <4>2. g[n] = Step(n)
        BY <2>4 DEF Step
      <4>3. \A i \in 0..(n - 1) : g[i] = Step(i)
        BY <2>3 DEF Step
      <4> QED BY <4>1, <4>2, <4>3, Zenon
    <3> HIDE DEF g
    <3>3. [i \in 0..n |-> g[i]] = [i \in 0..n |-> Step(i)]
      <4> HIDE DEF Step
      <4> QED BY <3>2
    <3>4. g = [i \in 0..n |-> Step(i)]
      <4> HIDE DEF Step
      <4> QED BY <3>1, <3>3
    <3> QED BY <3>4 DEF IsPick
  <2> QED BY <2>5, <1>3
<1> QED BY <1>4, <1>5

\* ... so Kept is the last of them.
LEMMA KeptIs ==
  ASSUME NEW S, NEW s \in Seq(S), NEW T
  PROVE  \E f : IsPick(f, s, T, Len(s)) /\ Kept(s, T) = f[Len(s)]
<1> DEFINE pick == CHOOSE f : IsPick(f, s, T, Len(s))
<1>1. IsPick(pick, s, T, Len(s))
  BY PickExists, Zenon
<1>2. Kept(s, T) = pick[Len(s)]
  BY DEF Kept, IsPick
<1> HIDE DEF pick
<1> QED BY <1>1, <1>2

\* The elements after push_back().
LEMMA AppendElements ==
  ASSUME NEW S, NEW t \in Seq(S), NEW x \in S
  PROVE  ToSet(Append(t, x)) = ToSet(t) \cup {x}
<1>1. Len(t) \in Nat /\ DOMAIN t = 1..Len(t) /\ DOMAIN Append(t, x) = 1..(Len(t) + 1)
  OBVIOUS
<1>2. \A i \in 1..Len(t) : Append(t, x)[i] = t[i]
  OBVIOUS
<1>3. Append(t, x)[Len(t) + 1] = x
  OBVIOUS
<1>4. 1..(Len(t) + 1) = (1..Len(t)) \cup {Len(t) + 1}
  BY <1>1
<1> QED BY <1>1, <1>2, <1>3, <1>4, Zenon DEF ToSet

\* Kept keeps exactly the elements of s that are in T.
LEMMA KeptElements ==
  ASSUME NEW S, NEW s \in Seq(S), NEW T
  PROVE /\ Kept(s, T) \in Seq(S \cap T)
        /\ ToSet(Kept(s, T)) = ToSet(s) \cap T
<1>1. PICK f : IsPick(f, s, T, Len(s)) /\ Kept(s, T) = f[Len(s)]
  BY KeptIs
<1> DEFINE Good(n) == f[n] \in Seq(S \cap T) /\ ToSet(f[n]) = {s[i] : i \in 1..n} \cap T
<1> DEFINE B == {n \in 0..Len(s) : ~Good(n)}
<1>2. B = {}
  <2> SUFFICES ASSUME B # {} PROVE FALSE
    OBVIOUS
  <2>2. PICK n \in B : \A m \in B : n <= m
    <3>1. B \subseteq Nat
      OBVIOUS
    <3> HIDE DEF B
    <3> QED BY <3>1, LeastNumber, Zenon
  <2>3. CASE n = 0
    BY <2>3, <2>2, <1>1 DEF IsPick, ToSet
  <2>4. CASE n # 0
    <3>1. n \in 1..Len(s) /\ n - 1 \in 0..Len(s) /\ Good(n-1)
      <4> HIDE DEF Good
      <4>1. Len(s) \in Nat /\ n \in 0..Len(s)
        BY <2>2
      <4>2. n - 1 \in 0..Len(s) /\ ~(n <= n - 1)
        BY <4>1, <2>4
      <4> QED BY <4>1, <4>2, <2>2, <2>4
    <3>0. Len(s) \in Nat /\ n \in Nat /\ n \in 0..Len(s)
      <4> HIDE DEF Good
      <4> QED BY <3>1
    <3>2. f[n] = IF s[n] \in T THEN Append(f[n-1], s[n]) ELSE f[n-1]
      <4> HIDE DEF Good
      <4> QED BY <3>0, <2>4, <1>1 DEF IsPick
    <3>3. {s[i] : i \in 1..n} = {s[i] : i \in 1..(n-1)} \cup {s[n]} 
      <4>1. 1..n = (1..(n-1)) \cup {n}
        BY <3>0, <2>4
      <4> QED BY <4>1, Zenon
    <3>4. CASE s[n] \in T
      <4>0. s[n] \in S \cap T BY <3>1, <3>4
      <4>1. f[n] \in Seq(S \cap T) BY <3>1, <3>2, <3>4, <4>0
      <4>2. ToSet(f[n]) = ToSet(f[n-1]) \cup {s[n]}
        <5> DEFINE t == f[n - 1]
        <5>1. t \in Seq(S \cap T) /\ f[n] = Append(t, s[n])
          BY <3>1, <3>2, <3>4
        <5>2. ToSet(Append(t, s[n])) = ToSet(t) \cup {s[n]}
          <6> HIDE DEF t
          <6> QED BY <5>1, <4>0, AppendElements
        <5> QED BY <5>1, <5>2
      <4>3. Good(n) BY <4>1, <4>2, <3>1, <3>3, <3>4
      <4> QED BY <4>3, <2>2
    <3>5. CASE s[n] \notin T
      <4>3. Good(n) BY <3>1, <3>2, <3>3, <3>5
      <4> QED BY <4>3, <2>2
    <3> QED BY <3>4, <3>5
  <2> QED BY <2>3, <2>4
<1>3. Good(Len(s))
  <2> HIDE DEF Good
  <2>1. Len(s) \in 0..Len(s)
    OBVIOUS
  <2> QED BY <1>2, <2>1
<1>4. ToSet(s) = {s[i] : i \in 1..Len(s)}
  BY DEF ToSet
<1>5. Kept(s, T) = f[Len(s)]
  BY <1>1
<1> QED BY <1>5, <1>3, <1>4


\* The elements of a concatenation, as completed_session_ids grows by it.
LEMMA ConcatElements ==
  ASSUME NEW S, NEW s \in Seq(S), NEW t \in Seq(S)
  PROVE  s \o t \in Seq(S) /\ ToSet(s \o t) = ToSet(s) \cup ToSet(t)
<1>1. /\ Len(s) \in Nat /\ DOMAIN s = 1..Len(s)
      /\ Len(t) \in Nat /\ DOMAIN t = 1..Len(t)
      /\ s \o t \in Seq(S) /\ DOMAIN (s \o t) = 1..(Len(s) + Len(t))
  OBVIOUS
<1>2. \A i \in 1..Len(s) : i \in 1..(Len(s) + Len(t)) /\ (s \o t)[i] = s[i]
  BY <1>1
<1>3. \A i \in 1..Len(t) : Len(s) + i \in 1..(Len(s) + Len(t)) /\ (s \o t)[Len(s) + i] = t[i]
  BY <1>1
<1>4. ASSUME NEW i \in 1..(Len(s) + Len(t))
      PROVE  (s \o t)[i] \in ToSet(s) \cup ToSet(t)
  <2>1. CASE i <= Len(s)
    BY <1>1, <1>2, <2>1 DEF ToSet
  <2>2. CASE ~(i <= Len(s))
    <3>1. i - Len(s) \in 1..Len(t) /\ (s \o t)[i] = t[i - Len(s)]
      BY <1>1, <2>2
    <3> QED BY <1>1, <3>1 DEF ToSet
  <2> QED BY <2>1, <2>2
<1>5. ToSet(s) \cup ToSet(t) \subseteq ToSet(s \o t)
  BY <1>1, <1>2, <1>3, Zenon DEF ToSet
<1>6. ToSet(s \o t) \subseteq ToSet(s) \cup ToSet(t)
  BY <1>1, <1>4, Zenon DEF ToSet
<1> QED BY <1>1, <1>5, <1>6

\* Evicting the k oldest splits the elements in two.
LEMMA CutElements ==
  ASSUME NEW S, NEW s \in Seq(S), NEW k \in 0..Len(s)
  PROVE  /\ SubSeq(s, k + 1, Len(s)) \in Seq(S) /\ Len(SubSeq(s, k + 1, Len(s))) = Len(s) - k
         /\ ToSet(s) = ToSet(SubSeq(s, 1, k)) \cup ToSet(SubSeq(s, k + 1, Len(s)))
<1> DEFINE a == SubSeq(s, 1, k)
           b == SubSeq(s, k + 1, Len(s))
<1>1. Len(s) \in Nat /\ DOMAIN s = 1..Len(s) /\ k \in Nat /\ k <= Len(s)
  OBVIOUS
<1>2. /\ DOMAIN a = 1..k
      /\ \A i \in 1..k : a[i] = s[i]
  BY <1>1
<1>3. /\ b \in Seq(S) /\ Len(b) = Len(s) - k /\ DOMAIN b = 1..(Len(s) - k)
      /\ \A i \in 1..(Len(s) - k) : b[i] = s[k + i]
  <2> DEFINE m == k + 1
  <2>1. m \in Nat /\ m = k + 1
    BY <1>1
  <2>2. SubSeq(s, m, Len(s)) \in Seq(S)
    <3> HIDE DEF m
    <3> QED BY <1>1, <2>1
  <2>3. /\ Len(SubSeq(s, m, Len(s))) = Len(s) - k
        /\ DOMAIN SubSeq(s, m, Len(s)) = 1..(Len(s) - k)
    <3> DEFINE z == SubSeq(s, m, Len(s))
    <3>1. Len(z) = IF m <= Len(s) THEN Len(s) - m + 1 ELSE 0
      <4> HIDE DEF m
      <4>1. \A i \in m..Len(s) : s[i] \in S
        BY <1>1, <2>1
      <4> QED BY <1>1, <2>1, <4>1, SubSeqProperties
    <3>2. DOMAIN z = 1..Len(z)
      <4> HIDE DEF z
      <4> QED BY <2>2 DEF z
    <3> HIDE DEF m, z
    <3>3. Len(z) = Len(s) - k
      <4> DEFINE n == Len(s)
      <4>1. n \in Nat /\ k \in Nat /\ m \in Nat /\ m = k + 1 /\ k <= n
        BY <1>1, <2>1
      <4>2. Len(z) = IF m <= n THEN n - m + 1 ELSE 0
        BY <3>1
      <4> HIDE DEF n
      <4>3. CASE m <= n
        BY <4>1, <4>2, <4>3 DEF n
      <4>4. CASE ~(m <= n)
        <5>1. n - k = 0
          BY <4>1, <4>4
        <5> QED BY <4>2, <4>4, <5>1 DEF n
      <4> QED BY <4>3, <4>4
    <3> QED BY <3>2, <3>3 DEF z
  <2>4. \A i \in 1..(Len(s) - k) : SubSeq(s, m, Len(s))[i] = s[k + i]
    <3> HIDE DEF m
    <3> QED BY <1>1, <2>1
  <2> QED BY <2>2, <2>3, <2>4
<1> HIDE DEF a, b
<1>4. ToSet(a) \subseteq ToSet(s)
  BY <1>1, <1>2 DEF ToSet
<1>5. ToSet(b) \subseteq ToSet(s)
  BY <1>1, <1>3 DEF ToSet
<1>6. ASSUME NEW i \in 1..Len(s)
      PROVE  s[i] \in ToSet(a) \cup ToSet(b)
  <2>1. CASE i <= k
    BY <1>1, <1>2, <2>1 DEF ToSet
  <2>2. CASE ~(i <= k)
    <3>1. i - k \in 1..(Len(s) - k) /\ b[i - k] = s[i]
      BY <1>1, <1>3, <2>2
    <3> QED BY <1>3, <3>1 DEF ToSet
  <2> QED BY <2>1, <2>2
<1>7. ToSet(s) \subseteq ToSet(a) \cup ToSet(b)
  BY <1>1, <1>6, Zenon DEF ToSet
<1> QED BY <1>3, <1>4, <1>5, <1>7 DEF a, b

\* What prune_completed() leaves, as sets: the workers that are not done; the last
\* of the completed sessions, within the cap; and all sessions but completed ones
\* beyond it.
LEMMA PruneFacts ==
  ASSUME TypeOK
  PROVE  LET R == ToSet(import_workers)
             C == ToSet(completed_session_ids) \cup (R \cap DoneSessions)
         IN  /\ Pruned.workers \in Seq(Ids) /\ ToSet(Pruned.workers) = R \ DoneSessions
             /\ Pruned.completed \in Seq(Ids) /\ ToSet(Pruned.completed) \subseteq C
             /\ Len(Pruned.completed) <= MaxCompletedSessions
             /\ Pruned.sessions \subseteq sessions
             /\ sessions \ Pruned.sessions \subseteq C
             /\ Pruned.sessions \cap C \subseteq ToSet(Pruned.completed)
<1> DEFINE R == ToSet(import_workers)
           F == Finished
           c == completed_session_ids \o F
           n == Len(c)
           k == Evicted
<1>1. import_workers \in Seq(Ids) /\ completed_session_ids \in Seq(Ids) /\ R \subseteq Ids
  BY DEF TypeOK, ToSet
<1>2. F \in Seq(Ids \cap DoneSessions) /\ ToSet(F) = R \cap DoneSessions
  BY <1>1, KeptElements DEF Finished
<1>3. Seq(Ids \cap DoneSessions) \subseteq Seq(Ids)
  OBVIOUS
<1>4. F \in Seq(Ids)
  BY <1>2, <1>3
<1>5. c \in Seq(Ids) /\ ToSet(c) = ToSet(completed_session_ids) \cup (R \cap DoneSessions)
  <2> HIDE DEF F
  <2> QED BY <1>1, <1>2, <1>4, ConcatElements
<1>6. k \in 0..n /\ n - k <= MaxCompletedSessions /\ n \in Nat
  <2> HIDE DEF c
  <2>1. n \in Nat /\ MaxCompletedSessions \in Nat
    BY <1>5, ImportSessionsAssumption
  <2>2. Evicted = IF n > MaxCompletedSessions THEN n - MaxCompletedSessions ELSE 0
    BY DEF Evicted, c
  <2> QED BY <2>1, <2>2
<1>7. /\ Pruned.workers = Kept(import_workers, Ids \ DoneSessions)
      /\ Pruned.completed = SubSeq(c, k + 1, Len(c))
      /\ Pruned.sessions = sessions \ ToSet(SubSeq(c, 1, k))
  BY DEF Pruned
<1>8. /\ Kept(import_workers, Ids \ DoneSessions) \in Seq(Ids)
      /\ ToSet(Kept(import_workers, Ids \ DoneSessions)) = R \ DoneSessions
  <2>1. Seq(Ids \cap (Ids \ DoneSessions)) \subseteq Seq(Ids)
    OBVIOUS
  <2> QED BY <1>1, <2>1, KeptElements
<1> HIDE DEF c, k, F
<1>9. /\ SubSeq(c, k + 1, Len(c)) \in Seq(Ids) /\ Len(SubSeq(c, k + 1, Len(c))) = n - k
      /\ ToSet(c) = ToSet(SubSeq(c, 1, k)) \cup ToSet(SubSeq(c, k + 1, Len(c)))
  BY <1>5, <1>6, CutElements
<1> QED BY <1>5, <1>6, <1>7, <1>8, <1>9

-----------------------------------------------------------------------------
(* The invariant holds initially and every action keeps it. *)

\* A subset of the ids is finite, and smaller sets of them count no more.
LEMMA IdSets ==
  ASSUME NEW A, NEW B, B \subseteq Ids, A \subseteq B
  PROVE  /\ IsFiniteSet(A) /\ IsFiniteSet(B)
         /\ Cardinality(A) \in Nat /\ Cardinality(B) \in Nat /\ Cardinality(A) <= Cardinality(B)
<1>1. IsFiniteSet(Ids)
  BY ImportSessionsAssumption, FS_Interval DEF Ids
<1> QED BY <1>1, FS_Subset, FS_CardinalityType

\* Sessions are entered under the ids issued.
LEMMA SessionsAreIds ==
  ASSUME TypeOK
  PROVE  sessions \subseteq Ids /\ 1..issued \subseteq Ids
BY ImportSessionsAssumption DEF TypeOK, Ids

\* What the handlers have in hand is no more than there are handlers.
LEMMA HandCount ==
  ASSUME NEW H
  PROVE  /\ Cardinality({H[h].id : h \in Handlers} \ {0}) <= Cardinality(Handlers)
         /\ Cardinality(Handlers) \in Nat
<1> DEFINE All == {H[h].id : h \in Handlers}
           f == [h \in Handlers |-> H[h].id]
<1>1. f \in Surjection(Handlers, All)
  BY DEF Surjection
<1>2. IsFiniteSet(Handlers)
  BY ImportSessionsAssumption
<1> HIDE DEF f, All
<1>3. IsFiniteSet(All) /\ Cardinality(All) <= Cardinality(Handlers)
  BY <1>1, <1>2, FS_Surjection
<1>4. Cardinality(All \ {0}) <= Cardinality(All) /\ Cardinality(All \ {0}) \in Nat
      /\ Cardinality(All) \in Nat /\ Cardinality(Handlers) \in Nat
  BY <1>2, <1>3, FS_Subset, FS_CardinalityType
<1>5. Cardinality(All \ {0}) <= Cardinality(Handlers)
  BY <1>3, <1>4
<1> QED BY <1>4, <1>5 DEF All

\* Held, now and in the next state.
LEMMA HeldBound ==
  /\ Cardinality(Held) <= Cardinality(Handlers) /\ Cardinality(Handlers) \in Nat
  /\ Cardinality(Held)' <= Cardinality(Handlers)
  /\ TypeOK => Held \subseteq Ids
<1>1. TypeOK => Held \subseteq Ids
  BY ImportSessionsAssumption DEF TypeOK, Held, Ids
<1>2. Held = {handler[h].id : h \in Handlers} \ {0} /\ Held' = {handler'[h].id : h \in Handlers} \ {0}
  BY DEF Held
<1> QED BY <1>1, <1>2, HandCount

\* The server starts with nothing.
LEMMA InitInv == Init => Inv
<1> SUFFICES ASSUME Init PROVE Inv
  OBVIOUS
<1>1. TypeOK
  BY ImportSessionsAssumption DEF Init, TypeOK, Idle, Ids
<1>2. ToSet(<<>>) = {}
  BY DEF ToSet
<1>3. Held = {}
  BY DEF Init, Idle, Held
<1>4. Cardinality(Held \cup {}) <= Cardinality(Handlers)
  BY <1>1, <1>3, HeldBound
<1>5. HandlerInv
  BY DEF Init, Idle, HandlerInv
<1>6. WorkerInv
  BY <1>2 DEF Init, WorkerInv
<1>7. LiveInv /\ OutcomeInv
  BY DEF Init, LiveInv, OutcomeInv
<1>8. BoundInv
  <2>1. sessions = {} /\ import_workers = <<>> /\ completed_session_ids = <<>>
    BY DEF Init
  <2>2. Len(completed_session_ids) <= MaxCompletedSessions
    BY <2>1, ImportSessionsAssumption
  <2> QED BY <1>2, <1>4, <2>1, <2>2 DEF BoundInv
<1> QED BY <1>1, <1>5, <1>6, <1>7, <1>8 DEF Inv

\* What an action on the worker or on the stream leaves alone.
MapKept == UNCHANGED <<server, handler, map, upload>>

\* An action that leaves the map and the handlers alone changes only what is
\* said of the workers and of the stream.
LEMMA MapKeptKeeps ==
  ASSUME Inv, MapKept, TypeOK',
         \A i \in Ids : worker[i] = "none" <=> worker'[i] = "none",
         \A i \in Ids : worker[i] = "exited" => worker'[i] = "exited",
         \A i \in Ids : done[i] => done'[i],
         \A i \in Ids : done'[i] <=> worker'[i] \in {"done", "exited"},
         OutcomeInv'
  PROVE  Inv'
<1>1. Held' = Held /\ ToSet(import_workers)' = ToSet(import_workers)
      /\ ToSet(completed_session_ids)' = ToSet(completed_session_ids)
  BY DEF MapKept, map, Held
<1>6. sessions \subseteq Ids
  BY SessionsAreIds DEF Inv
<1>2. HandlerInv'
  <2>1. HandlerInv /\ server' = server /\ handler' = handler /\ sessions' = sessions
    BY DEF Inv, MapKept, map
  <2>2. \A i \in sessions : worker[i] = "none" <=> worker'[i] = "none"
    BY <1>6
  <2> QED BY <1>1, <2>1, <2>2 DEF HandlerInv
<1>3. WorkerInv'
  <2>1. WorkerInv /\ server' = server /\ issued' = issued /\ sessions' = sessions
    BY DEF Inv, MapKept, map
  <2>2. ToSet(import_workers) \subseteq Ids /\ ToSet(completed_session_ids) \subseteq Ids
    BY DEF Inv, TypeOK, ToSet
  <2> QED BY <1>1, <2>1, <2>2 DEF WorkerInv
<1>4. LiveInv'
  BY <1>6 DEF Inv, LiveInv, MapKept, map
<1>5. BoundInv'
  BY <1>1 DEF Inv, BoundInv, MapKept, map
<1> QED BY <1>2, <1>3, <1>4, <1>5 DEF Inv

\* Worker i goes to the state "to".
Moves(i, to) == worker' = [worker EXCEPT ![i] = to]

\* Steps of a worker before it is done: the invariant follows from what the step
\* does to the outcome.
LEMMA WorkerMoves ==
  ASSUME Inv, MapKept, NEW i \in Ids, NEW to, Moves(i, to),
         worker[i] \notin {"none", "done", "exited"}, to \notin {"none", "done", "exited"},
         TypeOK', done' = done, OutcomeInv'
  PROVE  Inv'
<1>1. WorkerInv /\ worker \in [Ids -> {"none", "wait", "ingest", "finish", "stored", "cleaned", "done", "exited"}]
  BY DEF Inv, TypeOK
<1>2. \A j \in Ids : worker'[j] = IF j = i THEN to ELSE worker[j]
  BY <1>1 DEF Moves
<1>3. \A j \in Ids : worker[j] = "none" <=> worker'[j] = "none"
  BY <1>2
<1>4. \A j \in Ids : worker[j] = "exited" => worker'[j] = "exited"
  BY <1>2
<1>5. \A j \in Ids : done'[j] <=> worker'[j] \in {"done", "exited"}
  BY <1>1, <1>2 DEF WorkerInv
<1> QED BY <1>3, <1>4, <1>5, MapKeptKeeps

\* The worker takes database_mutex and run() begins.
LEMMA BeginImportKeeps ==
  ASSUME Inv, NEW i \in Ids, BeginImport(i)
  PROVE  Inv'
<1>1. TypeOK /\ OutcomeInv /\ MapKept
  BY DEF Inv, BeginImport, MapKept
<1>2. TypeOK'
  BY <1>1 DEF TypeOK, BeginImport, MapKept, map, session, Ids
<1>3. OutcomeInv'
  BY <1>1 DEF TypeOK, OutcomeInv, BeginImport, session
<1>4. Moves(i, "ingest") /\ done' = done /\ worker[i] \notin {"none", "done", "exited"}
  BY DEF BeginImport, Moves, session
<1> QED BY <1>1, <1>2, <1>3, <1>4, WorkerMoves

\* The games are read.
LEMMA IngestKeeps ==
  ASSUME Inv, NEW i \in Ids, Ingest(i)
  PROVE  Inv'
<1>1. TypeOK /\ OutcomeInv /\ MapKept
  BY DEF Inv, Ingest, MapKept
<1>2. TypeOK'
  BY <1>1 DEF TypeOK, Ingest, MapKept, map, session, Ids
<1>3. OutcomeInv'
  BY <1>1 DEF TypeOK, OutcomeInv, Ingest, session
<1>4. Moves(i, "finish") /\ done' = done /\ worker[i] \notin {"none", "done", "exited"}
  BY DEF Ingest, Moves, session
<1> QED BY <1>1, <1>2, <1>3, <1>4, WorkerMoves

\* An upload's worker removes its file.
LEMMA CleanUpKeeps ==
  ASSUME Inv, NEW i \in Ids, CleanUp(i)
  PROVE  Inv'
<1>1. TypeOK /\ OutcomeInv /\ MapKept
  BY DEF Inv, CleanUp, MapKept
<1>2. TypeOK'
  <2>1. 0 \in 0..MaxImports
    BY ImportSessionsAssumption
  <2> QED BY <1>1, <2>1 DEF TypeOK, CleanUp, MapKept, map, session
<1>3. OutcomeInv'
  BY <1>1 DEF TypeOK, OutcomeInv, CleanUp, session
<1>4. Moves(i, "cleaned") /\ done' = done /\ worker[i] \notin {"none", "done", "exited"}
  BY DEF CleanUp, Moves, session
<1> QED BY <1>1, <1>2, <1>3, <1>4, WorkerMoves

\* run() returns, for the first time: one of the outcome and the failure is stored.
LEMMA StoreOutcomeKeeps ==
  ASSUME Inv, NEW i \in Ids, StoreOutcome(i)
  PROVE  Inv'
<1>1. TypeOK /\ OutcomeInv /\ WorkerInv /\ MapKept
  BY DEF Inv, StoreOutcome, MapKept
<1>2. TypeOK'
  BY <1>1 DEF TypeOK, StoreOutcome, MapKept, map, Ids
<1>3. OutcomeInv'
  <2>1. /\ worker \in [Ids -> {"none", "wait", "ingest", "finish", "stored", "cleaned", "done", "exited"}]
        /\ failed \in [Ids -> BOOLEAN] /\ summary \in [Ids -> {"none", "stopped", "whole"}]
    BY <1>1 DEF TypeOK
  <2>2. worker[i] \in {"ingest", "finish"} /\ ~done[i] /\ ~failed[i] /\ summary[i] = "none"
    BY <1>1 DEF StoreOutcome, OutcomeInv, WorkerInv
  <2>3. \A j \in Ids : worker'[j] = IF j = i THEN "stored" ELSE worker[j]
    BY <2>1 DEF StoreOutcome
  <2>4. \A j \in Ids : j # i => failed'[j] = failed[j] /\ summary'[j] = summary[j]
    BY <2>1 DEF StoreOutcome
  <2>5. failed'[i] <=> summary'[i] = "none"
    BY <2>1, <2>2 DEF StoreOutcome
  <2>6. stream' = stream /\ done' = done
    BY DEF StoreOutcome
  <2> QED BY <1>1, <2>2, <2>3, <2>4, <2>5, <2>6 DEF OutcomeInv
<1>4. Moves(i, "stored") /\ done' = done /\ worker[i] \notin {"none", "done", "exited"}
  BY DEF StoreOutcome, Moves, session
<1> QED BY <1>1, <1>2, <1>3, <1>4, WorkerMoves

\* done is set after the outcome is stored.
LEMMA SetDoneKeeps ==
  ASSUME Inv, NEW i \in Ids, SetDone(i)
  PROVE  Inv'
<1>1. TypeOK /\ OutcomeInv /\ WorkerInv /\ MapKept
  BY DEF Inv, SetDone, MapKept
<1>2. TypeOK'
  BY <1>1 DEF TypeOK, SetDone, MapKept, map, Ids
<1>3. /\ worker \in [Ids -> {"none", "wait", "ingest", "finish", "stored", "cleaned", "done", "exited"}]
      /\ done \in [Ids -> BOOLEAN] /\ worker[i] \in {"stored", "cleaned"}
  BY <1>1 DEF TypeOK, SetDone
<1>4. \A j \in Ids : worker'[j] = (IF j = i THEN "done" ELSE worker[j]) /\ (done'[j] <=> j = i \/ done[j])
  BY <1>3 DEF SetDone
<1>5. OutcomeInv'
  <2>1. stream' = stream /\ failed' = failed /\ summary' = summary
    BY DEF SetDone
  <2> QED BY <1>1, <1>3, <1>4, <2>1 DEF OutcomeInv
<1>6. \A j \in Ids : (worker[j] = "none" <=> worker'[j] = "none") /\ (worker[j] = "exited" => worker'[j] = "exited")
  BY <1>3, <1>4
<1>7. \A j \in Ids : (done[j] => done'[j]) /\ (done'[j] <=> worker'[j] \in {"done", "exited"})
  BY <1>1, <1>4 DEF WorkerInv
<1> QED BY <1>1, <1>2, <1>5, <1>6, <1>7, MapKeptKeeps

\* The thread returns.
LEMMA ExitKeeps ==
  ASSUME Inv, NEW i \in Ids, Exit(i)
  PROVE  Inv'
<1>1. TypeOK /\ OutcomeInv /\ WorkerInv /\ MapKept
  BY DEF Inv, Exit, MapKept
<1>2. TypeOK'
  <2>1. 0 \in 0..MaxImports
    BY ImportSessionsAssumption
  <2> QED BY <1>1, <2>1 DEF TypeOK, Exit, MapKept, map, session
<1>3. /\ worker \in [Ids -> {"none", "wait", "ingest", "finish", "stored", "cleaned", "done", "exited"}]
      /\ worker[i] = "done" /\ done' = done
  BY <1>1 DEF TypeOK, Exit, session
<1>4. \A j \in Ids : worker'[j] = (IF j = i THEN "exited" ELSE worker[j])
  BY <1>3 DEF Exit
<1>5. OutcomeInv'
  <2>1. stream' = stream /\ failed' = failed /\ summary' = summary
    BY DEF Exit, session
  <2> QED BY <1>1, <1>3, <1>4, <2>1 DEF OutcomeInv
<1>6. \A j \in Ids : (worker[j] = "none" <=> worker'[j] = "none") /\ (worker[j] = "exited" => worker'[j] = "exited")
  BY <1>3, <1>4
<1>7. \A j \in Ids : (done[j] => done'[j]) /\ (done'[j] <=> worker'[j] \in {"done", "exited"})
  BY <1>1, <1>3, <1>4 DEF WorkerInv
<1> QED BY <1>1, <1>2, <1>5, <1>6, <1>7, MapKeptKeeps

\* Steps of the stream and of a cancellation: the workers do not move.
LEMMA StreamMoves ==
  ASSUME Inv, MapKept, TypeOK', worker' = worker, done' = done, OutcomeInv'
  PROVE  Inv'
<1>1. \A j \in Ids : done'[j] <=> worker'[j] \in {"done", "exited"}
  BY DEF Inv, WorkerInv
<1> QED BY <1>1, MapKeptKeeps

\* A client connects, polls, leaves, or cancels.
LEMMA StreamKeeps ==
  ASSUME Inv, NEW i \in Ids, Connect(i) \/ Provide(i) \/ EndEarly(i) \/ Cancel(i)
  PROVE  Inv'
<1>1. TypeOK /\ OutcomeInv /\ MapKept /\ worker' = worker /\ done' = done /\ failed' = failed /\ summary' = summary
  BY DEF Inv, Connect, Provide, EndEarly, Cancel, MapKept, session
<1>2. /\ i \in 0..MaxImports /\ 0 \in 0..MaxImports
  BY ImportSessionsAssumption DEF Ids
<1>3. CASE Connect(i)
  <2>1. TypeOK'
    BY <1>1, <1>2, <1>3 DEF TypeOK, Connect, MapKept, map, session
  <2>2. OutcomeInv'
    BY <1>1, <1>3 DEF OutcomeInv, Connect
  <2> QED BY <1>1, <2>1, <2>2, StreamMoves
<1>4. CASE Provide(i)
  <2>1. stream'.id = i /\ stream'.at = (IF failed[i] THEN "error" ELSE "complete") /\ done[i]
        /\ stream' \in [at : {"complete", "error"}, id : 0..MaxImports]
    BY <1>2, <1>4 DEF Provide
  <2>2. TypeOK'
    BY <1>1, <1>4, <2>1 DEF TypeOK, Provide, MapKept, map, session
  <2>3. OutcomeInv'
    BY <1>1, <2>1 DEF OutcomeInv, TypeOK
  <2> QED BY <1>1, <2>2, <2>3, StreamMoves
<1>5. CASE EndEarly(i)
  <2>1. stream' \in [at : {"none", "timeout"}, id : 0..MaxImports]
    BY <1>2, <1>5 DEF EndEarly
  <2>2. TypeOK'
    BY <1>1, <1>5, <2>1 DEF TypeOK, EndEarly, MapKept, map, session
  <2>3. OutcomeInv'
    BY <1>1, <2>1 DEF OutcomeInv
  <2> QED BY <1>1, <2>2, <2>3, StreamMoves
<1>6. CASE Cancel(i)
  <2>1. TypeOK'
    BY <1>1, <1>6 DEF TypeOK, Cancel, MapKept, map
  <2>2. OutcomeInv'
    BY <1>1, <1>6 DEF OutcomeInv, Cancel
  <2> QED BY <1>1, <2>1, <2>2, StreamMoves
<1> QED BY <1>3, <1>4, <1>5, <1>6

\* The types of a handler, and the elements of the two queues.
LEMMA QueueTypes ==
  ASSUME TypeOK
  PROVE  /\ ToSet(import_workers) \subseteq Ids /\ ToSet(completed_session_ids) \subseteq Ids
         /\ \A h \in Handlers : /\ handler[h].at \in {"idle", "write", "start", "register"}
                                /\ handler[h].id \in 0..MaxImports
         /\ handler = [h \in Handlers |-> handler[h]]
BY DEF TypeOK, ToSet

\* How one handler's step changes who holds what.
LEMMA HandlerStep ==
  ASSUME TypeOK, NEW h \in Handlers, NEW r \in [at : {"idle", "write", "start", "register"}, id : 0..MaxImports],
         handler' = [handler EXCEPT ![h] = r]
  PROVE  /\ \A g \in Handlers : g # h => handler'[g] = handler[g]
         /\ handler'[h] = r
         /\ handler' \in [Handlers -> [at : {"idle", "write", "start", "register"}, id : 0..MaxImports]]
BY DEF TypeOK

\* A handler that gives up erases the session it entered.
LEMMA ForgetKeeps ==
  ASSUME Inv, NEW h \in Handlers, handler[h].at \in {"write", "start"},
         sessions' = sessions \ {handler[h].id}, handler' = [handler EXCEPT ![h] = Idle],
         temp_files' \subseteq Ids,
         UNCHANGED <<server, issued, import_workers, completed_session_ids, upload, worker,
                     database_mutex, session, stream>>
  PROVE  Inv'
<1> DEFINE x == handler[h].id
<1>1. TypeOK /\ HandlerInv /\ WorkerInv /\ LiveInv /\ OutcomeInv /\ BoundInv
  BY DEF Inv
<1>2. Idle \in [at : {"idle", "write", "start", "register"}, id : 0..MaxImports]
  BY ImportSessionsAssumption DEF Idle
<1>3. /\ \A g \in Handlers : g # h => handler'[g] = handler[g]
      /\ handler'[h] = Idle
      /\ handler' \in [Handlers -> [at : {"idle", "write", "start", "register"}, id : 0..MaxImports]]
  BY <1>1, <1>2, HandlerStep
<1>4. /\ x \in sessions /\ x # 0 /\ worker[x] = "none"
      /\ x \notin ToSet(import_workers) \cup ToSet(completed_session_ids)
  BY <1>1 DEF HandlerInv
<1>5. \A g \in Handlers : g # h => handler[g].id # x
  BY <1>1, <1>4 DEF HandlerInv
<1>6. handler'[h].at = "idle" /\ handler'[h].id = 0
  BY <1>3 DEF Idle
<1>7. Held' = Held \ {x}
  BY <1>3, <1>5, <1>6 DEF Held
<1>8. /\ server' = server /\ issued' = issued /\ import_workers' = import_workers
      /\ completed_session_ids' = completed_session_ids /\ worker' = worker /\ done' = done
      /\ stream' = stream /\ failed' = failed /\ summary' = summary
      /\ ToSet(import_workers)' = ToSet(import_workers)
      /\ ToSet(completed_session_ids)' = ToSet(completed_session_ids)
  BY DEF session
<1>9. TypeOK'
  BY <1>1, <1>3, <1>8 DEF TypeOK, session
<1> HIDE DEF x
<1>10. HandlerInv'
  <2>1. \A g \in Handlers : handler'[g].at = "idle" <=> handler'[g].id = 0
    BY <1>1, <1>3, <1>6 DEF HandlerInv
  <2>2. ASSUME NEW g \in Handlers, handler'[g].at # "idle"
        PROVE  /\ g # h /\ handler'[g] = handler[g]
               /\ handler[g].id \in sessions'
               /\ handler[g].id \notin ToSet(import_workers) \cup ToSet(completed_session_ids)
               /\ handler[g].at = "register" <=> worker[handler[g].id] # "none"
    <3>1. g # h /\ handler'[g] = handler[g] /\ handler[g].at # "idle"
      BY <1>3, <1>6, <2>2
    <3> QED BY <1>1, <1>5, <3>1 DEF HandlerInv, x
  <2>3. \A f, g \in Handlers : handler'[f].id = handler'[g].id /\ handler'[f].id # 0 => f = g
    BY <1>1, <1>3, <1>6 DEF HandlerInv
  <2>4. server' # "up" => \A g \in Handlers : handler'[g].at = "idle"
    BY <1>1, <1>3, <1>6, <1>8 DEF HandlerInv
  <2> QED BY <1>8, <2>1, <2>2, <2>3, <2>4 DEF HandlerInv
<1>11. WorkerInv'
  BY <1>1, <1>4, <1>7, <1>8 DEF WorkerInv, x
<1>12. LiveInv' /\ OutcomeInv'
  BY <1>1, <1>8 DEF LiveInv, OutcomeInv
<1>13. BoundInv'
  <2>1. Held' \cup ToSet(import_workers)' \subseteq Held \cup ToSet(import_workers)
    BY <1>7, <1>8
  <2>2. Held \cup ToSet(import_workers) \subseteq Ids
    BY <1>1, HeldBound, QueueTypes
  <2>3. Cardinality(Held' \cup ToSet(import_workers)') <= Cardinality(Held \cup ToSet(import_workers))
        /\ Cardinality(Held' \cup ToSet(import_workers)') \in Nat
        /\ Cardinality(Held \cup ToSet(import_workers)) \in Nat /\ Cardinality(Handlers) \in Nat
    BY <1>1, <2>1, <2>2, IdSets, HeldBound
  <2>4. server # "down" => Cardinality(Held' \cup ToSet(import_workers)') <= Cardinality(Handlers)
    BY <1>1, <2>3 DEF BoundInv
  <2> QED BY <1>1, <1>7, <1>8, <2>4 DEF BoundInv, x
<1> QED BY <1>9, <1>10, <1>11, <1>12, <1>13 DEF Inv

\* No thread could be started.
LEMMA StartFailsKeeps ==
  ASSUME Inv, NEW h \in Handlers, StartFails(h)
  PROVE  Inv'
<1>1. temp_files' \subseteq Ids
  BY DEF Inv, TypeOK, StartFails
<1> QED BY <1>1, ForgetKeeps DEF StartFails

\* A handler that goes on with its session: only its place changes.
LEMMA AdvanceKeeps ==
  ASSUME Inv, NEW h \in Handlers, NEW to \in {"start", "register"},
         handler[h].at \in {"write", "start"},
         handler' = [handler EXCEPT ![h].at = to],
         TypeOK',
         \A i \in Ids : i # handler[h].id => worker'[i] = worker[i],
         to = "start" <=> worker'[handler[h].id] = "none",
         worker'[handler[h].id] \in {"none", "wait"},
         UNCHANGED <<server, map, session, stream>>
  PROVE  Inv'
<1> DEFINE x == handler[h].id
<1>1. TypeOK /\ HandlerInv /\ WorkerInv /\ LiveInv /\ OutcomeInv /\ BoundInv
  BY DEF Inv
<1>2. /\ \A g \in Handlers : g # h => handler'[g] = handler[g]
      /\ handler'[h].at = to /\ handler'[h].id = x
  BY <1>1 DEF TypeOK
<1>3. \A g \in Handlers : handler'[g].id = handler[g].id
  BY <1>2
<1>4. Held' = Held
  BY <1>3 DEF Held
<1>5. /\ x \in sessions /\ x # 0 /\ worker[x] = "none" /\ x \in Ids /\ x \in Held /\ x \in 1..issued
      /\ x \notin ToSet(import_workers) \cup ToSet(completed_session_ids)
  BY <1>1, SessionsAreIds DEF HandlerInv, Held, TypeOK
<1>6. \A g \in Handlers : g # h => handler[g].id # x
  BY <1>1, <1>5 DEF HandlerInv
<1>7. /\ server' = server /\ issued' = issued /\ sessions' = sessions
      /\ stream' = stream /\ failed' = failed /\ summary' = summary /\ done' = done
      /\ import_workers' = import_workers /\ completed_session_ids' = completed_session_ids
      /\ ToSet(import_workers)' = ToSet(import_workers)
      /\ ToSet(completed_session_ids)' = ToSet(completed_session_ids)
  BY DEF session, map
<1>8. /\ \A i \in Ids : i # x => worker'[i] = worker[i]
      /\ worker'[x] \in {"none", "wait"} /\ (to = "start" <=> worker'[x] = "none")
  OBVIOUS
<1>9. server = "up"
  BY <1>1 DEF HandlerInv, TypeOK
<1>10. sessions \subseteq Ids /\ ToSet(import_workers) \subseteq Ids /\ ToSet(completed_session_ids) \subseteq Ids
  BY <1>1, SessionsAreIds, QueueTypes
<1> HIDE DEF x
<1>11. HandlerInv'
  <2>1. \A g \in Handlers : handler'[g].at = "idle" <=> handler'[g].id = 0
    BY <1>1, <1>2, <1>5 DEF HandlerInv
  <2>2. ASSUME NEW g \in Handlers, handler'[g].at # "idle"
        PROVE  /\ handler'[g].id \in sessions
               /\ handler'[g].id \notin ToSet(import_workers) \cup ToSet(completed_session_ids)
               /\ handler'[g].at = "register" <=> worker'[handler'[g].id] # "none"
    <3>1. CASE g = h
      BY <1>2, <1>5, <1>8, <3>1
    <3>2. CASE g # h
      <4>1. handler'[g] = handler[g] /\ handler[g].at # "idle" /\ handler[g].id # x
        BY <1>2, <1>6, <2>2, <3>2
      <4>2. handler[g].id \in sessions /\ handler[g].id \in Ids
        BY <1>1, <1>10, <4>1 DEF HandlerInv
      <4>3. worker'[handler[g].id] = worker[handler[g].id]
        BY <1>8, <4>1, <4>2
      <4> QED BY <1>1, <4>1, <4>2, <4>3 DEF HandlerInv
    <3> QED BY <3>1, <3>2
  <2>3. \A f, g \in Handlers : handler'[f].id = handler'[g].id /\ handler'[f].id # 0 => f = g
    BY <1>1, <1>3 DEF HandlerInv
  <2>4. server' = "up"
    BY <1>7, <1>9
  <2> QED BY <1>7, <2>1, <2>2, <2>3, <2>4 DEF HandlerInv
<1>12. WorkerInv'
  <2>1. \A i \in Ids : done[i] <=> worker'[i] \in {"done", "exited"}
    BY <1>1, <1>5, <1>8 DEF WorkerInv
  <2>2. \A i \in Ids : i > issued => worker'[i] = "none"
    <3>1. ~(x > issued)
      BY <1>1, <1>5 DEF TypeOK
    <3> QED BY <1>1, <1>8, <3>1 DEF WorkerInv
  <2>3. \A i \in Ids : worker'[i] \notin {"none", "exited"} => i \in Held \cup ToSet(import_workers)
    BY <1>1, <1>5, <1>8 DEF WorkerInv
  <2>4. \A i \in ToSet(import_workers) :
          i \in sessions /\ worker'[i] # "none" /\ i \notin ToSet(completed_session_ids)
    BY <1>1, <1>5, <1>8, <1>10 DEF WorkerInv
  <2>5. \A i \in ToSet(completed_session_ids) : worker'[i] = "exited"
    BY <1>1, <1>5, <1>8, <1>10 DEF WorkerInv
  <2> QED BY <1>4, <1>7, <1>9, <2>1, <2>2, <2>3, <2>4, <2>5 DEF WorkerInv
<1>13. LiveInv'
  BY <1>1, <1>7 DEF LiveInv
<1>14. OutcomeInv'
  BY <1>1, <1>5, <1>7, <1>8 DEF OutcomeInv
<1>15. BoundInv'
  BY <1>1, <1>4, <1>7 DEF BoundInv
<1> QED BY <1>11, <1>12, <1>13, <1>14, <1>15 DEF Inv

\* The upload is written, or cannot be.
LEMMA WriteTempKeeps ==
  ASSUME Inv, NEW h \in Handlers, WriteTemp(h)
  PROVE  Inv'
<1>1. TypeOK /\ HandlerInv /\ handler[h].at = "write"
  BY DEF Inv, WriteTemp
<1>2. handler[h].id \in Ids /\ worker[handler[h].id] = "none"
  BY <1>1, SessionsAreIds DEF HandlerInv
<1>3. CASE sessions' = sessions \ {handler[h].id} /\ handler' = [handler EXCEPT ![h] = Idle] /\ UNCHANGED temp_files
  <2>1. temp_files' \subseteq Ids
    BY <1>1, <1>3 DEF TypeOK
  <2> QED BY <1>1, <1>3, <2>1, ForgetKeeps DEF WriteTemp
<1>4. CASE /\ temp_files' = temp_files \cup {handler[h].id}
           /\ handler' = [handler EXCEPT ![h].at = "start"] /\ UNCHANGED sessions
  <2>1. UNCHANGED <<server, issued, import_workers, completed_session_ids, upload, worker,
                    database_mutex, session, stream>>
    BY DEF WriteTemp
  <2>2. TypeOK'
    BY <1>1, <1>2, <1>4, <2>1 DEF TypeOK, session
  <2>3. UNCHANGED <<server, map, session, stream>> /\ worker' = worker
    BY <1>4, <2>1 DEF map
  <2> QED BY <1>1, <1>2, <1>4, <2>2, <2>3, AdvanceKeeps
<1> QED BY <1>3, <1>4 DEF WriteTemp

\* The thread is started, before it is registered.
LEMMA StartWorkerKeeps ==
  ASSUME Inv, NEW h \in Handlers, StartWorker(h)
  PROVE  Inv'
<1>1. TypeOK /\ HandlerInv /\ handler[h].at = "start"
  BY DEF Inv, StartWorker
<1>2. handler[h].id \in Ids
  BY <1>1, SessionsAreIds DEF HandlerInv
<1>3. TypeOK'
  BY <1>1, <1>2 DEF TypeOK, StartWorker, map, session
<1>4. /\ \A i \in Ids : i # handler[h].id => worker'[i] = worker[i]
      /\ worker'[handler[h].id] = "wait"
  BY <1>1, <1>2 DEF TypeOK, StartWorker
<1>5. handler' = [handler EXCEPT ![h].at = "register"] /\ UNCHANGED <<server, map, session, stream>>
  BY DEF StartWorker
<1> QED BY <1>1, <1>3, <1>4, <1>5, AdvanceKeeps

\* Registering moves the session from the hand of its handler to the queue.
LEMMA RegisterKeeps ==
  ASSUME Inv, NEW h \in Handlers, Register(h)
  PROVE  Inv'
<1> DEFINE x == handler[h].id
<1>1. TypeOK /\ HandlerInv /\ WorkerInv /\ LiveInv /\ OutcomeInv /\ BoundInv
  BY DEF Inv
<1>2. Idle \in [at : {"idle", "write", "start", "register"}, id : 0..MaxImports]
  BY ImportSessionsAssumption DEF Idle
<1>3. handler[h].at = "register" /\ handler' = [handler EXCEPT ![h] = Idle] /\ import_workers' = Append(import_workers, x)
  BY DEF Register
<1>4. /\ \A g \in Handlers : g # h => handler'[g] = handler[g]
      /\ handler'[h] = Idle
      /\ handler' \in [Handlers -> [at : {"idle", "write", "start", "register"}, id : 0..MaxImports]]
  BY <1>1, <1>2, <1>3, HandlerStep
<1>5. /\ x \in sessions /\ x # 0 /\ worker[x] # "none" /\ x \in Ids
      /\ x \notin ToSet(import_workers) \cup ToSet(completed_session_ids)
  BY <1>1, <1>3, SessionsAreIds DEF HandlerInv
<1>6. \A g \in Handlers : g # h => handler[g].id # x
  BY <1>1, <1>5 DEF HandlerInv
<1>7. handler'[h].at = "idle" /\ handler'[h].id = 0
  BY <1>4 DEF Idle
<1>8. Held' = Held \ {x} /\ x \in Held
  BY <1>4, <1>5, <1>6, <1>7 DEF Held
<1>9. /\ server' = server /\ issued' = issued /\ sessions' = sessions
      /\ completed_session_ids' = completed_session_ids /\ worker' = worker /\ done' = done
      /\ stream' = stream /\ failed' = failed /\ summary' = summary
      /\ upload' = upload /\ temp_files' = temp_files /\ database_mutex' = database_mutex
      /\ stop_requested' = stop_requested
      /\ ToSet(completed_session_ids)' = ToSet(completed_session_ids)
  BY DEF Register, session
<1>10. /\ import_workers' \in Seq(Ids)
       /\ ToSet(import_workers') = ToSet(import_workers) \cup {x}
  <2>1. import_workers \in Seq(Ids)
    BY <1>1 DEF TypeOK
  <2> HIDE DEF x
  <2> QED BY <1>3, <1>5, <2>1, AppendElements
<1>11. TypeOK'
  BY <1>1, <1>4, <1>9, <1>10 DEF TypeOK
<1> HIDE DEF x
<1>12. HandlerInv'
  <2>1. \A g \in Handlers : handler'[g].at = "idle" <=> handler'[g].id = 0
    BY <1>1, <1>4, <1>7 DEF HandlerInv
  <2>2. ASSUME NEW g \in Handlers, handler'[g].at # "idle"
        PROVE  /\ handler'[g].id \in sessions
               /\ handler'[g].id \notin ToSet(import_workers') \cup ToSet(completed_session_ids)
               /\ handler'[g].at = "register" <=> worker[handler'[g].id] # "none"
    <3>1. g # h /\ handler'[g] = handler[g] /\ handler[g].at # "idle" /\ handler[g].id # x
      BY <1>4, <1>6, <1>7, <2>2
    <3> QED BY <1>1, <1>10, <3>1 DEF HandlerInv
  <2>3. \A f, g \in Handlers : handler'[f].id = handler'[g].id /\ handler'[f].id # 0 => f = g
    BY <1>1, <1>4, <1>7 DEF HandlerInv
  <2>4. server' # "up" => \A g \in Handlers : handler'[g].at = "idle"
    BY <1>1, <1>4, <1>7, <1>9 DEF HandlerInv
  <2> QED BY <1>9, <2>1, <2>2, <2>3, <2>4 DEF HandlerInv
<1>13. WorkerInv'
  BY <1>1, <1>5, <1>8, <1>9, <1>10 DEF WorkerInv
<1>14. LiveInv' /\ OutcomeInv'
  BY <1>1, <1>9 DEF LiveInv, OutcomeInv
<1>15. BoundInv'
  <2>1. Held' \cup ToSet(import_workers') = Held \cup ToSet(import_workers)
    BY <1>8, <1>10
  <2>2. ToSet(import_workers)' = ToSet(import_workers')
    OBVIOUS
  <2> QED BY <1>1, <1>9, <2>1, <2>2 DEF BoundInv
<1> QED BY <1>11, <1>12, <1>13, <1>14, <1>15 DEF Inv

\* The destructor asks the imports to stop; no handler is at work.
LEMMA ShutdownKeeps ==
  ASSUME Inv, Shutdown
  PROVE  Inv'
<1>1. TypeOK /\ HandlerInv /\ WorkerInv /\ LiveInv /\ OutcomeInv /\ BoundInv
  BY DEF Inv
<1>2. /\ handler' = handler /\ issued' = issued /\ sessions' = sessions /\ import_workers' = import_workers
      /\ completed_session_ids' = completed_session_ids /\ upload' = upload /\ temp_files' = temp_files
      /\ worker' = worker /\ database_mutex' = database_mutex /\ summary' = summary
      /\ failed' = failed /\ done' = done /\ stream' = stream
      /\ ToSet(import_workers)' = ToSet(import_workers)
      /\ ToSet(completed_session_ids)' = ToSet(completed_session_ids) /\ Held' = Held
  BY DEF Shutdown, map, Held
<1>3. server = "up" /\ server' = "stopping" /\ \A h \in Handlers : handler[h].at = "idle"
  BY DEF Shutdown, Idle
<1>4. stop_requested' \in [Ids -> BOOLEAN]
  BY <1>1 DEF Shutdown, TypeOK
<1>5. TypeOK'
  BY <1>1, <1>2, <1>3, <1>4 DEF TypeOK
<1>6. HandlerInv'
  BY <1>1, <1>2, <1>3 DEF HandlerInv
<1>7. WorkerInv'
  BY <1>1, <1>2, <1>3 DEF WorkerInv
<1>8. LiveInv' /\ OutcomeInv'
  BY <1>1, <1>2 DEF LiveInv, OutcomeInv
<1>9. BoundInv'
  BY <1>1, <1>2, <1>3 DEF BoundInv
<1> QED BY <1>5, <1>6, <1>7, <1>8, <1>9 DEF Inv

\* ... and joins every worker that is left, all of them being registered.
LEMMA JoinWorkersKeeps ==
  ASSUME Inv, JoinWorkers
  PROVE  Inv'
<1>1. TypeOK /\ HandlerInv /\ WorkerInv /\ LiveInv /\ OutcomeInv
  BY DEF Inv
<1>2. /\ handler' = handler /\ issued' = issued /\ sessions' = sessions
      /\ completed_session_ids' = completed_session_ids /\ upload' = upload /\ temp_files' = temp_files
      /\ worker' = worker /\ database_mutex' = database_mutex /\ summary' = summary
      /\ failed' = failed /\ done' = done /\ stream' = stream /\ stop_requested' = stop_requested
      /\ ToSet(completed_session_ids)' = ToSet(completed_session_ids) /\ Held' = Held
  BY DEF JoinWorkers, session, Held
<1>3. server = "stopping" /\ server' = "down" /\ import_workers' = <<>>
  BY DEF JoinWorkers
<1>4. ToSet(import_workers)' = {}
  BY <1>3 DEF ToSet
<1>5. Held = {}
  BY <1>1, <1>3 DEF HandlerInv, Held
<1>6. \A i \in Ids : worker[i] \in {"none", "exited"}
  BY <1>1, <1>5 DEF JoinWorkers, WorkerInv
<1>7. TypeOK'
  BY <1>1, <1>2, <1>3 DEF TypeOK
<1>8. HandlerInv'
  BY <1>1, <1>2, <1>3, <1>4 DEF HandlerInv
<1>9. WorkerInv'
  BY <1>1, <1>2, <1>3, <1>4, <1>6 DEF WorkerInv
<1>10. LiveInv' /\ OutcomeInv'
  BY <1>1, <1>2 DEF LiveInv, OutcomeInv
<1>11. BoundInv'
  BY <1>3 DEF BoundInv
<1> QED BY <1>7, <1>8, <1>9, <1>10, <1>11 DEF Inv

\* What prune_completed() leaves, in terms of the invariant: nobody's session is
\* erased but of workers that have returned and are joined.
LEMMA PruneKeeps ==
  ASSUME Inv, server = "up", \A i \in ToSet(Finished) : worker[i] = "exited"
  PROVE  LET W == ToSet(Pruned.workers)
             C == ToSet(Pruned.completed)
             S == Pruned.sessions
         IN  /\ W \subseteq Ids /\ C \subseteq Ids /\ W \subseteq ToSet(import_workers)
             /\ \A i \in W : i \in S /\ worker[i] # "none" /\ i \notin C /\ ~done[i]
             /\ \A i \in C : worker[i] = "exited"
             /\ \A h \in Handlers : handler[h].at # "idle" => handler[h].id \in S /\ handler[h].id \notin W \cup C
             /\ \A i \in Ids : worker[i] \notin {"none", "exited"} => i \in Held \cup W
             /\ S \subseteq Held \cup W \cup C
             /\ S \subseteq sessions
<1> DEFINE R == ToSet(import_workers)
           C0 == ToSet(completed_session_ids)
           D == R \cap DoneSessions
           W == ToSet(Pruned.workers)
           C == ToSet(Pruned.completed)
           S == Pruned.sessions
<1>1. TypeOK /\ HandlerInv /\ WorkerInv /\ BoundInv
  BY DEF Inv
<1>2. /\ W = R \ DoneSessions /\ C \subseteq C0 \cup D /\ S \subseteq sessions
      /\ sessions \ S \subseteq C0 \cup D /\ S \cap (C0 \cup D) \subseteq C
  BY <1>1, PruneFacts
<1>3. ToSet(Finished) = D
  BY <1>1, KeptElements DEF Finished, TypeOK
<1>4. R \subseteq Ids /\ C0 \subseteq Ids /\ sessions \subseteq Ids
  BY <1>1, QueueTypes, SessionsAreIds
<1>5. \A i \in D : worker[i] = "exited"
  BY <1>3
<1>6. \A i \in R : i \in sessions /\ worker[i] # "none" /\ i \notin C0
  BY <1>1 DEF WorkerInv
<1>7. \A i \in C0 : worker[i] = "exited"
  BY <1>1 DEF WorkerInv
<1>8. \A h \in Handlers : handler[h].at # "idle" => handler[h].id \in sessions /\ handler[h].id \notin R \cup C0
  BY <1>1 DEF HandlerInv
<1>9. \A i \in Ids : worker[i] \notin {"none", "exited"} => i \in Held \cup R
  BY <1>1 DEF WorkerInv
<1>10. sessions \subseteq Held \cup R \cup C0
  BY <1>1 DEF BoundInv
<1>11. DoneSessions = {i \in sessions : done[i]}
  BY DEF DoneSessions
<1> HIDE DEF R, C0, W, C, S
<1> SUFFICES /\ W \subseteq Ids /\ C \subseteq Ids /\ W \subseteq R
             /\ \A i \in W : i \in S /\ worker[i] # "none" /\ i \notin C /\ ~done[i]
             /\ \A i \in C : worker[i] = "exited"
             /\ \A h \in Handlers : handler[h].at # "idle" => handler[h].id \in S /\ handler[h].id \notin W \cup C
             /\ \A i \in Ids : worker[i] \notin {"none", "exited"} => i \in Held \cup W
             /\ S \subseteq Held \cup W \cup C
             /\ S \subseteq sessions
  BY DEF R, W, C, S
<1>12. W \subseteq Ids /\ C \subseteq Ids /\ W \subseteq R /\ S \subseteq sessions
  BY <1>2, <1>4
<1>13. \A i \in W : i \in S /\ worker[i] # "none" /\ i \notin C /\ ~done[i]
  BY <1>2, <1>6, <1>11
<1>14. \A i \in C : worker[i] = "exited"
  BY <1>2, <1>5, <1>7
<1>15. \A h \in Handlers : handler[h].at # "idle" => handler[h].id \in S /\ handler[h].id \notin W \cup C
  BY <1>2, <1>8
<1>16. \A i \in Ids : worker[i] \notin {"none", "exited"} => i \in Held \cup W
  BY <1>2, <1>5, <1>9
<1>17. S \subseteq Held \cup W \cup C
  BY <1>2, <1>10
<1> QED BY <1>12, <1>13, <1>14, <1>15, <1>16, <1>17

\* A request prunes, and is refused or enters the only session that is not done.
LEMMA PostKeeps ==
  ASSUME Inv, NEW h \in Handlers, Post(h)
  PROVE  Inv'
<1> DEFINE W == ToSet(Pruned.workers)
           C == ToSet(Pruned.completed)
           S == Pruned.sessions
           y == issued + 1
<1>1. TypeOK /\ HandlerInv /\ WorkerInv /\ LiveInv /\ OutcomeInv /\ BoundInv
  BY DEF Inv
<1>2. /\ server = "up" /\ handler[h].at = "idle"
      /\ import_workers' = Pruned.workers /\ completed_session_ids' = Pruned.completed
      /\ server' = server /\ temp_files' = temp_files /\ worker' = worker
      /\ database_mutex' = database_mutex /\ stream' = stream
      /\ stop_requested' = stop_requested /\ summary' = summary /\ failed' = failed /\ done' = done
  BY DEF Post, session, Idle
<1>3. /\ W \subseteq Ids /\ C \subseteq Ids /\ W \subseteq ToSet(import_workers)
      /\ \A i \in W : i \in S /\ worker[i] # "none" /\ i \notin C /\ ~done[i]
      /\ \A i \in C : worker[i] = "exited"
      /\ \A g \in Handlers : handler[g].at # "idle" => handler[g].id \in S /\ handler[g].id \notin W \cup C
      /\ \A i \in Ids : worker[i] \notin {"none", "exited"} => i \in Held \cup W
      /\ S \subseteq Held \cup W \cup C
      /\ S \subseteq sessions
  BY <1>2, PruneKeeps DEF Post
<1>4. /\ import_workers' \in Seq(Ids) /\ completed_session_ids' \in Seq(Ids)
      /\ Len(completed_session_ids') <= MaxCompletedSessions
      /\ ToSet(import_workers)' = W /\ ToSet(completed_session_ids)' = C
  BY <1>1, <1>2, PruneFacts
<1>5. OutcomeInv'
  BY <1>1, <1>2 DEF OutcomeInv
<1>6. Held \subseteq Ids /\ ToSet(import_workers) \subseteq Ids /\ Cardinality(Handlers) \in Nat
  BY <1>1, HeldBound, QueueTypes
<1>7. CASE ActiveImport /\ sessions' = S /\ UNCHANGED <<issued, handler, upload>>
  <2> HIDE DEF W, C, S
  <2>1. issued' = issued /\ handler' = handler /\ upload' = upload /\ sessions' = S /\ Held' = Held
    BY <1>7 DEF Held
  <2>2. TypeOK'
    BY <1>1, <1>2, <1>3, <1>4, <2>1 DEF TypeOK
  <2>3. HandlerInv'
    BY <1>1, <1>2, <1>3, <1>4, <2>1 DEF HandlerInv
  <2>4. WorkerInv'
    BY <1>1, <1>2, <1>3, <1>4, <2>1 DEF WorkerInv
  <2>5. LiveInv'
    BY <1>1, <1>2, <1>3, <2>1 DEF LiveInv
  <2>6. BoundInv'
    <3>1. Held \cup W \subseteq Held \cup ToSet(import_workers)
      BY <1>3
    <3>2. /\ Cardinality(Held \cup W) <= Cardinality(Held \cup ToSet(import_workers))
          /\ Cardinality(Held \cup W) \in Nat /\ Cardinality(Held \cup ToSet(import_workers)) \in Nat
      BY <1>6, <3>1, IdSets
    <3>3. Cardinality(Held \cup W) <= Cardinality(Handlers)
      BY <1>1, <1>2, <1>6, <3>2 DEF BoundInv
    <3> QED BY <1>3, <1>4, <2>1, <3>3 DEF BoundInv
  <2> QED BY <1>5, <2>2, <2>3, <2>4, <2>5, <2>6 DEF Inv
<1>8. CASE /\ ~ActiveImport /\ issued < MaxImports /\ issued' = y /\ sessions' = S \cup {y}
           /\ \E to \in {"start", "write"} :
                handler' = [handler EXCEPT ![h] = [at |-> to, id |-> y]]
           /\ upload' \subseteq upload \cup {y}
  <2>1. PICK to \in {"start", "write"} : handler' = [handler EXCEPT ![h] = [at |-> to, id |-> y]]
    BY <1>8
  <2>2. issued \in Nat /\ y \in Ids /\ y \in 1..y /\ y \in 0..MaxImports /\ y # 0 /\ y > issued
        /\ 1..issued \subseteq 1..y
    BY <1>1, <1>8, ImportSessionsAssumption DEF TypeOK, Ids
  <2>3. [at |-> to, id |-> y] \in [at : {"idle", "write", "start", "register"}, id : 0..MaxImports]
    BY <2>1, <2>2
  <2> HIDE DEF W, C, S, y
  <2>4. /\ \A g \in Handlers : g # h => handler'[g] = handler[g]
        /\ handler'[h] = [at |-> to, id |-> y]
        /\ handler' \in [Handlers -> [at : {"idle", "write", "start", "register"}, id : 0..MaxImports]]
    BY <1>1, <2>1, <2>3, HandlerStep
  <2>5. handler'[h].at = to /\ handler'[h].id = y /\ to # "idle" /\ to # "register"
    BY <2>1, <2>4
  <2>6. \A i \in S : done[i]
    BY <1>8 DEF ActiveImport, S
  <2>7. W = {}
    BY <1>3, <2>6
  <2>8. y \notin sessions /\ worker[y] = "none" /\ ~done[y] /\ y \notin C
    <3>1. y \notin sessions
      <4>1. y \notin 1..issued
        BY <2>2
      <4> QED BY <1>1, <4>1 DEF TypeOK
    <3>2. worker[y] = "none"
      BY <1>1, <2>2 DEF WorkerInv
    <3> QED BY <1>1, <1>3, <2>2, <3>1, <3>2 DEF WorkerInv
  <2>9. \A g \in Handlers : g # h => handler[g].id # y
    BY <1>1, <2>2, <2>8 DEF HandlerInv
  <2>10. Held' = Held \cup {y}
    <3>1. handler[h].id = 0
      BY <1>1, <1>2 DEF HandlerInv
    <3> QED BY <2>2, <2>4, <2>5, <3>1 DEF Held
  <2>11. TypeOK'
    <3>1. sessions' \subseteq 1..issued'
      BY <1>1, <1>3, <1>8, <2>2 DEF TypeOK
    <3>2. issued' \in 0..MaxImports /\ upload' \subseteq Ids
      BY <1>1, <1>8, <2>2 DEF TypeOK
    <3> QED BY <1>1, <1>2, <1>4, <2>4, <3>1, <3>2 DEF TypeOK
  <2>12. HandlerInv'
    <3>1. \A g \in Handlers : handler'[g].at = "idle" <=> handler'[g].id = 0
      BY <1>1, <2>2, <2>4, <2>5 DEF HandlerInv
    <3>2. ASSUME NEW g \in Handlers, handler'[g].at # "idle"
          PROVE  /\ handler'[g].id \in S \cup {y}
                 /\ handler'[g].id \notin W \cup C
                 /\ handler'[g].at = "register" <=> worker[handler'[g].id] # "none"
      <4>1. CASE g = h
        BY <2>5, <2>7, <2>8, <4>1
      <4>2. CASE g # h
        BY <1>1, <1>3, <2>4, <3>2, <4>2 DEF HandlerInv
      <4> QED BY <4>1, <4>2
    <3>3. \A f, g \in Handlers : handler'[f].id = handler'[g].id /\ handler'[f].id # 0 => f = g
      BY <1>1, <2>4, <2>5, <2>9 DEF HandlerInv
    <3> QED BY <1>2, <1>4, <1>8, <3>1, <3>2, <3>3 DEF HandlerInv
  <2>13. WorkerInv'
    <3>1. \A i \in Ids : i > issued' => worker[i] = "none"
      <4>1. \A i \in Ids : i > y => i > issued
        BY <2>2 DEF Ids, y
      <4> QED BY <1>1, <1>8, <4>1 DEF WorkerInv
    <3>2. \A i \in Ids : worker[i] \notin {"none", "exited"} => i \in Held'
      BY <1>3, <2>7, <2>10
    <3>3. server' # "down"
      BY <1>2
    <3>4. \A i \in Ids : done[i] <=> worker[i] \in {"done", "exited"}
      BY <1>1 DEF WorkerInv
    <3> QED BY <1>2, <1>3, <1>4, <2>7, <3>1, <3>2, <3>3, <3>4 DEF WorkerInv
  <2>14. LiveInv'
    BY <1>2, <1>8, <2>6 DEF LiveInv
  <2>15. BoundInv'
    <3>1. Cardinality(Held)' <= Cardinality(Handlers)
      BY HeldBound
    <3>2. Held' \cup W = Held'
      BY <2>7
    <3>3. sessions' \subseteq Held' \cup W \cup C
      BY <1>3, <1>8, <2>10
    <3> QED BY <1>4, <3>1, <3>2, <3>3 DEF BoundInv
  <2> QED BY <1>5, <2>11, <2>12, <2>13, <2>14, <2>15 DEF Inv
<1>9. \/ ActiveImport /\ sessions' = S /\ UNCHANGED <<issued, handler, upload>>
      \/ /\ ~ActiveImport /\ issued < MaxImports /\ issued' = y /\ sessions' = S \cup {y}
         /\ \E to \in {"start", "write"} :
              handler' = [handler EXCEPT ![h] = [at |-> to, id |-> y]]
         /\ upload' \subseteq upload \cup {y}
  BY DEF Post
<1> QED BY <1>7, <1>8, <1>9

\* Every step keeps the invariant.
LEMMA NextInv == Inv /\ [Next]_vars => Inv'
<1> SUFFICES ASSUME Inv, [Next]_vars PROVE Inv'
  OBVIOUS
<1>1. CASE UNCHANGED vars
  BY <1>1 DEF vars, map, session, Inv, TypeOK, HandlerInv, WorkerInv, LiveInv, OutcomeInv, BoundInv, Held
<1>2. ASSUME NEW h \in Handlers, Post(h) PROVE Inv'
  BY <1>2, PostKeeps
<1>3. ASSUME NEW h \in Handlers, Handle(h) PROVE Inv'
  BY <1>3, WriteTempKeeps, StartFailsKeeps, StartWorkerKeeps, RegisterKeeps DEF Handle
<1>4. ASSUME NEW i \in Ids, Work(i) PROVE Inv'
  BY <1>4, BeginImportKeeps, IngestKeeps, StoreOutcomeKeeps, CleanUpKeeps, SetDoneKeeps, ExitKeeps DEF Work
<1>5. ASSUME NEW i \in Ids, Connect(i) \/ Provide(i) \/ EndEarly(i) \/ Cancel(i) PROVE Inv'
  BY <1>5, StreamKeeps
<1>6. CASE Shutdown \/ JoinWorkers
  BY <1>6, ShutdownKeeps, JoinWorkersKeeps
<1> QED BY <1>1, <1>2, <1>3, <1>4, <1>5, <1>6 DEF Next

-----------------------------------------------------------------------------
(* The theorems. *)

\* The inductive invariant holds in every state: who has which session in hand,
\* where its worker is, what it has recorded and what the map still holds.
THEOREM InvAlways == Spec => []Inv
<1>1. Inv /\ [Next]_vars => Inv'
  BY NextInv
<1> QED BY InitInv, <1>1, PTL DEF Spec

\* At most one import is under way or about to start, whatever the number of
\* request handlers and imports: the 409 test sees the session of a worker that
\* is not registered yet.
THEOREM OneImport == Spec => []OneActiveImport
<1>1. Inv => OneActiveImport
  <2> SUFFICES ASSUME Inv PROVE OneActiveImport
    OBVIOUS
  <2> DEFINE A == Working \cup {i \in Held : worker[i] = "none"}
  <2>1. TypeOK /\ HandlerInv /\ WorkerInv /\ LiveInv
    BY DEF Inv
  <2>2. \A i \in Held : i \in sessions
    BY <2>1 DEF Held, HandlerInv
  <2>3. sessions \subseteq Ids
    BY <2>1, SessionsAreIds
  <2>4. \A i \in A : i \in sessions /\ ~done[i]
    BY <2>1, <2>2, <2>3 DEF Working, WorkerInv
  <2>5. \A i, j \in A : i = j
    BY <2>1, <2>4 DEF LiveInv
  <2> HIDE DEF A
  <2>6. Cardinality(A) <= 1
    <3>1. CASE A = {}
      BY <3>1, FS_EmptySet
    <3>2. CASE A # {}
      <4>1. PICK a : A = {a}
        BY <2>5, <3>2
      <4> QED BY <4>1, FS_Singleton
    <3> QED BY <3>1, <3>2
  <2> QED BY <2>6 DEF OneActiveImport, A
<1> QED BY <1>1, InvAlways, PTL

\* A progress stream reports success only of an import that ended with a summary
\* and failure only of one that failed, at whatever point it polls.
THEOREM StreamIsTrue == Spec => []StreamTellsOutcome
<1>1. Inv => StreamTellsOutcome
  <2> SUFFICES ASSUME Inv PROVE StreamTellsOutcome
    OBVIOUS
  <2>1. OutcomeInv /\ WorkerInv
    BY DEF Inv
  <2> QED BY <2>1 DEF OutcomeInv, WorkerInv, StreamTellsOutcome
<1> QED BY <1>1, InvAlways, PTL

\* The sessions kept beyond those in hand never exceed max_completed_sessions,
\* and those in hand or with a registered worker never exceed the handlers.
THEOREM SessionsStayBounded == Spec => []SessionsBounded
<1>1. Inv => SessionsBounded
  <2> SUFFICES ASSUME Inv, server # "down"
               PROVE  /\ Cardinality(sessions \ (Held \cup ToSet(import_workers))) <= MaxCompletedSessions
                      /\ Cardinality(Held \cup ToSet(import_workers)) <= Cardinality(Handlers)
    BY DEF SessionsBounded
  <2> DEFINE c == completed_session_ids
             A == sessions \ (Held \cup ToSet(import_workers))
  <2>1. TypeOK /\ BoundInv
    BY DEF Inv
  <2>2. c \in Seq(Ids) /\ Len(c) \in Nat /\ Len(c) <= MaxCompletedSessions /\ A \subseteq ToSet(c)
    <3>1. c \in Seq(Ids)
      BY <2>1 DEF TypeOK
    <3>2. Len(c) <= MaxCompletedSessions /\ sessions \subseteq Held \cup ToSet(import_workers) \cup ToSet(c)
      BY <2>1 DEF BoundInv
    <3>3. A \subseteq ToSet(c)
      BY <3>2, Zenon
    <3> HIDE DEF c, A
    <3> QED BY <3>1, <3>2, <3>3
  <2>3. MaxCompletedSessions \in Nat
    BY ImportSessionsAssumption
  <2> HIDE DEF c, A
  <2>4. ToSet(c) \subseteq Ids
    BY <2>2 DEF ToSet
  <2>5. Cardinality(ToSet(c)) <= Len(c)
    <3>1. c \in Surjection(1..Len(c), ToSet(c))
      BY <2>2 DEF Surjection, ToSet
    <3>2. ExistsSurjection(1..Len(c), ToSet(c))
      BY <3>1 DEF ExistsSurjection
    <3> QED BY <2>2, <3>2, FS_SurjCardinalityBound
  <2>6. Cardinality(A) <= Cardinality(ToSet(c)) /\ Cardinality(A) \in Nat /\ Cardinality(ToSet(c)) \in Nat
    BY <2>2, <2>4, IdSets
  <2>7. Cardinality(A) <= MaxCompletedSessions
    BY <2>2, <2>3, <2>5, <2>6
  <2> QED BY <2>1, <2>7 DEF BoundInv, A
<1> QED BY <1>1, InvAlways, PTL

\* When the server is gone no import thread is left: none of its workers is
\* ever outside both a handler's hand and the queue it joins.
THEOREM ServerOutlivesWorkers == Spec => []NoWorkerOutlivesServer
<1>1. Inv => NoWorkerOutlivesServer
  BY DEF Inv, WorkerInv, NoWorkerOutlivesServer
<1> QED BY <1>1, InvAlways, PTL

\* A cancelled import that has not passed its reading.
Cancelled(i) == /\ stop_requested[i] /\ summary[i] # "whole"
                /\ worker[i] \notin {"none", "finish"}

\* Nothing brings a cancelled import back to reading: the flag is never cleared
\* and the worker is started once.
LEMMA CancelledStays ==
  ASSUME NEW i \in Ids
  PROVE  Inv /\ Cancelled(i) /\ [Next]_vars => Cancelled(i)'
<1> SUFFICES ASSUME Inv, Cancelled(i), [Next]_vars PROVE Cancelled(i)'
  OBVIOUS
<1>1. /\ stop_requested \in [Ids -> BOOLEAN] /\ summary \in [Ids -> {"none", "stopped", "whole"}]
      /\ worker \in [Ids -> {"none", "wait", "ingest", "finish", "stored", "cleaned", "done", "exited"}]
  BY DEF Inv, TypeOK
<1>2. stop_requested[i] /\ summary[i] # "whole" /\ worker[i] \notin {"none", "finish"}
  BY DEF Cancelled
<1>3. SUFFICES stop_requested'[i] /\ summary'[i] # "whole" /\ worker'[i] \notin {"none", "finish"}
  BY DEF Cancelled
<1>4. CASE UNCHANGED vars
  BY <1>2, <1>4 DEF vars, session
<1>5. ASSUME NEW h \in Handlers, Post(h) PROVE Cancelled(i)'
  BY <1>2, <1>5 DEF Post, session, Cancelled
<1>6. ASSUME NEW h \in Handlers, Handle(h) PROVE Cancelled(i)'
  <2>1. CASE WriteTemp(h) \/ StartFails(h) \/ Register(h)
    BY <1>2, <2>1 DEF WriteTemp, StartFails, Register, session, Cancelled
  <2>2. CASE StartWorker(h)
    <3>1. handler[h].id # i
      BY <1>2, <2>2 DEF Inv, HandlerInv, StartWorker
    <3> QED BY <1>1, <1>2, <2>2, <3>1 DEF StartWorker, session, Cancelled
  <2> QED BY <1>6, <2>1, <2>2 DEF Handle
<1>7. ASSUME NEW j \in Ids, Work(j) PROVE Cancelled(i)'
  <2>1. CASE BeginImport(j) \/ CleanUp(j) \/ Exit(j)
    BY <1>1, <1>2, <2>1 DEF BeginImport, CleanUp, Exit, session, Cancelled
  <2>2. CASE Ingest(j)
    BY <1>1, <1>2, <2>2 DEF Ingest, session, Cancelled
  <2>3. CASE StoreOutcome(j)
    BY <1>1, <1>2, <2>3 DEF StoreOutcome, Cancelled
  <2>4. CASE SetDone(j)
    BY <1>1, <1>2, <2>4 DEF SetDone, Cancelled
  <2> QED BY <1>7, <2>1, <2>2, <2>3, <2>4 DEF Work
<1>8. ASSUME NEW j \in Ids, Connect(j) \/ Provide(j) \/ EndEarly(j) \/ Cancel(j) PROVE Cancelled(i)'
  BY <1>1, <1>2, <1>8 DEF Connect, Provide, EndEarly, Cancel, session, Cancelled
<1>9. CASE Shutdown \/ JoinWorkers
  BY <1>1, <1>2, <1>9 DEF Shutdown, JoinWorkers, session
<1> QED BY <1>4, <1>5, <1>6, <1>7, <1>8, <1>9 DEF Next, Cancelled

\* A cancellation accepted before the import begins is never lost: such an
\* import never ends as a whole one.
THEOREM CancelHolds == Spec => EarlyCancelHolds
<1> SUFFICES ASSUME NEW i \in Ids
             PROVE  Spec => []((stop_requested[i] /\ worker[i] = "wait") => [](summary[i] # "whole"))
  BY DEF EarlyCancelHolds
<1>1. Inv /\ stop_requested[i] /\ worker[i] = "wait" => Cancelled(i)
  BY DEF Inv, OutcomeInv, Cancelled
<1>2. Inv /\ Cancelled(i) /\ [Next]_vars => Cancelled(i)'
  BY CancelledStays
<1>3. Cancelled(i) => summary[i] # "whole"
  BY DEF Cancelled
<1> QED BY <1>1, <1>2, <1>3, InvAlways, PTL DEF Spec
=============================================================================
